----------------------------- MODULE Approvals -----------------------------
(***************************************************************************)
(* The approval workflow: requests that a human approves or denies before  *)
(* a deadline, and envelopes, budgets of pre-authorised batches.           *)
(*                                                                         *)
(* A review is an HTTP request with a database session of its own: it      *)
(* loads a row, awaits, and commits what it decided on what it loaded; the *)
(* audit event follows in a second transaction.  job  holds what each of   *)
(* them is about to do.                                                    *)
(***************************************************************************)
EXTENDS Integers, FiniteSets

CONSTANTS
  Requests,   \* approval requests that may be created
  Envelopes,  \* envelopes that may be granted
  Admins,     \* ids of admin_users
  Strangers,  \* ids a caller may name that are not in admin_users
  Handlers,   \* requests that may be in progress at the same time
  MaxBudget,  \* the largest budget (1000 in the schema)
  None        \* SQL NULL / Python None

Decisions == {"approved", "denied"}
Statuses  == Decisions \cup {"pending", "expired"}
Actors    == Admins \cup Strangers \cup {None}

Row == [status   : Statuses,
        approver : Admins \cup {None},
        resolved : BOOLEAN]            \* resolved_at is not NULL

Event == [request : Requests,
          kind    : Decisions \cup {"requested"},
          actor   : Actors]

Envelope == [budget : 1 .. MaxBudget, remaining : Int]

Idle == [op |-> "idle"]

Job ==      [op : {"idle"}]
       \cup [op : {"deciding"}, request : Requests, decision : Decisions,
             actor : Actors]
       \cup [op : {"expiring"}, request : Requests]
       \cup [op : {"logging"}, event : Event]
       \cup [op : {"burning"}, envelope : Envelopes]

ASSUME NullIsNone == None \notin Row /\ None \notin Envelope /\ None \notin Admins
ASSUME BudgetOK == MaxBudget \in Nat
ASSUME HandlersOK == Handlers # {} /\ IsFiniteSet(Handlers)

VARIABLES
  rows,       \* approval_requests
  envelopes,  \* approval_envelopes
  late,       \* what the clock has carried past its expires_at
  audit,      \* audit events of the workflow
  job,        \* the requests in progress
  lost,       \* history: audit events whose transaction failed
  spent       \* history: batches answered as approved, per envelope

vars == <<rows, envelopes, late, audit, job, lost, spent>>

Become(h, j) == job' = [job EXCEPT ![h] = j]

Init ==
  /\ rows = [r \in Requests |-> None]
  /\ envelopes = [e \in Envelopes |-> None]
  /\ late = {}
  /\ audit = {}
  /\ job = [h \in Handlers |-> Idle]
  /\ lost = {}
  /\ spent = [e \in Envelopes |-> 0]

----------------------------------------------------------------------------
(* Requests                                                                *)

NewRow == [status |-> "pending", approver |-> None, resolved |-> FALSE]

Create(h, r) ==
  /\ job[h] = Idle
  /\ rows[r] = None
  /\ rows' = [rows EXCEPT ![r] = NewRow]
  /\ Become(h, [op    |-> "logging",
                event |-> [request |-> r, kind |-> "requested", actor |-> None]])
  /\ UNCHANGED <<envelopes, late, audit, lost, spent>>

IsPending(r) == rows[r] # None /\ rows[r].status = "pending"

\* A plausible slip: the check for resolved requests left out.
OpenAny(r) == rows[r] # None
\* Anything else is answered with 404 or 409.
Open(r) == IsPending(r)

\* Only an approval looks at the deadline.
TooLate(r, decision) == decision = "approved" /\ r \in late

ReviewLoad(h, r, decision, actor) ==
  /\ job[h] = Idle
  /\ Open(r)
  /\ Become(h, IF TooLate(r, decision)
               THEN [op |-> "expiring", request |-> r]
               ELSE [op |-> "deciding", request |-> r,
                     decision |-> decision, actor |-> actor])
  /\ UNCHANGED <<rows, envelopes, late, audit, lost, spent>>

ExpireCommit(h) ==
  /\ job[h].op = "expiring"
  /\ rows' = [rows EXCEPT ![job[h].request].status = "expired"]
  /\ Become(h, Idle)
  /\ UNCHANGED <<envelopes, late, audit, lost, spent>>

\* The UI may send an id that is no administrator's: then none is stored.
AccountOf(actor) == IF actor \in Admins THEN actor ELSE None

\* A plausible slip: every decision is logged as an approval.
EventOfApproval(j) ==
  [request |-> j.request, kind |-> "approved", actor |-> j.actor]
EventOf(j) == [request |-> j.request, kind |-> j.decision, actor |-> j.actor]

\* The row that was loaded was pending, with no approver: storing none leaves
\* the column alone.
Decided(row, j) ==
  [status   |-> j.decision,
   approver |-> IF AccountOf(j.actor) = None THEN row.approver
                ELSE AccountOf(j.actor),
   resolved |-> TRUE]

DecideCommit(h) ==
  LET r == job[h].request IN
  /\ job[h].op = "deciding"
  /\ rows' = [rows EXCEPT ![r] = Decided(rows[r], job[h])]
  /\ Become(h, [op |-> "logging", event |-> EventOf(job[h])])
  /\ UNCHANGED <<envelopes, late, audit, lost, spent>>

LogEvent(h) ==
  /\ job[h].op = "logging"
  /\ audit' = audit \cup {job[h].event}
  /\ Become(h, Idle)
  /\ UNCHANGED <<rows, envelopes, late, lost, spent>>

\* The database fails the transaction: the request ends with a 500.
JobFails(h) ==
  /\ job[h].op # "idle"
  /\ lost' = IF job[h].op = "logging" THEN lost \cup {job[h].event} ELSE lost
  /\ Become(h, Idle)
  /\ UNCHANGED <<rows, envelopes, late, audit, spent>>

\* cleanup_expired_approvals, and expire_pending, which also sets resolved_at:
\* one UPDATE each.  Nothing in the tree schedules them.
Sweep(stamp) ==
  /\ rows' = [r \in Requests |->
                IF IsPending(r) /\ r \in late
                THEN [rows[r] EXCEPT !.status = "expired", !.resolved = stamp \/ @]
                ELSE rows[r]]
  /\ UNCHANGED <<envelopes, late, audit, job, lost, spent>>

----------------------------------------------------------------------------
(* Envelopes                                                               *)

\* The deadline is the caller's choice and may have passed already.
Grant(e, budget, expired) ==
  /\ envelopes[e] = None
  /\ envelopes' = [envelopes EXCEPT ![e] = [budget |-> budget, remaining |-> budget]]
  /\ late' = IF expired THEN late \cup {e} ELSE late
  /\ UNCHANGED <<rows, audit, job, lost, spent>>

\* A plausible slip: the early answer to an exhausted envelope left out.
LiveUntilLate(e) == envelopes[e] # None /\ e \notin late
Live(e) ==
  /\ envelopes[e] # None
  /\ e \notin late
  /\ envelopes[e].remaining > 0

\* A bulk approval of one batch.
BurnLoad(h, e) ==
  /\ job[h] = Idle
  /\ Live(e)
  /\ Become(h, [op |-> "burning", envelope |-> e])
  /\ UNCHANGED <<rows, envelopes, late, audit, lost, spent>>

\* A plausible slip: the UPDATE without its condition.
BurntAlways(envelope) == [envelope EXCEPT !.remaining = @ - 1]
\* UPDATE ... SET remaining = remaining - 1 WHERE remaining > 0
Burnt(envelope) ==
  IF envelope.remaining > 0 THEN [envelope EXCEPT !.remaining = @ - 1]
  ELSE envelope

\* How many rows the UPDATE changed is not looked at: the batch is approved.
BurnCommit(h) ==
  LET e == job[h].envelope IN
  /\ job[h].op = "burning"
  /\ envelopes' = [envelopes EXCEPT ![e] = Burnt(envelopes[e])]
  /\ spent' = [spent EXCEPT ![e] = @ + 1]
  /\ Become(h, Idle)
  /\ UNCHANGED <<rows, late, audit, lost>>

----------------------------------------------------------------------------
Existing == {r \in Requests : rows[r] # None} \cup
            {e \in Envelopes : envelopes[e] # None}

\* The clock passes an expires_at.
Lapse(x) ==
  /\ x \in Existing \ late
  /\ late' = late \cup {x}
  /\ UNCHANGED <<rows, envelopes, audit, job, lost, spent>>

\* What a request in progress does next.
Continue(h) == ExpireCommit(h) \/ DecideCommit(h) \/ LogEvent(h) \/ BurnCommit(h)

Next ==
  \/ \E h \in Handlers :
       \/ \E r \in Requests : Create(h, r)
       \/ \E r \in Requests, decision \in Decisions, actor \in Actors :
            ReviewLoad(h, r, decision, actor)
       \/ \E e \in Envelopes : BurnLoad(h, e)
       \/ Continue(h)
       \/ JobFails(h)
  \/ \E stamp \in BOOLEAN : Sweep(stamp)
  \/ \E e \in Envelopes, budget \in 1 .. MaxBudget, expired \in BOOLEAN :
       Grant(e, budget, expired)
  \/ \E x \in Requests \cup Envelopes : Lapse(x)

Spec == Init /\ [][Next]_vars

----------------------------------------------------------------------------
(* Properties, with any number of reviewers at work                        *)

\* Every variable has its type; in particular no envelope is overdrawn.
TypeOK ==
  /\ rows \in [Requests -> Row \cup {None}]
  /\ envelopes \in [Envelopes -> Envelope \cup {None}]
  /\ \A e \in Envelopes : envelopes[e] # None =>
       envelopes[e].remaining \in 0 .. envelopes[e].budget
  /\ late \subseteq Requests \cup Envelopes
  /\ audit \subseteq Event
  /\ job \in [Handlers -> Job]
  /\ lost \subseteq Event
  /\ spent \in [Envelopes -> Nat]

InHand(r) ==
  \E h \in Handlers : job[h].op \in {"deciding", "expiring"} /\ job[h].request = r

Settled(r) == rows[r] # None /\ ~IsPending(r) /\ ~InHand(r)

\* Once a request is resolved and the reviews that had loaded it before are
\* through, it never changes again ("the request is immutable",
\* routers/approval.py:16-17, as far as overlapping reviews allow).
SettledForGood ==
  [][\A r \in Requests : Settled(r) => rows'[r] = rows[r] /\ Settled(r)']_vars

\* Events that are recorded, about to be, or were lost with the database.
Events == audit \cup lost \cup
          {job[h].event : h \in {g \in Handlers : job[g].op = "logging"}}

\* The trail explains the row (approval_service._log_audit): the decision that
\* stands was made by somebody, and the approver it names made one, whatever
\* decisions overlapped.
Accountable ==
  \A r \in Requests : rows[r] # None =>
    /\ rows[r].status \in Decisions =>
         \E e \in Events : e.request = r /\ e.kind = rows[r].status
    /\ rows[r].approver # None =>
         \E e \in Events : /\ e.request = r
                           /\ e.kind \in Decisions
                           /\ e.actor = rows[r].approver

Burning(e) == {h \in Handlers : job[h].op = "burning" /\ job[h].envelope = e}

\* An envelope authorises at most its budget of batches and one more for every
\* other request that overlaps (burn_envelope_budget): the conditional UPDATE
\* protects the balance, the check before it the number of batches.
BoundedOverspend ==
  \A e \in Envelopes : envelopes[e] # None =>
    spent[e] <= envelopes[e].budget + Cardinality(Handlers) - 1

\* Rows are never deleted: what a request in progress holds exists.
JobsHold ==
  \A h \in Handlers :
    /\ job[h].op \in {"deciding", "expiring"} => rows[job[h].request] # None
    /\ job[h].op = "burning" => envelopes[job[h].envelope] # None

\* While a balance is left every batch has paid for itself; once it is used up
\* only those that had passed the check before can still come.
Balanced ==
  \A e \in Envelopes :
    /\ envelopes[e] = None => spent[e] = 0
    /\ envelopes[e] # None =>
         IF envelopes[e].remaining > 0
         THEN spent[e] = envelopes[e].budget - envelopes[e].remaining
         ELSE spent[e] + Cardinality(Burning(e))
                <= envelopes[e].budget + Cardinality(Handlers) - 1

\* Inductive.
IInv == TypeOK /\ Accountable /\ JobsHold /\ Balanced
=============================================================================
