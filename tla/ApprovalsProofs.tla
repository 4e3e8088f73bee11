--------------------------- MODULE ApprovalsProofs ---------------------------
(***************************************************************************)
(* What holds of Approvals for every number of requests, envelopes,        *)
(* administrators and overlapping reviews.                                 *)
(***************************************************************************)
EXTENDS Approvals, FiniteSetTheorems, TLAPS

\* The fields of a request in progress, by operation.
LEMMA JobFields ==
  ASSUME NEW j \in Job
  PROVE  /\ j.op \in {"idle", "deciding", "expiring", "logging", "burning"}
         /\ j.op \in {"deciding", "expiring"} => j.request \in Requests
         /\ j.op = "deciding" => j.decision \in Decisions /\ j.actor \in Actors
         /\ j.op = "logging" => j.event \in Event
         /\ j.op = "burning" => j.envelope \in Envelopes
  BY DEF Job

LEMMA NewRowType == NewRow \in Row
  BY DEF NewRow, Row, Statuses, Decisions

LEMMA DecidedType ==
  ASSUME NEW row \in Row, NEW j \in Job, j.op = "deciding"
  PROVE  Decided(row, j) \in Row
<1>1. j.decision \in Decisions
  BY JobFields
<1> QED  BY <1>1 DEF Decided, AccountOf, Row, Statuses

LEMMA EventType ==
  ASSUME NEW j \in Job, j.op = "deciding"
  PROVE  EventOf(j) \in Event
<1>1. j.request \in Requests /\ j.decision \in Decisions /\ j.actor \in Actors
  BY JobFields
<1> QED  BY <1>1 DEF EventOf, Event

LEMMA ExpiredType ==
  ASSUME NEW row \in Row
  PROVE  /\ [row EXCEPT !.status = "expired"] \in Row
         /\ \A stamp \in BOOLEAN :
              [row EXCEPT !.status = "expired", !.resolved = stamp \/ @] \in Row
<1>1. [row EXCEPT !.status = "expired"] \in Row
  BY DEF Row, Statuses
<1>2. ASSUME NEW stamp \in BOOLEAN
      PROVE  [row EXCEPT !.status = "expired", !.resolved = stamp \/ @] \in Row
  <2>1. (stamp \/ row.resolved) \in BOOLEAN
    OBVIOUS
  <2> QED  BY <2>1 DEF Row, Statuses
<1> QED  BY <1>1, <1>2

LEMMA BurntType ==
  ASSUME NEW env \in Envelope, env.remaining \in 0 .. env.budget
  PROVE  /\ Burnt(env) \in Envelope
         /\ Burnt(env).remaining \in 0 .. Burnt(env).budget
         /\ Burnt(env).budget = env.budget
         /\ env.remaining > 0 => Burnt(env).remaining = env.remaining - 1
         /\ ~(env.remaining > 0) => Burnt(env).remaining = env.remaining
<1>1. env.budget \in Nat /\ env.remaining \in Int
  BY BudgetOK DEF Envelope
<1>2. CASE env.remaining > 0
  BY <1>1, <1>2 DEF Burnt, Envelope
<1>3. CASE ~(env.remaining > 0)
  BY <1>1, <1>3 DEF Burnt, Envelope
<1> QED  BY <1>2, <1>3

LEMMA InitInv == Init => IInv
<1> SUFFICES ASSUME Init PROVE IInv
  OBVIOUS
<1> USE NullIsNone DEF Init
<1>1. TypeOK
  BY DEF TypeOK, Job, Idle
<1>2. Accountable
  BY DEF Accountable
<1>3. JobsHold
  BY DEF JobsHold, Idle
<1>4. Balanced
  BY DEF Balanced
<1> QED  BY <1>1, <1>2, <1>3, <1>4 DEF IInv

\* The steps of the specification, one by one.
LEMMA Steps ==
  ASSUME Next
  PROVE  \/ \E h \in Handlers, r \in Requests : Create(h, r)
         \/ \E h \in Handlers, r \in Requests, d \in Decisions, a \in Actors :
              ReviewLoad(h, r, d, a)
         \/ \E h \in Handlers : ExpireCommit(h)
         \/ \E h \in Handlers : DecideCommit(h)
         \/ \E h \in Handlers : LogEvent(h)
         \/ \E h \in Handlers : JobFails(h)
         \/ \E stamp \in BOOLEAN : Sweep(stamp)
         \/ \E e \in Envelopes, b \in 1 .. MaxBudget, x \in BOOLEAN : Grant(e, b, x)
         \/ \E h \in Handlers, e \in Envelopes : BurnLoad(h, e)
         \/ \E h \in Handlers : BurnCommit(h)
         \/ \E x \in Requests \cup Envelopes : Lapse(x)
  BY DEF Next, Continue

LEMMA TypeStep ==
  ASSUME IInv, [Next]_vars
  PROVE  TypeOK'
<1> USE NullIsNone DEF IInv
<1>1. CASE UNCHANGED vars
  BY <1>1 DEF vars, TypeOK
<1>2. ASSUME NEW h \in Handlers, NEW r \in Requests, Create(h, r) PROVE TypeOK'
  <2>1. [op |-> "logging",
         event |-> [request |-> r, kind |-> "requested", actor |-> None]] \in Job
    BY DEF Job, Event, Actors
  <2> QED  BY <1>2, <2>1, NewRowType DEF Create, Become, TypeOK
<1>3. ASSUME NEW h \in Handlers, NEW r \in Requests, NEW d \in Decisions,
             NEW a \in Actors, ReviewLoad(h, r, d, a)
      PROVE TypeOK'
  <2>1. /\ [op |-> "expiring", request |-> r] \in Job
        /\ [op |-> "deciding", request |-> r, decision |-> d, actor |-> a] \in Job
    BY DEF Job
  <2> QED  BY <1>3, <2>1 DEF ReviewLoad, Become, TypeOK
<1>4. ASSUME NEW h \in Handlers, ExpireCommit(h) PROVE TypeOK'
  <2>1. job[h].request \in Requests /\ rows[job[h].request] \in Row
    BY <1>4, JobFields DEF ExpireCommit, TypeOK, JobsHold
  <2>2. rows' \in [Requests -> Row \cup {None}]
    BY <1>4, <2>1, ExpiredType DEF ExpireCommit, TypeOK
  <2> QED  BY <1>4, <2>2 DEF ExpireCommit, Become, TypeOK, Job, Idle
<1>5. ASSUME NEW h \in Handlers, DecideCommit(h) PROVE TypeOK'
  <2>1. job[h] \in Job /\ job[h].op = "deciding"
    BY <1>5 DEF DecideCommit, TypeOK
  <2>2. job[h].request \in Requests /\ rows[job[h].request] \in Row
    BY <2>1, JobFields DEF TypeOK, JobsHold
  <2>3. rows' \in [Requests -> Row \cup {None}]
    BY <1>5, <2>1, <2>2, DecidedType DEF DecideCommit, TypeOK
  <2>4. [op |-> "logging", event |-> EventOf(job[h])] \in Job
    BY <2>1, EventType DEF Job
  <2> QED  BY <1>5, <2>3, <2>4 DEF DecideCommit, Become, TypeOK
<1>6. ASSUME NEW h \in Handlers, LogEvent(h) PROVE TypeOK'
  <2>1. job[h].event \in Event
    BY <1>6, JobFields DEF LogEvent, TypeOK
  <2> QED  BY <1>6, <2>1 DEF LogEvent, Become, TypeOK, Job, Idle
<1>7. ASSUME NEW h \in Handlers, JobFails(h) PROVE TypeOK'
  <2>1. job[h].op = "logging" => job[h].event \in Event
    BY <1>7, JobFields DEF TypeOK
  <2> QED  BY <1>7, <2>1 DEF JobFails, Become, TypeOK, Job, Idle
<1>8. ASSUME NEW stamp \in BOOLEAN, Sweep(stamp) PROVE TypeOK'
  <2>1. ASSUME NEW r \in Requests, IsPending(r)
        PROVE [rows[r] EXCEPT !.status = "expired", !.resolved = stamp \/ @] \in Row
    BY <2>1, ExpiredType DEF IsPending, TypeOK
  <2>2. rows' \in [Requests -> Row \cup {None}]
    BY <1>8, <2>1 DEF Sweep, TypeOK
  <2> QED  BY <1>8, <2>2 DEF Sweep, TypeOK
<1>9. ASSUME NEW e \in Envelopes, NEW b \in 1 .. MaxBudget, NEW x \in BOOLEAN,
             Grant(e, b, x)
      PROVE TypeOK'
  <2>1. /\ [budget |-> b, remaining |-> b] \in Envelope
        /\ b \in 0 .. b
    BY BudgetOK DEF Envelope
  <2> QED  BY <1>9, <2>1 DEF Grant, TypeOK
<1>10. ASSUME NEW h \in Handlers, NEW e \in Envelopes, BurnLoad(h, e) PROVE TypeOK'
  <2>1. [op |-> "burning", envelope |-> e] \in Job
    BY DEF Job
  <2> QED  BY <1>10, <2>1 DEF BurnLoad, Become, TypeOK
<1>11. ASSUME NEW h \in Handlers, BurnCommit(h) PROVE TypeOK'
  <2> DEFINE e == job[h].envelope
  <2>1. /\ e \in Envelopes
        /\ envelopes[e] \in Envelope
        /\ envelopes[e].remaining \in 0 .. envelopes[e].budget
    BY <1>11, JobFields DEF BurnCommit, TypeOK, JobsHold
  <2>2. /\ Burnt(envelopes[e]) \in Envelope
        /\ Burnt(envelopes[e]).remaining \in 0 .. Burnt(envelopes[e]).budget
    BY <2>1, BurntType
  <2>3. /\ envelopes' \in [Envelopes -> Envelope \cup {None}]
        /\ \A f \in Envelopes : envelopes'[f] # None =>
             envelopes'[f].remaining \in 0 .. envelopes'[f].budget
    BY <1>11, <2>1, <2>2 DEF BurnCommit, TypeOK
  <2>4. spent' \in [Envelopes -> Nat]
    BY <1>11, <2>1 DEF BurnCommit, TypeOK
  <2> QED  BY <1>11, <2>3, <2>4 DEF BurnCommit, Become, TypeOK, Job, Idle
<1>12. ASSUME NEW x \in Requests \cup Envelopes, Lapse(x) PROVE TypeOK'
  BY <1>12 DEF Lapse, TypeOK
<1> QED
  BY <1>1, <1>2, <1>3, <1>4, <1>5, <1>6, <1>7, <1>8, <1>9, <1>10, <1>11, <1>12, Steps

LEMMA HoldStep ==
  ASSUME IInv, [Next]_vars
  PROVE  JobsHold'
<1> USE NullIsNone DEF IInv
<1>1. job \in [Handlers -> Job]
  BY DEF TypeOK
<1>2. \A r \in Requests : rows[r] # None => rows'[r] # None
  <2>1. ASSUME NEW h \in Handlers, ExpireCommit(h)
        PROVE  \A r \in Requests : rows[r] # None => rows'[r] # None
    <3>1. rows[job[h].request] \in Row
      BY <2>1, JobFields DEF ExpireCommit, TypeOK, JobsHold
    <3>2. [rows[job[h].request] EXCEPT !.status = "expired"] \in Row
      BY <3>1, ExpiredType
    <3> QED  BY <2>1, <3>2 DEF ExpireCommit, TypeOK
  <2>2. ASSUME NEW h \in Handlers, DecideCommit(h)
        PROVE  \A r \in Requests : rows[r] # None => rows'[r] # None
    <3>1. Decided(rows[job[h].request], job[h]) \in Row
      BY <2>2, DecidedType, JobFields DEF DecideCommit, TypeOK, JobsHold
    <3> QED  BY <2>2, <3>1 DEF DecideCommit, TypeOK
  <2>3. ASSUME NEW stamp \in BOOLEAN, Sweep(stamp)
        PROVE  \A r \in Requests : rows[r] # None => rows'[r] # None
    <3>1. ASSUME NEW r \in Requests, IsPending(r)
          PROVE  [rows[r] EXCEPT !.status = "expired", !.resolved = stamp \/ @] \in Row
      BY <3>1, ExpiredType DEF IsPending, TypeOK
    <3> QED  BY <2>3, <3>1 DEF Sweep
  <2>4. ASSUME NEW h \in Handlers, NEW r \in Requests, Create(h, r)
        PROVE  \A q \in Requests : rows[q] # None => rows'[q] # None
    BY <2>4 DEF Create, TypeOK
  <2>5. CASE UNCHANGED rows
    BY <2>5
  <2> QED
    BY <2>1, <2>2, <2>3, <2>4, <2>5, Steps
    DEF ReviewLoad, LogEvent, JobFails, Grant, BurnLoad, BurnCommit, Lapse, vars
<1>3. \A e \in Envelopes : envelopes[e] # None => envelopes'[e] # None
  <2>1. ASSUME NEW h \in Handlers, BurnCommit(h)
        PROVE  \A e \in Envelopes : envelopes[e] # None => envelopes'[e] # None
    <3>1. Burnt(envelopes[job[h].envelope]) \in Envelope
      BY <2>1, BurntType, JobFields DEF BurnCommit, TypeOK, JobsHold
    <3> QED  BY <2>1, <3>1 DEF BurnCommit, TypeOK
  <2>2. ASSUME NEW e \in Envelopes, NEW b \in 1 .. MaxBudget, NEW x \in BOOLEAN,
               Grant(e, b, x)
        PROVE  \A f \in Envelopes : envelopes[f] # None => envelopes'[f] # None
    BY <2>2 DEF Grant, TypeOK
  <2>3. CASE UNCHANGED envelopes
    BY <2>3
  <2> QED
    BY <2>1, <2>2, <2>3, Steps
    DEF Create, ReviewLoad, ExpireCommit, DecideCommit, LogEvent, JobFails, Sweep,
        BurnLoad, Lapse, vars
<1>4. ASSUME NEW h \in Handlers,
             \/ job'[h] = job[h]
             \/ job'[h].op \in {"idle", "logging"}
             \/ /\ job'[h].op \in {"deciding", "expiring"}
                /\ job'[h].request \in Requests
                /\ rows[job'[h].request] # None
             \/ /\ job'[h].op = "burning"
                /\ job'[h].envelope \in Envelopes
                /\ envelopes[job'[h].envelope] # None
      PROVE  /\ job'[h].op \in {"deciding", "expiring"} =>
                  rows'[job'[h].request] # None
             /\ job'[h].op = "burning" => envelopes'[job'[h].envelope] # None
  BY <1>1, <1>2, <1>3, <1>4, JobFields DEF JobsHold
<1>5. ASSUME NEW h \in Handlers
      PROVE  \/ job'[h] = job[h]
             \/ job'[h].op \in {"idle", "logging"}
             \/ /\ job'[h].op \in {"deciding", "expiring"}
                /\ job'[h].request \in Requests
                /\ rows[job'[h].request] # None
             \/ /\ job'[h].op = "burning"
                /\ job'[h].envelope \in Envelopes
                /\ envelopes[job'[h].envelope] # None
  <2>1. ASSUME NEW g \in Handlers, NEW r \in Requests, NEW d \in Decisions,
               NEW a \in Actors, ReviewLoad(g, r, d, a)
        PROVE  \/ job'[h] = job[h]
               \/ /\ job'[h].op \in {"deciding", "expiring"}
                  /\ job'[h].request \in Requests
                  /\ rows[job'[h].request] # None
    BY <2>1, <1>1 DEF ReviewLoad, Become, Open, IsPending
  <2>2. ASSUME NEW g \in Handlers, NEW e \in Envelopes, BurnLoad(g, e)
        PROVE  \/ job'[h] = job[h]
               \/ /\ job'[h].op = "burning"
                  /\ job'[h].envelope \in Envelopes
                  /\ envelopes[job'[h].envelope] # None
    BY <2>2, <1>1 DEF BurnLoad, Become, Live
  <2>3. ASSUME NEW g \in Handlers,
               \/ \E r \in Requests : Create(g, r)
               \/ ExpireCommit(g) \/ DecideCommit(g) \/ LogEvent(g)
               \/ JobFails(g) \/ BurnCommit(g)
        PROVE  job'[h] = job[h] \/ job'[h].op \in {"idle", "logging"}
    BY <2>3, <1>1
    DEF Create, ExpireCommit, DecideCommit, LogEvent, JobFails, BurnCommit, Become, Idle
  <2>4. CASE UNCHANGED job
    BY <2>4
  <2> QED
    BY <2>1, <2>2, <2>3, <2>4, Steps DEF Sweep, Grant, Lapse, vars
<1> QED  BY <1>4, <1>5 DEF JobsHold

\* No event is forgotten: what is being logged ends up recorded or lost.
LEMMA EventsStay ==
  ASSUME TypeOK, [Next]_vars
  PROVE  Events \subseteq Events'
<1>1. audit \subseteq audit' /\ lost \subseteq lost'
  BY Steps DEF Create, ReviewLoad, ExpireCommit, DecideCommit, LogEvent, JobFails,
               Sweep, Grant, BurnLoad, BurnCommit, Lapse, vars
<1>2. ASSUME NEW h \in Handlers, job[h].op = "logging"
      PROVE  job[h].event \in Events'
  <2>1. CASE job'[h] = job[h]
    BY <1>2, <2>1 DEF Events
  <2>2. ASSUME job'[h] # job[h]
        PROVE  LogEvent(h) \/ JobFails(h)
    <3>1. ASSUME NEW g \in Handlers,
                 \/ \E q \in Requests : Create(g, q)
                 \/ \E q \in Requests, d \in Decisions, a \in Actors : ReviewLoad(g, q, d, a)
                 \/ \E e \in Envelopes : BurnLoad(g, e)
                 \/ ExpireCommit(g) \/ DecideCommit(g) \/ BurnCommit(g)
          PROVE  FALSE
      BY <1>2, <2>2, <3>1
      DEF Create, ReviewLoad, ExpireCommit, DecideCommit, BurnLoad, BurnCommit,
          Become, Idle, TypeOK
    <3>2. ASSUME NEW g \in Handlers, LogEvent(g) \/ JobFails(g)
          PROVE  g = h
      BY <2>2, <3>2 DEF LogEvent, JobFails, Become, TypeOK
    <3> QED  BY <2>2, <3>1, <3>2, Steps DEF Sweep, Grant, Lapse, vars
  <2>3. CASE LogEvent(h)
    BY <2>3 DEF LogEvent, Events
  <2>4. CASE JobFails(h)
    BY <1>2, <2>4 DEF JobFails, Events
  <2> QED  BY <2>1, <2>2, <2>3, <2>4
<1> QED  BY <1>1, <1>2 DEF Events

LEMMA AccountStep ==
  ASSUME IInv, [Next]_vars
  PROVE  Accountable'
<1> USE NullIsNone DEF IInv
<1> DEFINE StatusKnown(r, row, events) ==
             row.status \in Decisions =>
               \E e \in events : e.request = r /\ e.kind = row.status
           ApproverKnown(r, row, events) ==
             row.approver # None =>
               \E e \in events : /\ e.request = r
                                 /\ e.kind \in Decisions
                                 /\ e.actor = row.approver
           Known(r, row, events) ==
             StatusKnown(r, row, events) /\ ApproverKnown(r, row, events)
<1>1. ASSUME NEW r \in Requests, rows[r] # None
      PROVE  Known(r, rows[r], Events')
  <2>1. Known(r, rows[r], Events)
    BY <1>1 DEF Accountable
  <2> QED  BY <2>1, EventsStay
<1>2. SUFFICES ASSUME NEW r \in Requests, rows'[r] # None
               PROVE  Known(r, rows'[r], Events')
  BY DEF Accountable
<1>3. CASE rows'[r] = rows[r]
  BY <1>1, <1>2, <1>3
<1>4. ASSUME NEW h \in Handlers, NEW q \in Requests, Create(h, q), rows'[r] # rows[r]
      PROVE  Known(r, rows'[r], Events')
  <2>1. rows'[r] = NewRow
    BY <1>4 DEF Create, TypeOK
  <2> QED  BY <2>1 DEF NewRow, Decisions
<1>5. ASSUME NEW h \in Handlers, ExpireCommit(h), rows'[r] # rows[r]
      PROVE  Known(r, rows'[r], Events')
  <2>1. /\ job[h].request = r
        /\ rows[r] \in Row
        /\ rows'[r] = [rows[r] EXCEPT !.status = "expired"]
    BY <1>5, JobFields DEF ExpireCommit, TypeOK, JobsHold
  <2>2. rows[r] # None /\ rows'[r].status = "expired" /\ rows'[r].approver = rows[r].approver
    BY <2>1 DEF Row
  <2> QED  BY <1>1, <2>2 DEF Decisions
<1>6. ASSUME NEW h \in Handlers, DecideCommit(h), rows'[r] # rows[r]
      PROVE  Known(r, rows'[r], Events')
  <2> DEFINE j == job[h]
  <2>1. j \in Job /\ j.op = "deciding" /\ j.request \in Requests /\ j.decision \in Decisions
    BY <1>6, JobFields DEF DecideCommit, TypeOK
  <2>2. /\ j.request = r
        /\ rows[r] # None
        /\ rows'[r] = Decided(rows[r], j)
    BY <1>6, <2>1 DEF DecideCommit, TypeOK, JobsHold
  <2>3. EventOf(j) \in Events'
    BY <1>6 DEF DecideCommit, Become, Events, TypeOK
  <2>4. /\ EventOf(j).request = r
        /\ EventOf(j).kind = j.decision
        /\ EventOf(j).actor = j.actor
    BY <2>2 DEF EventOf
  <2>5. StatusKnown(r, rows'[r], Events')
    BY <2>2, <2>3, <2>4 DEF Decided
  <2>6. CASE AccountOf(j.actor) = None
    <3>1. rows'[r].approver = rows[r].approver
      BY <2>2, <2>6 DEF Decided
    <3>2. ApproverKnown(r, rows'[r], Events')
      BY <1>1, <2>2, <3>1
    <3> QED  BY <2>5, <3>2
  <2>7. CASE AccountOf(j.actor) # None
    <3>1. rows'[r].approver = j.actor
      BY <2>2, <2>7 DEF Decided, AccountOf
    <3>2. ApproverKnown(r, rows'[r], Events')
      BY <2>1, <2>3, <2>4, <3>1
    <3> QED  BY <2>5, <3>2
  <2> QED  BY <2>6, <2>7
<1>7. ASSUME NEW stamp \in BOOLEAN, Sweep(stamp), rows'[r] # rows[r]
      PROVE  Known(r, rows'[r], Events')
  <2>1. /\ IsPending(r)
        /\ rows'[r] = [rows[r] EXCEPT !.status = "expired", !.resolved = stamp \/ @]
    BY <1>7 DEF Sweep
  <2>2. rows[r] # None /\ rows[r] \in Row
    BY <2>1 DEF IsPending, TypeOK
  <2>3. rows'[r].status = "expired" /\ rows'[r].approver = rows[r].approver
    BY <2>1, <2>2 DEF Row
  <2> QED  BY <1>1, <2>2, <2>3 DEF Decisions
<1> QED
  BY <1>3, <1>4, <1>5, <1>6, <1>7, Steps
  DEF ReviewLoad, LogEvent, JobFails, Grant, BurnLoad, BurnCommit, Lapse, vars

\* A request is in hand of nobody unless it was, or somebody has just loaded it.
LEMMA SettledStep ==
  ASSUME IInv, [Next]_vars, NEW r \in Requests, Settled(r)
  PROVE  rows'[r] = rows[r] /\ Settled(r)'
<1> USE NullIsNone DEF IInv
<1>1. ~InHand(r) /\ rows[r] # None /\ ~IsPending(r)
  BY DEF Settled
<1>2. rows'[r] = rows[r]
  <2>1. ASSUME NEW h \in Handlers, ExpireCommit(h) \/ DecideCommit(h)
        PROVE  rows'[r] = rows[r]
    <3>1. job[h].request # r
      BY <1>1, <2>1 DEF InHand, ExpireCommit, DecideCommit
    <3> QED  BY <2>1, <3>1 DEF ExpireCommit, DecideCommit, TypeOK
  <2>2. ASSUME NEW h \in Handlers, NEW q \in Requests, Create(h, q)
        PROVE  rows'[r] = rows[r]
    BY <1>1, <2>2 DEF Create, TypeOK
  <2>3. ASSUME NEW stamp \in BOOLEAN, Sweep(stamp)
        PROVE  rows'[r] = rows[r]
    BY <1>1, <2>3 DEF Sweep
  <2> QED
    BY <2>1, <2>2, <2>3, Steps
    DEF ReviewLoad, LogEvent, JobFails, Grant, BurnLoad, BurnCommit, Lapse, vars
<1>3. ~InHand(r)'
  <2> SUFFICES ASSUME NEW h \in Handlers,
                      job'[h].op \in {"deciding", "expiring"}, job'[h].request = r
               PROVE  FALSE
    BY DEF InHand
  <2>1. CASE job'[h] = job[h]
    BY <1>1, <2>1 DEF InHand
  <2>2. ASSUME job'[h] # job[h]
        PROVE  \E d \in Decisions, a \in Actors : ReviewLoad(h, r, d, a)
    <3>1. ASSUME NEW g \in Handlers, NEW q \in Requests, NEW d \in Decisions,
                 NEW a \in Actors, ReviewLoad(g, q, d, a)
          PROVE  g = h /\ q = r
      BY <2>2, <3>1 DEF ReviewLoad, Become, TypeOK
    <3>2. ASSUME NEW g \in Handlers,
                 \/ \E q \in Requests : Create(g, q)
                 \/ \E e \in Envelopes : BurnLoad(g, e)
                 \/ ExpireCommit(g) \/ DecideCommit(g) \/ LogEvent(g)
                 \/ JobFails(g) \/ BurnCommit(g)
          PROVE  FALSE
      BY <2>2, <3>2
      DEF Create, ExpireCommit, DecideCommit, LogEvent, JobFails, BurnLoad,
          BurnCommit, Become, Idle, TypeOK
    <3> QED  BY <2>2, <3>1, <3>2, Steps DEF Sweep, Grant, Lapse, vars
  <2> QED  BY <1>1, <2>1, <2>2 DEF ReviewLoad, Open
<1> QED  BY <1>1, <1>2, <1>3 DEF Settled, IsPending

LEMMA BurningFinite ==
  ASSUME NEW e \in Envelopes
  PROVE  /\ IsFiniteSet(Burning(e))
         /\ Cardinality(Burning(e)) \in Nat
         /\ Cardinality(Handlers) \in Nat \ {0}
<1>1. Burning(e) \subseteq Handlers
  BY DEF Burning
<1>2. IsFiniteSet(Burning(e)) /\ Cardinality(Burning(e)) \in Nat
  BY <1>1, HandlersOK, FS_Subset, FS_CardinalityType
<1>3. Cardinality(Handlers) \in Nat /\ Cardinality(Handlers) # 0
  BY HandlersOK, FS_CardinalityType, FS_EmptySet
<1> QED  BY <1>2, <1>3

\* Only a handler that has just found a balance starts to burn.
LEMMA BurningGrows ==
  ASSUME TypeOK, [Next]_vars, NEW e \in Envelopes
  PROVE  \/ Burning(e)' \subseteq Burning(e)
         \/ Live(e) /\ UNCHANGED <<envelopes, spent>>
<1>1. ASSUME NEW h \in Handlers, NEW f \in Envelopes, BurnLoad(h, f)
      PROVE  \/ Burning(e)' \subseteq Burning(e)
             \/ Live(e) /\ UNCHANGED <<envelopes, spent>>
  <2>1. CASE f = e
    BY <1>1, <2>1 DEF BurnLoad
  <2>2. CASE f # e
    BY <1>1, <2>2 DEF BurnLoad, Become, Burning, TypeOK
  <2> QED  BY <2>1, <2>2
<1>2. ASSUME NEW h \in Handlers,
             \/ \E r \in Requests : Create(h, r)
             \/ \E r \in Requests, d \in Decisions, a \in Actors : ReviewLoad(h, r, d, a)
             \/ ExpireCommit(h) \/ DecideCommit(h) \/ LogEvent(h)
             \/ JobFails(h) \/ BurnCommit(h)
      PROVE  Burning(e)' \subseteq Burning(e)
  <2>1. \A g \in Handlers : job'[g] = job[g] \/ job'[g].op # "burning"
    BY <1>2 DEF Create, ReviewLoad, ExpireCommit, DecideCommit, LogEvent, JobFails,
                BurnCommit, Become, Idle, TypeOK
  <2> QED  BY <2>1 DEF Burning
<1>3. CASE UNCHANGED job
  BY <1>3 DEF Burning
<1> QED  BY <1>1, <1>2, <1>3, Steps DEF Sweep, Grant, Lapse, vars

LEMMA BalanceStep ==
  ASSUME IInv, [Next]_vars
  PROVE  Balanced'
<1> USE NullIsNone DEF IInv
<1> DEFINE N == Cardinality(Handlers)
           Paid(env, n) == n = env.budget - env.remaining
           Capped(env, n, b) == n + b <= env.budget + N - 1
<1> SUFFICES ASSUME NEW e \in Envelopes
             PROVE  /\ envelopes'[e] = None => spent'[e] = 0
                    /\ envelopes'[e] # None =>
                         IF envelopes'[e].remaining > 0
                         THEN Paid(envelopes'[e], spent'[e])
                         ELSE Capped(envelopes'[e], spent'[e], Cardinality(Burning(e)'))
  BY DEF Balanced
<1>1. /\ envelopes[e] = None => spent[e] = 0
      /\ envelopes[e] # None =>
           IF envelopes[e].remaining > 0
           THEN Paid(envelopes[e], spent[e])
           ELSE Capped(envelopes[e], spent[e], Cardinality(Burning(e)))
  BY DEF Balanced
<1>2. /\ IsFiniteSet(Burning(e))
      /\ Cardinality(Burning(e)) \in Nat
      /\ N \in Nat \ {0}
  BY BurningFinite
<1>3. Burning(e)' \subseteq Burning(e) =>
        /\ IsFiniteSet(Burning(e)')
        /\ Cardinality(Burning(e)') \in Nat
        /\ Cardinality(Burning(e)') <= Cardinality(Burning(e))
  BY <1>2, FS_Subset, FS_CardinalityType
<1>4. /\ spent[e] \in Nat
      /\ envelopes[e] # None => /\ envelopes[e].budget \in Nat
                                /\ envelopes[e].remaining \in 0 .. envelopes[e].budget
  BY BudgetOK DEF TypeOK, Envelope
<1>5. CASE envelopes'[e] = envelopes[e] /\ spent'[e] = spent[e]
  <2>1. CASE Burning(e)' \subseteq Burning(e)
    BY <1>1, <1>2, <1>3, <1>4, <1>5, <2>1
  <2>2. CASE Live(e)
    BY <1>1, <1>5, <2>2 DEF Live
  <2> QED  BY <2>1, <2>2, BurningGrows
<1>6. ASSUME NEW f \in Envelopes, NEW b \in 1 .. MaxBudget, NEW x \in BOOLEAN,
             Grant(f, b, x), ~(envelopes'[e] = envelopes[e] /\ spent'[e] = spent[e])
      PROVE  /\ envelopes'[e] # None
             /\ envelopes'[e].remaining > 0
             /\ Paid(envelopes'[e], spent'[e])
  <2>1. /\ envelopes[e] = None
        /\ envelopes'[e] = [budget |-> b, remaining |-> b]
        /\ spent'[e] = 0
    BY <1>1, <1>6 DEF Grant, TypeOK
  <2>2. [budget |-> b, remaining |-> b] \in Envelope /\ b > 0 /\ b - b = 0
    BY BudgetOK DEF Envelope
  <2> QED  BY <2>1, <2>2
<1>7. ASSUME NEW h \in Handlers, BurnCommit(h),
             ~(envelopes'[e] = envelopes[e] /\ spent'[e] = spent[e])
      PROVE  /\ envelopes'[e] # None
             /\ IF envelopes'[e].remaining > 0
                THEN Paid(envelopes'[e], spent'[e])
                ELSE Capped(envelopes'[e], spent'[e], Cardinality(Burning(e)'))
  <2>1. /\ job[h].envelope = e
        /\ h \in Burning(e)
        /\ envelopes[e] # None
        /\ envelopes'[e] = Burnt(envelopes[e])
        /\ spent'[e] = spent[e] + 1
    BY <1>7, JobFields DEF BurnCommit, TypeOK, JobsHold, Burning
  <2>2. /\ envelopes[e] \in Envelope
        /\ Burnt(envelopes[e]) \in Envelope
        /\ Burnt(envelopes[e]).budget = envelopes[e].budget
        /\ envelopes[e].remaining > 0 =>
             Burnt(envelopes[e]).remaining = envelopes[e].remaining - 1
        /\ ~(envelopes[e].remaining > 0) =>
             Burnt(envelopes[e]).remaining = envelopes[e].remaining
    BY <1>4, <2>1, BurntType DEF TypeOK
  <2>3. Burning(e)' = Burning(e) \ {h}
    BY <1>7, <2>1 DEF BurnCommit, Become, Burning, Idle, TypeOK
  <2>4. /\ Cardinality(Burning(e)') = Cardinality(Burning(e)) - 1
        /\ Cardinality(Burning(e)') <= N - 1
        /\ Cardinality(Burning(e)') \in Nat
    <3>1. Cardinality(Burning(e)') = Cardinality(Burning(e)) - 1
      BY <1>2, <2>1, <2>3, FS_RemoveElement
    <3>2. Cardinality(Burning(e)) <= N
      BY HandlersOK, FS_Subset DEF Burning
    <3> QED  BY <1>2, <1>3, <2>3, <3>1, <3>2
  <2>5. CASE envelopes[e].remaining > 0
    BY <1>1, <1>2, <1>4, <2>1, <2>2, <2>4, <2>5
  <2>6. CASE ~(envelopes[e].remaining > 0)
    BY <1>1, <1>2, <1>4, <2>1, <2>2, <2>4, <2>6
  <2> QED  BY <2>1, <2>2, <2>5, <2>6
<1>8. CASE UNCHANGED <<envelopes, spent>>
  BY <1>5, <1>8
<1> QED
  BY <1>5, <1>6, <1>7, <1>8, Steps
  DEF Create, ReviewLoad, ExpireCommit, DecideCommit, LogEvent, JobFails, Sweep,
      BurnLoad, Lapse, vars

\* The strengthened invariant holds of every behaviour.
THEOREM Inductive == Spec => []IInv
<1>1. IInv /\ [Next]_vars => IInv'
  BY TypeStep, HoldStep, AccountStep, BalanceStep DEF IInv
<1> QED  BY InitInv, <1>1, PTL DEF Spec

\* No envelope is overdrawn and every row, event and job is of its type,
\* whatever reviews overlap (models/audit.py, models/policy.py).
THEOREM TypeCorrect == Spec => []TypeOK
<1>1. IInv => TypeOK
  BY DEF IInv
<1> QED  BY <1>1, Inductive, PTL

\* The audit trail explains every decided request (approval_service._log_audit).
THEOREM Accounted == Spec => []Accountable
<1>1. IInv => Accountable
  BY DEF IInv
<1> QED  BY <1>1, Inductive, PTL

\* A resolved request that no overlapping review still holds never changes
\* again (approval_service.approve and deny).
THEOREM Settles == Spec => SettledForGood
<1>1. IInv /\ [Next]_vars =>
        [\A r \in Requests : Settled(r) => rows'[r] = rows[r] /\ Settled(r)']_vars
  BY SettledStep
<1> QED  BY <1>1, Inductive, PTL DEF Spec, SettledForGood

\* With n requests at work an envelope authorises at most n - 1 batches beyond
\* its budget; with one, none (approval_fatigue_service.burn_envelope_budget).
THEOREM OverspendBounded == Spec => []BoundedOverspend
<1>1. ASSUME IInv
      PROVE  BoundedOverspend
  <2> SUFFICES ASSUME NEW e \in Envelopes, envelopes[e] # None
               PROVE  spent[e] <= envelopes[e].budget + Cardinality(Handlers) - 1
    BY DEF BoundedOverspend
  <2>1. /\ spent[e] \in Nat
        /\ envelopes[e].budget \in Nat
        /\ envelopes[e].remaining \in 0 .. envelopes[e].budget
    BY <1>1, NullIsNone, BudgetOK DEF IInv, TypeOK, Envelope
  <2>2. IF envelopes[e].remaining > 0
        THEN spent[e] = envelopes[e].budget - envelopes[e].remaining
        ELSE spent[e] + Cardinality(Burning(e))
               <= envelopes[e].budget + Cardinality(Handlers) - 1
    BY <1>1 DEF IInv, Balanced
  <2> QED  BY <2>1, <2>2, BurningFinite
<1> QED  BY <1>1, Inductive, PTL
=============================================================================
