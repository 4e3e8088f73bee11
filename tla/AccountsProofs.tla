--------------------------- MODULE AccountsProofs ---------------------------
(***************************************************************************)
(* Proofs about AdminAccounts, for any number of administrators, requests, *)
(* passwords and tokens and every limit.                                   *)
(*                                                                         *)
(* Nothing locks an account row, so most of the properties are about an    *)
(* account on which requests never overlapped (it is not in `raced`).  The *)
(* request at work on such an account is alone, and the row it loaded is   *)
(* the row it will write, up to the time a lock has left: that is Alone.   *)
(* What holds for every account, and the types, is the rest of AccountsInv.*)
(***************************************************************************)
EXTENDS AdminAccounts, FiniteSetTheorems, SequenceTheorems, TLAPS

AtWork(r) == req[r] # None
Editing(r) == AtWork(r) /\ req[r].op \in Edits

\* The argument of an edit has the type the column it goes to asks for; a recovery code is
\* one the account had when it was loaded.
ArgFits(job) ==
    /\ job.op = "password" => job.arg \in Passwords
    /\ job.op = "update" => job.arg \in Roles
    /\ job.op = "mfa_setup" => job.arg \in 1..MaxSetups
    /\ job.op = "verify_setup" => job.arg \in Nat
    /\ job.op = "mfa_recover" => job.arg \in Codes /\ job.seen.codes # None /\ job.arg \in job.seen.codes

\* An edit is of an account that exists; the bootstrap creates Root.
JobsFit ==
    \A r \in Requests :
        /\ Editing(r) => row[req[r].on] # None /\ ArgFits(req[r])
        /\ AtWork(r) /\ req[r].op = "bootstrap" => req[r].on = Root

\* The completions that have read a token and not deleted it yet.
Deleting(t) == {r \in Requests : AtWork(r) /\ req[r].op = "delete" /\ req[r].token = t}

\* A consumed token is gone, and whoever can still consume it has read it before.
TokensBounded ==
    \A t \in ResetTokens :
        /\ spent[t] > 0 => store[t] = None
        /\ spent[t] + Cardinality(Deleting(t)) <= Cardinality(Requests)

\* What a request that is alone on its account knows of the row.
Knows(job, acc) ==
    /\ job.seen.failed = acc.failed
    /\ job.seen.codes = acc.codes
    /\ job.seen.locked = None <=> acc.locked = None
    /\ job.op = "login" => job.seen.locked \in {None, 0} /\ acc.locked = job.seen.locked
    /\ job.op = "mfa_setup" => /\ job.arg <= setups[job.on]
                               /\ \A c \in CodesOf(job.arg) : accepted[job.on][c] = 0

\* An account on which requests never overlapped.
OneRequestAt(a) == \A r, s \in Requests : AtWork(r) /\ AtWork(s) /\ req[r].on = a /\ req[s].on = a => r = s
Fresh(a) == row[a] = None => wrong[a] = 0 /\ \A c \in Codes : accepted[a][c] = 0
Counted(a) ==
    row[a] # None => /\ row[a].failed = wrong[a]
                     /\ row[a].locked # None <=> row[a].failed >= MaxLoginAttempts
Enrolled(a) ==
    /\ \A c \in Codes : accepted[a][c] > 0 => c <= 2 * setups[a]
    /\ row[a] # None /\ row[a].codes # None => \A c \in row[a].codes : c <= 2 * setups[a]
UsedOnce(a) ==
    \A c \in Codes : accepted[a][c] > 0 =>
        accepted[a][c] = 1 /\ (row[a] # None /\ row[a].codes # None => c \notin row[a].codes)
KnowsAt(a) == \A r \in Requests : Editing(r) /\ req[r].on = a => Knows(req[r], row[a])
Alone(a) == OneRequestAt(a) /\ Fresh(a) /\ Counted(a) /\ Enrolled(a) /\ UsedOnce(a) /\ KnowsAt(a)

AccountsInv ==
    /\ AccountsTypeOK
    /\ JobsFit
    /\ TokensBounded
    /\ BootstrapOnce
    /\ \A a \in Admins \ raced : Alone(a)
------------------------------------------------------------------------------
(***************************************************************************)
(* What a handler makes of a row, and what of it is written.               *)
(***************************************************************************)
EditJobs == [op: Edits, on: Admins, seen: Account, arg: Passwords \cup Roles \cup Nat \cup {None}]

\* A request whose operation is an edit holds the row it has seen and an argument.
LEMMA EditJobType ==
    ASSUME NEW job \in Job, job.op \in Edits PROVE job \in EditJobs
BY DEF Job, Edits, EditJobs

\* The list a password change keeps is one of passwords.
LEMMA LastOfType ==
    ASSUME NEW s \in Seq(Passwords), NEW n \in Nat PROVE LastOf(s, n) \in Seq(Passwords)
<1>1. CASE Len(s) <= n BY <1>1 DEF LastOf
<1>2. CASE ~(Len(s) <= n)
  <2>1. Len(s) - n + 1 \in 1..Len(s)+1 /\ Len(s) \in Nat BY <1>2
  <2>2. \A i \in (Len(s) - n + 1)..Len(s) : s[i] \in Passwords BY <2>1, ElementOfSeq
  <2>3. SubSeq(s, Len(s) - n + 1, Len(s)) \in Seq(Passwords) BY <2>1, <2>2, SubSeqProperties
  <2> QED BY <1>2, <2>3 DEF LastOf
<1> QED BY <1>1, <1>2

\* Every edit makes an account of an account.
LEMMA EditedType ==
    ASSUME NEW job \in EditJobs, ArgFits(job) PROVE Edited(job) \in Account
<1> DEFINE acc == job.seen
<1>0. acc \in Account /\ job.op \in Edits BY DEF EditJobs
<1>1. CASE job.op = "login"
  <2>1. LoginPassed(acc) \in Account BY <1>0 DEF LoginPassed, Account
  <2>2. acc.failed + 1 \in Nat BY <1>0 DEF Account
  <2>3. (IF acc.failed + 1 >= MaxLoginAttempts THEN LockoutTicks ELSE acc.locked)
           \in (0..LockoutTicks) \cup {None}
    BY <1>0, AccountsAssumption DEF Account
  <2> HIDE DEF acc
  <2>4. LoginFailed(acc) \in Account BY <1>0, <2>2, <2>3 DEF LoginFailed, Account
  <2>5. Edited(job) = IF job.arg = acc.password THEN LoginPassed(acc) ELSE LoginFailed(acc)
    BY <1>1 DEF Edited, acc
  <2> QED BY <2>1, <2>4, <2>5
<1>2. CASE job.op = "mfa_setup"
  <2>1. CodesOf(job.arg) \in SUBSET Nat BY <1>2, AccountsAssumption DEF ArgFits, CodesOf
  <2> QED BY <1>0, <1>2, <2>1 DEF Edited, Account
<1>3. CASE job.op = "verify_setup" BY <1>0, <1>3 DEF Edited, Account, ArgFits
<1>4. CASE job.op = "mfa_recover"
  <2>1. acc.codes \ {job.arg} \in SUBSET Nat BY <1>0, <1>4 DEF ArgFits, Account
  <2> QED BY <1>0, <1>4, <2>1 DEF Edited, Account
<1>5. CASE job.op = "password"
  <2>1. Loaded(acc.history) \in Seq(Passwords) BY <1>0 DEF Loaded, Account
  <2>2. acc.password \in Passwords BY <1>0 DEF Account
  <2>3. Append(Loaded(acc.history), acc.password) \in Seq(Passwords) BY <2>1, <2>2
  <2>4. LastOf(Append(Loaded(acc.history), acc.password), HistoryKept) \in Seq(Passwords)
    BY <2>3, LastOfType, AccountsAssumption
  <2> HIDE DEF acc
  <2>5. Changed(acc, job.arg) \in Account BY <1>0, <1>5, <2>4 DEF Changed, Account, ArgFits
  <2> QED BY <1>5, <2>5 DEF Edited, acc
<1>6. CASE job.op = "update" BY <1>0, <1>6 DEF Edited, Account, ArgFits
<1>7. CASE job.op = "deactivate" BY <1>0, <1>7 DEF Edited, Account
<1>8. CASE job.op = "unlock" BY <1>0, <1>8 DEF Edited, Account
<1>9. CASE job.op = "reset_mfa" BY <1>0, <1>9 DEF Edited, Account
<1> QED BY <1>0, <1>1, <1>2, <1>3, <1>4, <1>5, <1>6, <1>7, <1>8, <1>9 DEF Edits

\* Column by column, what of an edit is written.
LEMMA WrittenFields ==
    ASSUME NEW now \in Account, NEW before \in Account, NEW after \in Account
    PROVE  /\ Written(now, before, after) \in Account
           /\ Written(now, before, after).status =
                 IF after.status # before.status THEN after.status ELSE now.status
           /\ Written(now, before, after).failed =
                 IF after.failed # before.failed THEN after.failed ELSE now.failed
           /\ Written(now, before, after).locked =
                 IF after.locked # before.locked THEN after.locked ELSE now.locked
           /\ Written(now, before, after).codes =
                 IF after.codes # before.codes THEN after.codes ELSE now.codes
<1> DEFINE W == Written(now, before, after)
<1>1. DOMAIN now = {"role", "status", "password", "history", "failed", "locked", "secret", "mfa", "codes"}
  BY DEF Account
<1>2. W = [f \in DOMAIN now |-> IF after[f] # before[f] THEN after[f] ELSE now[f]] BY DEF Written
<1>3. W = [role |-> W.role, status |-> W.status, password |-> W.password, history |-> W.history,
           failed |-> W.failed, locked |-> W.locked, secret |-> W.secret, mfa |-> W.mfa,
           codes |-> W.codes]
  BY <1>1, <1>2
<1>4. \A f \in DOMAIN now : W[f] = IF after[f] # before[f] THEN after[f] ELSE now[f] BY <1>2
<1>5. /\ W.role \in Roles /\ W.status \in {"active", "inactive"} /\ W.password \in Passwords
      /\ W.history \in Seq(Passwords) \cup {None} /\ W.failed \in Nat
      /\ W.locked \in (0..LockoutTicks) \cup {None}
      /\ W.secret \in Nat \cup {None} /\ W.mfa \in BOOLEAN /\ W.codes \in (SUBSET Nat) \cup {None}
  BY <1>1, <1>4 DEF Account
<1> HIDE DEF W
<1>6. W \in Account BY <1>3, <1>5 DEF Account
<1> QED BY <1>1, <1>4, <1>6 DEF W

\* The row the unit of work compares with, for a password change.
LEMMA AppendedInPlaceType ==
    ASSUME NEW acc \in Account
    PROVE  /\ AppendedInPlace(acc) \in Account
           /\ AppendedInPlace(acc).status = acc.status /\ AppendedInPlace(acc).failed = acc.failed
           /\ AppendedInPlace(acc).locked = acc.locked /\ AppendedInPlace(acc).codes = acc.codes
<1>1. acc.password \in Passwords /\ acc.history \in Seq(Passwords) \cup {None} BY DEF Account
<1>2. (IF acc.history = None THEN None ELSE Append(acc.history, acc.password))
         \in Seq(Passwords) \cup {None}
  BY <1>1
<1> QED BY <1>2 DEF AppendedInPlace, Account

\* Which columns each edit leaves as it found them, and what it puts in the others.
LEMMA EditedFields ==
    ASSUME NEW job \in EditJobs
    PROVE  /\ job.op \notin {"login", "unlock"} =>
                  Edited(job).locked = job.seen.locked /\ Edited(job).failed = job.seen.failed
           /\ job.op \in {"login", "unlock"} =>
                  /\ Edited(job).codes = job.seen.codes
                  /\ Edited(job).failed =
                        IF job.op = "login" /\ job.arg # job.seen.password THEN job.seen.failed + 1 ELSE 0
                  /\ Edited(job).locked =
                        IF job.op = "login" /\ job.arg # job.seen.password
                        THEN IF job.seen.failed + 1 >= MaxLoginAttempts THEN LockoutTicks ELSE job.seen.locked
                        ELSE None
           /\ job.op \notin {"unlock", "deactivate"} => Edited(job).status = job.seen.status
           /\ job.op = "deactivate" => Edited(job).status = "inactive"
           /\ job.op \notin {"mfa_setup", "mfa_recover", "reset_mfa"} => Edited(job).codes = job.seen.codes
           /\ job.op = "mfa_setup" => Edited(job).codes = CodesOf(job.arg)
           /\ job.op = "mfa_recover" => Edited(job).codes = job.seen.codes \ {job.arg}
           /\ job.op = "reset_mfa" => Edited(job).codes = None
<1> DEFINE acc == job.seen
<1>0. acc \in Account /\ job.op \in Edits BY DEF EditJobs
<1>1. CASE job.op = "login"
  <2>1. Edited(job) = IF job.arg = acc.password THEN LoginPassed(acc) ELSE LoginFailed(acc)
    BY <1>1 DEF Edited
  <2>2. LoginPassed(acc) = [acc EXCEPT !.failed = 0, !.locked = None] BY DEF LoginPassed
  <2>3. LoginFailed(acc) = [acc EXCEPT !.failed = acc.failed + 1,
                !.locked = IF acc.failed + 1 >= MaxLoginAttempts THEN LockoutTicks ELSE acc.locked]
    BY DEF LoginFailed
  <2>4. CASE job.arg = acc.password BY <1>0, <1>1, <2>1, <2>2, <2>4 DEF Account
  <2>5. CASE job.arg # acc.password BY <1>0, <1>1, <2>1, <2>3, <2>5 DEF Account
  <2> QED BY <2>4, <2>5
<1>2. CASE job.op = "mfa_setup" BY <1>0, <1>2 DEF Edited, Account
<1>3. CASE job.op = "verify_setup" BY <1>0, <1>3 DEF Edited, Account
<1>4. CASE job.op = "mfa_recover" BY <1>0, <1>4 DEF Edited, Account
<1>5. CASE job.op = "password" BY <1>0, <1>5 DEF Edited, Changed, Account
<1>6. CASE job.op = "update" BY <1>0, <1>6 DEF Edited, Account
<1>7. CASE job.op = "deactivate" BY <1>0, <1>7 DEF Edited, Account
<1>8. CASE job.op = "unlock" BY <1>0, <1>8 DEF Edited, Account
<1>9. CASE job.op = "reset_mfa" BY <1>0, <1>9 DEF Edited, Account
<1> QED BY <1>0, <1>1, <1>2, <1>3, <1>4, <1>5, <1>6, <1>7, <1>8, <1>9 DEF Edits
------------------------------------------------------------------------------
(***************************************************************************)
(* What the parts that actions share do to the invariant.                  *)
(***************************************************************************)
\* The codes of an enrolment are numbered with it.
LEMMA CodesNumbered ==
    /\ Codes \subseteq Nat \ {0}
    /\ \A n \in 1..MaxSetups : /\ CodesOf(n) \subseteq Codes
                               /\ \A c \in CodesOf(n) : c > 2 * (n - 1) /\ c <= 2 * n
<1>1. ASSUME NEW n \in 1..MaxSetups
      PROVE  /\ CodesOf(n) \subseteq Codes /\ CodesOf(n) \subseteq Nat \ {0}
             /\ \A c \in CodesOf(n) : c > 2 * (n - 1) /\ c <= 2 * n
  <2>1. CodesOf(n) \subseteq Codes BY DEF Codes
  <2>2. n \in Nat /\ n >= 1 BY AccountsAssumption
  <2> QED BY <2>1, <2>2 DEF CodesOf
<1>2. Codes \subseteq Nat \ {0}
  <2> SUFFICES ASSUME NEW c \in Codes PROVE c \in Nat \ {0} OBVIOUS
  <2>1. PICK n \in 1..MaxSetups : c \in CodesOf(n) BY DEF Codes
  <2> QED BY <1>1, <2>1
<1> QED BY <1>1, <1>2

\* A job at work is one of the three kinds.
LEMMA JobAtWork ==
    ASSUME AccountsTypeOK, JobsFit, NEW r \in Requests, AtWork(r)
    PROVE  /\ req[r] \in Job /\ req[r].on \in Admins
           /\ req[r].op \in Edits => /\ req[r] \in EditJobs /\ ArgFits(req[r])
                                     /\ row[req[r].on] \in Account
<1>1. req[r] \in Job BY DEF AccountsTypeOK, AtWork
<1>2. req[r].on \in Admins BY <1>1 DEF Job
<1>3. ASSUME req[r].op \in Edits
      PROVE req[r] \in EditJobs /\ ArgFits(req[r]) /\ row[req[r].on] \in Account
  BY <1>1, <1>2, <1>3, EditJobType DEF AccountsTypeOK, JobsFit, Editing
<1> QED BY <1>1, <1>2, <1>3

\* A request that starts takes a free place; an account it does not race on had none.
LEMMA StartsEffect ==
    ASSUME AccountsTypeOK, NEW r \in Requests, NEW job \in Job, Starts(r, job)
    PROVE  /\ req[r] = None /\ req'[r] = job
           /\ \A s \in Requests \ {r} : req'[s] = req[s]
           /\ req' \in [Requests -> Job \cup {None}]
           /\ started' \in Nat /\ raced' \subseteq Admins /\ raced \subseteq raced'
           /\ job.on \in Admins
           /\ job.on \notin raced' => \A s \in Requests : ~(AtWork(s) /\ req[s].on = job.on)
<1>1. job.on \in Admins BY DEF Job
<1>2. job.on \notin raced' => \A s \in Requests : ~(AtWork(s) /\ req[s].on = job.on)
  BY DEF Starts, AtWorkOn, AtWork
<1> QED BY <1>1, <1>2 DEF Starts, AccountsTypeOK

\* What is known of an account stays true as long as neither its row nor its history changes
\* and no request comes to it or changes what it writes.
LEMMA AloneKept ==
    ASSUME NEW b \in Admins, Alone(b), row[b] \in Account \cup {None}, row'[b] = row[b], wrong'[b] = wrong[b],
           accepted'[b] = accepted[b], setups[b] \in Nat, setups'[b] \in Nat, setups'[b] >= setups[b],
           \A s \in Requests : AtWork(s)' /\ req'[s].on = b =>
              AtWork(s) /\ req[s].on = b /\ (req'[s].op \in Edits => req'[s] = req[s]),
           \A s \in Requests : Editing(s) /\ req[s].on = b => ArgFits(req[s])
    PROVE  Alone(b)'
<1>1. OneRequestAt(b)' BY DEF Alone, OneRequestAt
<1>2. Fresh(b)' BY DEF Alone, Fresh
<1>3. Counted(b)' BY DEF Alone, Counted
<1>4. Enrolled(b)'
  <2>1. \A c \in Codes : accepted'[b][c] > 0 => c <= 2 * setups[b] BY DEF Alone, Enrolled
  <2>2. row'[b] # None /\ row'[b].codes # None => \A c \in row[b].codes : c <= 2 * setups[b]
    BY DEF Alone, Enrolled
  <2>3. 2 * setups[b] <= 2 * setups'[b] /\ 2 * setups[b] \in Nat /\ 2 * setups'[b] \in Nat OBVIOUS
  <2>4. \A c \in Codes : c \in Nat BY CodesNumbered
  <2>5. row[b] # None /\ row[b].codes # None => \A c \in row[b].codes : c \in Nat BY DEF Account
  <2>6. \A c \in Nat : c <= 2 * setups[b] => c <= 2 * setups'[b] BY <2>3
  <2> QED BY <2>1, <2>2, <2>4, <2>5, <2>6 DEF Enrolled
<1>5. UsedOnce(b)' BY DEF Alone, UsedOnce
<1>6. KnowsAt(b)'
  <2> SUFFICES ASSUME NEW s \in Requests, Editing(s)', req'[s].on = b
               PROVE  Knows(req[s], row[b])'
    BY DEF KnowsAt
  <2>1. AtWork(s)' /\ req'[s].op \in Edits BY DEF Editing
  <2>2. AtWork(s) /\ req[s].on = b /\ req'[s] = req[s] BY <2>1
  <2>3. Knows(req[s], row[b]) BY <2>1, <2>2 DEF Alone, KnowsAt, Editing
  <2>4. req[s].op = "mfa_setup" => req[s].arg \in 1..MaxSetups
    BY <2>1, <2>2 DEF ArgFits, Editing
  <2>5. req[s].op = "mfa_setup" => req[s].arg <= setups'[b] BY <2>2, <2>3, <2>4 DEF Knows
  <2> QED BY <2>2, <2>3, <2>5 DEF Knows
<1> QED BY <1>1, <1>2, <1>3, <1>4, <1>5, <1>6 DEF Alone

\* Requests of the other kinds do not change who can consume a token.
LEMMA DeletingFinite ==
    ASSUME NEW t \in ResetTokens
    PROVE  Deleting(t) \subseteq Requests /\ IsFiniteSet(Deleting(t)) /\ Cardinality(Deleting(t)) \in Nat
           /\ Cardinality(Requests) \in Nat /\ Cardinality(Deleting(t)) <= Cardinality(Requests)
<1>1. Deleting(t) \subseteq Requests BY DEF Deleting
<1> QED BY <1>1, AccountsAssumption, FS_Subset, FS_CardinalityType

LEMMA TokensKept ==
    ASSUME AccountsTypeOK, TokensBounded, spent' = spent,
           \A t \in ResetTokens : spent[t] > 0 => store'[t] = None,
           \A t \in ResetTokens : Deleting(t)' \subseteq Deleting(t) \/ spent[t] = 0
    PROVE  TokensBounded'
<1> SUFFICES ASSUME NEW t \in ResetTokens
             PROVE  spent[t] + Cardinality(Deleting(t)') <= Cardinality(Requests)
  BY DEF TokensBounded
<1>0. spent[t] \in Nat BY DEF AccountsTypeOK
<1>1. IsFiniteSet(Deleting(t)) /\ Cardinality(Deleting(t)) \in Nat /\ Cardinality(Requests) \in Nat
  BY DeletingFinite
<1>2. Cardinality(Deleting(t)') \in Nat /\ Cardinality(Deleting(t)') <= Cardinality(Requests)
  <2>1. Deleting(t)' \subseteq Requests BY DEF Deleting
  <2> QED BY <2>1, AccountsAssumption, FS_Subset, FS_CardinalityType
<1>3. CASE spent[t] = 0 BY <1>1, <1>2, <1>3
<1>4. CASE Deleting(t)' \subseteq Deleting(t)
  <2>1. Cardinality(Deleting(t)') <= Cardinality(Deleting(t)) BY <1>1, <1>4, FS_Subset
  <2> QED BY <1>0, <1>1, <1>2, <2>1 DEF TokensBounded
<1> QED BY <1>3, <1>4
------------------------------------------------------------------------------
(***************************************************************************)
(* Initially, and when a request starts.                                   *)
(***************************************************************************)
LEMMA AccountsInitInv == AccountsInit => AccountsInv
<1> SUFFICES ASSUME AccountsInit PROVE AccountsInv OBVIOUS
<1>1. AccountsTypeOK
  <2>1. setups \in [Admins -> 0..MaxSetups] BY AccountsAssumption DEF AccountsInit
  <2>2. accepted \in [Admins -> [Codes -> Nat]] BY DEF AccountsInit
  <2>3. past \in [Admins -> Seq(Passwords)] BY DEF AccountsInit
  <2> QED BY <2>1, <2>2, <2>3 DEF AccountsInit, AccountsTypeOK
<1>2. \A r \in Requests : ~AtWork(r) BY DEF AccountsInit, AtWork
<1>3. JobsFit BY <1>2 DEF JobsFit, Editing
<1>4. TokensBounded
  <2> SUFFICES ASSUME NEW t \in ResetTokens PROVE spent[t] = 0 /\ Cardinality(Deleting(t)) <= Cardinality(Requests)
    BY DeletingFinite DEF TokensBounded
  <2> QED BY DeletingFinite DEF AccountsInit
<1>5. BootstrapOnce BY DEF AccountsInit, BootstrapOnce
<1>6. ASSUME NEW a \in Admins PROVE Alone(a)
  <2>1. row[a] = None /\ wrong[a] = 0 /\ \A c \in Codes : accepted[a][c] = 0 BY DEF AccountsInit
  <2> QED BY <1>2, <2>1 DEF Alone, OneRequestAt, Fresh, Counted, Enrolled, UsedOnce, KnowsAt, Editing
<1> QED BY <1>1, <1>3, <1>4, <1>5, <1>6 DEF AccountsInv

\* A request that starts knows the row it loaded, and knows it for itself unless another
\* one is at work on the account.
LEMMA StartKeepsInv ==
    ASSUME AccountsInv, NEW r \in Requests, NEW job \in Job, Starts(r, job),
           UNCHANGED <<row, store, wrong, accepted, spent, past, boots>>,
           setups' \in [Admins -> 0..MaxSetups], \A b \in Admins : setups'[b] >= setups[b],
           job.op \in Edits => /\ row[job.on] # None /\ job.seen = row[job.on] /\ ArgFits(job)
                               /\ job.op = "login" => job.seen.locked \in {None, 0}
                               /\ job.op = "mfa_setup" => /\ setups'[job.on] = job.arg
                                                          /\ setups[job.on] = job.arg - 1,
           job.op = "bootstrap" => job.on = Root,
           job.op = "delete" => store[job.token] # None
    PROVE  AccountsInv'
<1>0. AccountsTypeOK /\ JobsFit /\ TokensBounded /\ BootstrapOnce /\ \A a \in Admins \ raced : Alone(a)
  BY DEF AccountsInv
<1>s. /\ req[r] = None /\ req'[r] = job
      /\ \A s \in Requests \ {r} : req'[s] = req[s]
      /\ req' \in [Requests -> Job \cup {None}]
      /\ started' \in Nat /\ raced' \subseteq Admins /\ raced \subseteq raced'
      /\ job.on \in Admins
      /\ job.on \notin raced' => \A s \in Requests : ~(AtWork(s) /\ req[s].on = job.on)
  BY <1>0, StartsEffect
<1>1. AccountsTypeOK' BY <1>0, <1>s DEF AccountsTypeOK
<1>2. JobsFit'
  <2> SUFFICES ASSUME NEW s \in Requests
               PROVE /\ Editing(s)' => row'[req'[s].on] # None /\ ArgFits(req'[s])
                     /\ AtWork(s)' /\ req'[s].op = "bootstrap" => req'[s].on = Root
    BY DEF JobsFit, ArgFits
  <2>1. CASE s = r BY <1>s, <2>1 DEF Editing, AtWork
  <2>2. CASE s # r BY <1>0, <1>s, <2>2 DEF JobsFit, Editing, AtWork
  <2> QED BY <2>1, <2>2
<1>3. TokensBounded'
  <2>1. ASSUME NEW t \in ResetTokens PROVE Deleting(t)' \subseteq Deleting(t) \/ spent[t] = 0
    <3>1. spent[t] \in Nat /\ (spent[t] > 0 => store[t] = None) BY <1>0 DEF AccountsTypeOK, TokensBounded
    <3>2. CASE job.op = "delete" /\ job.token = t BY <3>1, <3>2
    <3>3. CASE ~(job.op = "delete" /\ job.token = t)
      <4>1. \A s \in Requests : s \in Deleting(t)' => s \in Deleting(t) BY <1>s, <3>3 DEF Deleting, AtWork
      <4> QED BY <4>1 DEF Deleting
    <3> QED BY <3>2, <3>3
  <2>2. \A t \in ResetTokens : spent[t] > 0 => store'[t] = None BY <1>0 DEF TokensBounded
  <2> QED BY <1>0, <2>1, <2>2, TokensKept
<1>4. BootstrapOnce' BY <1>0 DEF BootstrapOnce
<1>5. ASSUME NEW a \in Admins \ raced' PROVE Alone(a)'
  <2>0. Alone(a) /\ row[a] \in Account \cup {None} /\ setups[a] \in Nat /\ setups'[a] \in Nat
        /\ setups'[a] >= setups[a]
    BY <1>0, <1>s, <1>5 DEF AccountsTypeOK
  <2>1. \A s \in Requests : Editing(s) /\ req[s].on = a => ArgFits(req[s]) BY <1>0 DEF JobsFit
  <2>2. CASE job.on # a
    <3>1. \A s \in Requests : AtWork(s)' /\ req'[s].on = a =>
             AtWork(s) /\ req[s].on = a /\ (req'[s].op \in Edits => req'[s] = req[s])
      BY <1>s, <2>2 DEF AtWork
    <3> QED BY <2>0, <2>1, <3>1, AloneKept
  <2>3. CASE job.on = a
    <3>1. \A s \in Requests : AtWork(s)' /\ req'[s].on = a => s = r BY <1>s, <1>5, <2>3 DEF AtWork
    <3>2. OneRequestAt(a)' BY <3>1 DEF OneRequestAt
    <3>3. Fresh(a)' /\ Counted(a)' /\ UsedOnce(a)'
      BY <2>0 DEF Alone, Fresh, Counted, UsedOnce
    <3>4. Enrolled(a)'
      <4>1. \A c \in Codes : accepted[a][c] > 0 => c <= 2 * setups[a] BY <2>0 DEF Alone, Enrolled
      <4>2. row[a] # None /\ row[a].codes # None => \A c \in row[a].codes : c \in Nat /\ c <= 2 * setups[a]
        BY <2>0 DEF Alone, Enrolled, Account
      <4>3. \A c \in Codes : c \in Nat BY CodesNumbered
      <4>4. \A c \in Nat : c <= 2 * setups[a] => c <= 2 * setups'[a] BY <2>0
      <4> QED BY <4>1, <4>2, <4>3, <4>4 DEF Enrolled
    <3>5. KnowsAt(a)'
      <4> SUFFICES ASSUME Editing(r)' PROVE Knows(req[r], row[a])' BY <3>1 DEF KnowsAt, Editing
      <4>1. job.op \in Edits BY <1>s DEF Editing
      <4>2. job.op = "mfa_setup" => job.arg <= setups'[a] /\ \A c \in CodesOf(job.arg) : accepted[a][c] = 0
        <5> SUFFICES ASSUME job.op = "mfa_setup", NEW c \in CodesOf(job.arg)
                     PROVE  job.arg <= setups'[a] /\ accepted[a][c] = 0
          BY <2>0, <2>3, <4>1
        <5>1. job.arg \in 1..MaxSetups /\ setups[a] = job.arg - 1 /\ setups'[a] = job.arg
          BY <2>3, <4>1 DEF ArgFits
        <5>2. c \in Codes /\ c \in Nat /\ c > 2 * setups[a] BY <5>1, CodesNumbered
        <5>3. accepted[a][c] \in Nat BY <1>0, <5>2 DEF AccountsTypeOK
        <5> QED BY <2>0, <5>1, <5>2, <5>3 DEF Alone, Enrolled
      <4> QED BY <1>s, <2>3, <4>1, <4>2 DEF Knows
    <3> QED BY <3>2, <3>3, <3>4, <3>5 DEF Alone
  <2> QED BY <2>2, <2>3
<1> QED BY <1>1, <1>2, <1>3, <1>4, <1>5 DEF AccountsInv

\* The handlers that load an account to edit it.
LEMMA LoadKeepsInv ==
    ASSUME AccountsInv, NEW r \in Requests, NEW a \in Admins, NEW op \in Edits,
           NEW arg \in Passwords \cup Roles \cup Nat \cup {None}, Loads(r, op, a, arg),
           setups' \in [Admins -> 0..MaxSetups], \A b \in Admins : setups'[b] >= setups[b],
           op = "password" => arg \in Passwords,
           op = "update" => arg \in Roles,
           op = "verify_setup" => arg \in Nat,
           op = "mfa_recover" => arg \in Codes /\ row[a].codes # None /\ arg \in row[a].codes,
           op = "login" => row[a].locked \in {None, 0},
           op = "mfa_setup" => arg \in 1..MaxSetups /\ setups'[a] = arg /\ setups[a] = arg - 1
    PROVE  AccountsInv'
<1>1. PICK job : job = [op |-> op, on |-> a, seen |-> row[a], arg |-> arg] OBVIOUS
<1>2. Starts(r, job) /\ row[a] # None /\ UNCHANGED <<row, store, wrong, accepted, spent, past, boots>>
  BY <1>1 DEF Loads
<1>3. row[a] \in Account BY <1>2 DEF AccountsInv, AccountsTypeOK
<1>4. job \in Job /\ job.op = op /\ job.on = a /\ job.seen = row[a] /\ job.arg = arg
  BY <1>1, <1>3 DEF Job
<1>5. ArgFits(job) BY <1>4 DEF ArgFits
<1>6. op # "bootstrap" /\ op # "delete" BY DEF Edits
<1> QED BY <1>2, <1>3, <1>4, <1>5, <1>6, StartKeepsInv

LEMMA LoadsKeepInv ==
    ASSUME AccountsInv, NEW r \in Requests, NEW a \in Admins,
           \/ \E p \in Passwords \cup {None} : LoginLoad(r, a, p)
           \/ MfaSetupLoad(r, a)
           \/ \E secret \in 1..MaxSetups : MfaVerifySetupLoad(r, a, secret)
           \/ \E c \in Codes : MfaRecoverLoad(r, a, c)
           \/ \E old, new \in Passwords : PasswordLoad(r, a, old, new)
           \/ \E role \in Roles : UpdateLoad(r, a, role)
           \/ DeactivateLoad(r, a)
           \/ UnlockLoad(r, a)
           \/ ResetMfaLoad(r, a)
           \/ \E p \in Passwords, role \in Roles : InviteLoad(r, a, p, role)
    PROVE  AccountsInv'
<1>0. setups \in [Admins -> 0..MaxSetups] /\ MaxSetups \in Nat /\ \A b \in Admins : setups[b] >= setups[b]
  BY AccountsAssumption DEF AccountsInv, AccountsTypeOK
<1>1. ASSUME NEW p \in Passwords \cup {None}, LoginLoad(r, a, p) PROVE AccountsInv'
  <2>1. row[a].locked \in {None, 0} /\ Loads(r, "login", a, p) /\ setups' = setups
    BY <1>1 DEF LoginLoad, InForce, Loads
  <2>2. "login" \in Edits /\ p \in Passwords \cup Roles \cup Nat \cup {None} BY DEF Edits
  <2> QED BY <1>0, <2>1, <2>2, LoadKeepsInv
<1>2. CASE MfaSetupLoad(r, a)
  <2>1. PICK n : n = setups[a] + 1 OBVIOUS
  <2>2. n \in 1..MaxSetups /\ n \in Nat /\ setups[a] = n - 1 BY <1>0, <1>2, <2>1 DEF MfaSetupLoad
  <2>3. /\ setups' = [setups EXCEPT ![a] = n]
        /\ setups'[a] = n
    BY <1>0, <1>2, <2>1 DEF MfaSetupLoad
  <2>4. Loads(r, "mfa_setup", a, n) BY <1>2, <2>3 DEF MfaSetupLoad
  <2>5. setups' \in [Admins -> 0..MaxSetups] /\ \A b \in Admins : setups'[b] >= setups[b]
    BY <1>0, <2>2, <2>3
  <2>6. "mfa_setup" \in Edits BY DEF Edits
  <2> QED BY <2>2, <2>3, <2>4, <2>5, <2>6, LoadKeepsInv
<1>3. ASSUME NEW secret \in 1..MaxSetups, MfaVerifySetupLoad(r, a, secret) PROVE AccountsInv'
  <2>1. Loads(r, "verify_setup", a, secret) /\ setups' = setups BY <1>3 DEF MfaVerifySetupLoad
  <2>2. "verify_setup" \in Edits /\ secret \in Nat BY <1>0 DEF Edits
  <2> QED BY <1>0, <2>1, <2>2, LoadKeepsInv
<1>4. ASSUME NEW c \in Codes, MfaRecoverLoad(r, a, c) PROVE AccountsInv'
  <2>1. Loads(r, "mfa_recover", a, c) /\ setups' = setups /\ row[a].codes # None /\ c \in row[a].codes
    BY <1>4 DEF MfaRecoverLoad, Loads
  <2>2. "mfa_recover" \in Edits /\ c \in Nat BY CodesNumbered DEF Edits
  <2> QED BY <1>0, <2>1, <2>2, LoadKeepsInv
<1>5. ASSUME NEW old \in Passwords, NEW new \in Passwords, PasswordLoad(r, a, old, new) PROVE AccountsInv'
  <2>1. Loads(r, "password", a, new) /\ setups' = setups BY <1>5 DEF PasswordLoad
  <2>2. "password" \in Edits BY DEF Edits
  <2> QED BY <1>0, <2>1, <2>2, LoadKeepsInv
<1>6. ASSUME NEW role \in Roles, UpdateLoad(r, a, role) PROVE AccountsInv'
  <2>1. Loads(r, "update", a, role) /\ setups' = setups BY <1>6 DEF UpdateLoad
  <2>2. "update" \in Edits BY DEF Edits
  <2> QED BY <1>0, <2>1, <2>2, LoadKeepsInv
<1>7. CASE DeactivateLoad(r, a)
  <2>1. Loads(r, "deactivate", a, None) /\ setups' = setups BY <1>7 DEF DeactivateLoad
  <2>2. "deactivate" \in Edits BY DEF Edits
  <2> QED BY <1>0, <2>1, <2>2, LoadKeepsInv
<1>8. CASE UnlockLoad(r, a)
  <2>1. Loads(r, "unlock", a, None) /\ setups' = setups BY <1>8 DEF UnlockLoad
  <2>2. "unlock" \in Edits BY DEF Edits
  <2> QED BY <1>0, <2>1, <2>2, LoadKeepsInv
<1>9. CASE ResetMfaLoad(r, a)
  <2>1. Loads(r, "reset_mfa", a, None) /\ setups' = setups BY <1>9 DEF ResetMfaLoad
  <2>2. "reset_mfa" \in Edits BY DEF Edits
  <2> QED BY <1>0, <2>1, <2>2, LoadKeepsInv
<1>10. ASSUME NEW p \in Passwords, NEW role \in Roles, InviteLoad(r, a, p, role) PROVE AccountsInv'
  <2>1. PICK job : job = [op |-> "invite", on |-> a, arg |-> p, role |-> role] OBVIOUS
  <2>2. job \in Job /\ job.op = "invite" /\ job.on = a BY <2>1 DEF Job
  <2>3. Starts(r, job) /\ UNCHANGED <<row, store, setups, wrong, accepted, spent, past, boots>>
    BY <1>10, <2>1 DEF InviteLoad
  <2>4. "invite" \notin Edits BY DEF Edits
  <2> QED BY <1>0, <2>2, <2>3, <2>4, StartKeepsInv
<1> QED BY <1>1, <1>2, <1>3, <1>4, <1>5, <1>6, <1>7, <1>8, <1>9, <1>10

LEMMA BootstrapKeepsInv ==
    ASSUME AccountsInv, NEW r \in Requests, NEW p \in Passwords, BootstrapLoad(r, p)
    PROVE  AccountsInv'
<1>0. setups \in [Admins -> 0..MaxSetups] /\ MaxSetups \in Nat /\ \A b \in Admins : setups[b] >= setups[b]
  BY AccountsAssumption DEF AccountsInv, AccountsTypeOK
<1>1. PICK job : job = [op |-> "bootstrap", on |-> Root, arg |-> p, role |-> Admin] OBVIOUS
<1>2. job \in Job /\ job.op = "bootstrap" /\ job.on = Root BY <1>1, AccountsAssumption DEF Job
<1>3. Starts(r, job) /\ UNCHANGED <<row, store, setups, wrong, accepted, spent, past, boots>>
  BY <1>1 DEF BootstrapLoad
<1>4. "bootstrap" \notin Edits BY DEF Edits
<1> QED BY <1>0, <1>2, <1>3, <1>4, StartKeepsInv

LEMMA ResetGetKeepsInv ==
    ASSUME AccountsInv, NEW r \in Requests, NEW t \in ResetTokens, NEW p \in Passwords, ResetGet(r, t, p)
    PROVE  AccountsInv'
<1>0. setups \in [Admins -> 0..MaxSetups] /\ MaxSetups \in Nat /\ \A b \in Admins : setups[b] >= setups[b]
  BY AccountsAssumption DEF AccountsInv, AccountsTypeOK
<1>1. PICK job : job = [op |-> "delete", on |-> store[t].on, arg |-> p, token |-> t] OBVIOUS
<1>2. store[t] # None /\ store[t].on \in Admins BY DEF ResetGet, AccountsInv, AccountsTypeOK
<1>3. job \in Job /\ job.op = "delete" /\ job.token = t BY <1>1, <1>2 DEF Job
<1>4. Starts(r, job) /\ UNCHANGED <<row, store, setups, wrong, accepted, spent, past, boots>>
  BY <1>1 DEF ResetGet
<1>5. "delete" \notin Edits BY DEF Edits
<1> QED BY <1>0, <1>2, <1>3, <1>4, <1>5, StartKeepsInv
------------------------------------------------------------------------------
(***************************************************************************)
(* When a request ends, or goes a step on.                                 *)
(***************************************************************************)
\* A request that ends without writing anything.
LEMMA DropKeepsInv ==
    ASSUME AccountsInv, NEW r \in Requests, req' = [req EXCEPT ![r] = None],
           UNCHANGED <<row, store, setups, wrong, accepted, spent, past, boots, started, raced>>
    PROVE  AccountsInv'
<1>0. AccountsTypeOK /\ JobsFit /\ TokensBounded /\ BootstrapOnce /\ \A a \in Admins \ raced : Alone(a)
  BY DEF AccountsInv
<1>1. /\ AccountsTypeOK' /\ BootstrapOnce'
      /\ \A s \in Requests : AtWork(s)' => s # r /\ AtWork(s) /\ req'[s] = req[s]
  BY <1>0 DEF AccountsTypeOK, BootstrapOnce, AtWork
<1>2. JobsFit' BY <1>0, <1>1 DEF JobsFit, Editing, ArgFits
<1>3. TokensBounded'
  <2>1. \A t \in ResetTokens : Deleting(t)' \subseteq Deleting(t) BY <1>1 DEF Deleting
  <2>2. \A t \in ResetTokens : spent[t] > 0 => store'[t] = None BY <1>0 DEF TokensBounded
  <2> QED BY <1>0, <2>1, <2>2, TokensKept
<1>4. ASSUME NEW a \in Admins \ raced PROVE Alone(a)'
  <2>1. Alone(a) /\ row[a] \in Account \cup {None} /\ setups[a] \in Nat BY <1>0 DEF AccountsTypeOK
  <2>2. \A s \in Requests : Editing(s) /\ req[s].on = a => ArgFits(req[s]) BY <1>0 DEF JobsFit
  <2>3. \A s \in Requests : AtWork(s)' /\ req'[s].on = a =>
             AtWork(s) /\ req[s].on = a /\ (req'[s].op \in Edits => req'[s] = req[s])
    BY <1>1
  <2> QED BY <2>1, <2>2, <2>3, AloneKept
<1> QED BY <1>1, <1>2, <1>3, <1>4 DEF AccountsInv

LEMMA AbandonKeepsInv ==
    ASSUME AccountsInv, NEW r \in Requests, Abandon(r) PROVE AccountsInv'
BY DropKeepsInv DEF Abandon, Finish

LEMMA NewAccountType ==
    ASSUME NEW role \in Roles, NEW p \in Passwords
    PROVE  /\ NewAccount(role, p) \in Account /\ NewAccount(role, p).failed = 0
           /\ NewAccount(role, p).locked = None /\ NewAccount(role, p).codes = None
<1>1. "active" \in {"active", "inactive"} /\ 0 \in Nat /\ FALSE \in BOOLEAN OBVIOUS
<1>2. /\ None \in Seq(Passwords) \cup {None} /\ None \in (0..LockoutTicks) \cup {None}
      /\ None \in Nat \cup {None} /\ None \in (SUBSET Nat) \cup {None}
  OBVIOUS
<1>3. NewAccount(role, p) \in Account BY <1>1, <1>2, Zenon DEF NewAccount, Account
<1> QED BY <1>3 DEF NewAccount

\* A new account has had no wrong password and no enrolment.
LEMMA InsertKeepsInv ==
    ASSUME AccountsInv, NEW r \in Requests, InsertCommit(r) PROVE AccountsInv'
<1> DEFINE a == req[r].on
           new == NewAccount(req[r].role, req[r].arg)
<1>0. AccountsTypeOK /\ JobsFit /\ TokensBounded /\ BootstrapOnce /\ \A b \in Admins \ raced : Alone(b)
  BY DEF AccountsInv
<1>1. CASE row[a] # None
  <2>1. row' = row /\ boots' = boots BY <1>1 DEF InsertCommit, Inserts
  <2> QED BY <2>1, DropKeepsInv DEF InsertCommit, Finish
<1>2. CASE row[a] = None
  <2>1. /\ req[r] \in [op: {"bootstrap", "invite"}, on: Admins, arg: Passwords, role: Roles]
        /\ a \in Admins /\ (req[r].op = "bootstrap" => a = Root)
    BY <1>0 DEF InsertCommit, AccountsTypeOK, Job, JobsFit, AtWork, Edits
  <2>2. new \in Account /\ new # None /\ new.failed = 0 /\ new.locked = None /\ new.codes = None
    <3>1. req[r].role \in Roles /\ req[r].arg \in Passwords BY <2>1
    <3> QED BY <3>1, NewAccountType, NoneAssumption
  <2>3. /\ row' = [row EXCEPT ![a] = new]
        /\ boots' = IF req[r].op = "bootstrap" THEN boots + 1 ELSE boots
        /\ req' = [req EXCEPT ![r] = None]
        /\ UNCHANGED <<store, setups, wrong, accepted, spent, past, started, raced>>
    BY <1>2 DEF InsertCommit, Inserts, Finish
  <2> HIDE DEF new
  <2>4. \A s \in Requests : AtWork(s)' => s # r /\ AtWork(s) /\ req'[s] = req[s]
    BY <1>0, <2>3 DEF AccountsTypeOK, AtWork
  <2>5. \A b \in Admins : row'[b] = IF b = a THEN new ELSE row[b]
    BY <1>0, <2>1, <2>3 DEF AccountsTypeOK
  <2>6. AccountsTypeOK' BY <1>0, <2>1, <2>2, <2>3 DEF AccountsTypeOK
  <2>7. JobsFit'
    <3> SUFFICES ASSUME NEW s \in Requests, AtWork(s)'
                 PROVE  /\ Editing(s)' => row'[req'[s].on] # None /\ ArgFits(req'[s])
                        /\ req'[s].op = "bootstrap" => req'[s].on = Root
      BY DEF JobsFit, Editing, ArgFits
    <3>1. AtWork(s) /\ req'[s] = req[s] /\ req[s].on \in Admins BY <1>0, <2>4, JobAtWork
    <3> QED BY <1>0, <2>2, <2>5, <3>1 DEF JobsFit, Editing
  <2>8. TokensBounded'
    <3>1. \A t \in ResetTokens : Deleting(t)' \subseteq Deleting(t) BY <2>4 DEF Deleting
    <3>2. \A t \in ResetTokens : spent[t] > 0 => store'[t] = None BY <1>0, <2>3 DEF TokensBounded
    <3> QED BY <1>0, <2>3, <3>1, <3>2, TokensKept
  <2>9. BootstrapOnce'
    <3>1. Root \in Admins /\ boots \in Nat BY <1>0, AccountsAssumption DEF AccountsTypeOK
    <3>2. CASE req[r].op = "bootstrap"
      <4>1. boots = 0 /\ boots' = 1 BY <1>0, <1>2, <2>1, <2>3, <3>1, <3>2 DEF BootstrapOnce
      <4>2. row'[Root] # None BY <2>1, <2>2, <2>5, <3>1, <3>2
      <4> QED BY <4>1, <4>2 DEF BootstrapOnce
    <3>3. CASE req[r].op # "bootstrap"
      <4>1. boots' = boots BY <2>3, <3>3
      <4>2. row[Root] # None => row'[Root] # None BY <2>2, <2>5, <3>1
      <4> QED BY <1>0, <4>1, <4>2 DEF BootstrapOnce
    <3> QED BY <3>2, <3>3
  <2>10. ASSUME NEW b \in Admins \ raced PROVE Alone(b)'
    <3>0. Alone(b) /\ row[b] \in Account \cup {None} /\ setups[b] \in Nat BY <1>0 DEF AccountsTypeOK
    <3>1. \A s \in Requests : Editing(s) /\ req[s].on = b => ArgFits(req[s]) BY <1>0 DEF JobsFit
    <3>2. \A s \in Requests : AtWork(s)' /\ req'[s].on = b =>
               AtWork(s) /\ req[s].on = b /\ (req'[s].op \in Edits => req'[s] = req[s])
      BY <2>4
    <3>3. CASE b # a
      <4>1. row'[b] = row[b] BY <2>5, <3>3
      <4> QED BY <2>3, <3>0, <3>1, <3>2, <4>1, AloneKept
    <3>4. CASE b = a
      <4>1. row'[b] = new /\ row[b] = None BY <1>2, <2>5, <3>4
      <4>2. wrong[b] = 0 /\ \A c \in Codes : accepted[b][c] = 0 BY <3>0, <4>1 DEF Alone, Fresh
      <4>3. OneRequestAt(b)' BY <2>4, <3>0 DEF Alone, OneRequestAt
      <4>4. Fresh(b)' BY <2>3, <4>2 DEF Fresh
      <4>5. Counted(b)' BY <2>2, <2>3, <4>1, <4>2, AccountsAssumption DEF Counted
      <4>6. Enrolled(b)' /\ UsedOnce(b)' BY <2>2, <2>3, <4>1, <4>2 DEF Enrolled, UsedOnce
      <4>7. KnowsAt(b)'
        <5>1. \A s \in Requests : ~(Editing(s) /\ req[s].on = b)
          BY <1>0, <4>1 DEF JobsFit
        <5>2. \A s \in Requests : ~(Editing(s)' /\ req'[s].on = b) BY <2>4, <5>1 DEF Editing
        <5> QED BY <5>2 DEF KnowsAt
      <4> QED BY <4>3, <4>4, <4>5, <4>6, <4>7 DEF Alone
    <3> QED BY <3>3, <3>4
  <2> QED BY <2>3, <2>6, <2>7, <2>8, <2>9, <2>10 DEF AccountsInv
<1> QED BY <1>1, <1>2

\* A completion that has deleted its token has consumed it, and nobody can read it again.
LEMMA ResetDeleteKeepsInv ==
    ASSUME AccountsInv, NEW r \in Requests, NEW ok \in BOOLEAN, ResetDelete(r, ok) PROVE AccountsInv'
<1> DEFINE t == req[r].token
           n == [req[r] EXCEPT !.op = "load"]
<1>0. AccountsTypeOK /\ JobsFit /\ TokensBounded /\ BootstrapOnce /\ \A b \in Admins \ raced : Alone(b)
  BY DEF AccountsInv
<1>1. CASE ~ok
  BY <1>1, DropKeepsInv DEF ResetDelete
<1>2. CASE ok
  <2>1. /\ req[r] \in [op: {"delete", "load"}, on: Admins, arg: Passwords, token: ResetTokens]
        /\ AtWork(r) /\ req[r].op = "delete" /\ t \in ResetTokens
    BY <1>0 DEF ResetDelete, AccountsTypeOK, Job, AtWork, Edits
  <2>2. n \in Job /\ n.op = "load" /\ n.on = req[r].on BY <2>1 DEF Job
  <2>3. /\ store' = [store EXCEPT ![t] = None]
        /\ spent' = [spent EXCEPT ![t] = @ + 1]
        /\ req' = [req EXCEPT ![r] = n]
        /\ UNCHANGED <<row, setups, wrong, accepted, past, boots, raced, started>>
    BY <1>2 DEF ResetDelete
  <2> HIDE DEF n
  <2>4. /\ req'[r] = n /\ \A s \in Requests : s # r => req'[s] = req[s]
        /\ "load" \notin Edits
    BY <1>0, <2>3 DEF AccountsTypeOK, Edits
  <2>5. AccountsTypeOK' BY <1>0, <2>1, <2>2, <2>3 DEF AccountsTypeOK
  <2>6. \A s \in Requests : AtWork(s)' =>
           /\ AtWork(s) /\ req'[s].on = req[s].on
           /\ req'[s].op \in Edits \cup {"bootstrap", "delete"} => req'[s] = req[s] /\ s # r
    BY <2>1, <2>2, <2>4 DEF AtWork
  <2>7. JobsFit'
    <3> SUFFICES ASSUME NEW s \in Requests, AtWork(s)'
                 PROVE  /\ Editing(s)' => row'[req'[s].on] # None /\ ArgFits(req'[s])
                        /\ req'[s].op = "bootstrap" => req'[s].on = Root
      BY DEF JobsFit, Editing, ArgFits
    <3> QED BY <1>0, <2>3, <2>6 DEF JobsFit, Editing
  <2>8. TokensBounded'
    <3> SUFFICES ASSUME NEW u \in ResetTokens
                 PROVE  /\ spent'[u] > 0 => store'[u] = None
                        /\ spent'[u] + Cardinality(Deleting(u)') <= Cardinality(Requests)
      BY DEF TokensBounded
    <3>0. /\ spent[u] \in Nat /\ (spent[u] > 0 => store[u] = None)
          /\ spent[u] + Cardinality(Deleting(u)) <= Cardinality(Requests)
          /\ IsFiniteSet(Deleting(u)) /\ Cardinality(Deleting(u)) \in Nat /\ Cardinality(Requests) \in Nat
      BY <1>0, DeletingFinite DEF AccountsTypeOK, TokensBounded
    <3>1. Deleting(u)' = Deleting(u) \ {r}
      BY <2>2, <2>4 DEF Deleting, AtWork
    <3>2. CASE u = t
      <4>1. spent'[u] = spent[u] + 1 /\ store'[u] = None BY <1>0, <2>3, <3>2 DEF AccountsTypeOK
      <4>2. r \in Deleting(u) BY <2>1, <3>2 DEF Deleting
      <4>3. Cardinality(Deleting(u)') = Cardinality(Deleting(u)) - 1 BY <3>0, <3>1, <4>2, FS_RemoveElement
      <4> QED BY <3>0, <4>1, <4>3
    <3>3. CASE u # t
      <4>1. spent'[u] = spent[u] /\ store'[u] = store[u] BY <1>0, <2>3, <3>3 DEF AccountsTypeOK
      <4>2. r \notin Deleting(u) BY <3>3 DEF Deleting
      <4>3. Deleting(u)' = Deleting(u) BY <3>1, <4>2
      <4> QED BY <3>0, <4>1, <4>3
    <3> QED BY <3>2, <3>3
  <2>9. BootstrapOnce' BY <1>0, <2>3 DEF BootstrapOnce
  <2>10. ASSUME NEW b \in Admins \ raced PROVE Alone(b)'
    <3>0. Alone(b) /\ row[b] \in Account \cup {None} /\ setups[b] \in Nat BY <1>0 DEF AccountsTypeOK
    <3>1. \A s \in Requests : Editing(s) /\ req[s].on = b => ArgFits(req[s]) BY <1>0 DEF JobsFit
    <3>2. \A s \in Requests : AtWork(s)' /\ req'[s].on = b =>
               AtWork(s) /\ req[s].on = b /\ (req'[s].op \in Edits => req'[s] = req[s])
      BY <2>6
    <3> QED BY <2>3, <3>0, <3>1, <3>2, AloneKept
  <2> QED BY <2>3, <2>5, <2>7, <2>8, <2>9, <2>10 DEF AccountsInv
<1> QED BY <1>1, <1>2

\* The completion loads the account after its token is gone, and knows it as it is then.
LEMMA ResetLoadKeepsInv ==
    ASSUME AccountsInv, NEW r \in Requests, ResetLoad(r) PROVE AccountsInv'
<1> DEFINE a == req[r].on
           n == [op |-> "password", on |-> a, seen |-> row[a], arg |-> req[r].arg]
<1>0. AccountsTypeOK /\ JobsFit /\ TokensBounded /\ BootstrapOnce /\ \A b \in Admins \ raced : Alone(b)
  BY DEF AccountsInv
<1>1. /\ req[r] \in [op: {"delete", "load"}, on: Admins, arg: Passwords, token: ResetTokens]
      /\ AtWork(r) /\ req[r].op = "load" /\ a \in Admins /\ req[r].arg \in Passwords
  BY <1>0 DEF ResetLoad, AccountsTypeOK, Job, AtWork, Edits
<1>2. /\ UNCHANGED <<row, store, setups, wrong, accepted, spent, past, boots, raced, started>>
      /\ \/ req' = [req EXCEPT ![r] = None]
         \/ row[a] # None /\ req' = [req EXCEPT ![r] = n]
  BY DEF ResetLoad
<1>3. CASE req' = [req EXCEPT ![r] = None] BY <1>2, <1>3, DropKeepsInv
<1>4. CASE row[a] # None /\ req' = [req EXCEPT ![r] = n]
  <2>1. row[a] \in Account BY <1>0, <1>1, <1>4 DEF AccountsTypeOK
  <2>2. n.op = "password" /\ n.on = a /\ n.seen = row[a] /\ n.arg \in Passwords BY <1>1
  <2>3. n \in Job /\ ArgFits(n) BY <1>1, <2>1 DEF Job, Edits, ArgFits
  <2> HIDE DEF n
  <2>4. req'[r] = n /\ \A s \in Requests : s # r => req'[s] = req[s]
    BY <1>0, <1>4 DEF AccountsTypeOK
  <2>5. AccountsTypeOK' BY <1>0, <1>2, <1>4, <2>3 DEF AccountsTypeOK
  <2>6. JobsFit'
    <3> SUFFICES ASSUME NEW s \in Requests, AtWork(s)'
                 PROVE  /\ Editing(s)' => row'[req'[s].on] # None /\ ArgFits(req'[s])
                        /\ req'[s].op = "bootstrap" => req'[s].on = Root
      BY DEF JobsFit, Editing, ArgFits
    <3>1. CASE s = r BY <1>2, <1>4, <2>2, <2>3, <2>4, <3>1
    <3>2. CASE s # r BY <1>0, <1>2, <2>4, <3>2 DEF JobsFit, Editing, AtWork
    <3> QED BY <3>1, <3>2
  <2>7. TokensBounded'
    <3>1. \A t \in ResetTokens : Deleting(t)' \subseteq Deleting(t) BY <2>2, <2>4 DEF Deleting, AtWork
    <3>2. \A t \in ResetTokens : spent[t] > 0 => store'[t] = None BY <1>0, <1>2 DEF TokensBounded
    <3> QED BY <1>0, <1>2, <3>1, <3>2, TokensKept
  <2>8. BootstrapOnce' BY <1>0, <1>2 DEF BootstrapOnce
  <2>9. ASSUME NEW b \in Admins \ raced PROVE Alone(b)'
    <3>0. Alone(b) /\ row[b] \in Account \cup {None} /\ setups[b] \in Nat BY <1>0 DEF AccountsTypeOK
    <3>1. \A s \in Requests : Editing(s) /\ req[s].on = b => ArgFits(req[s]) BY <1>0 DEF JobsFit
    <3>2. CASE b # a
      <4>1. \A s \in Requests : AtWork(s)' /\ req'[s].on = b =>
               AtWork(s) /\ req[s].on = b /\ (req'[s].op \in Edits => req'[s] = req[s])
        BY <2>2, <2>4, <3>2 DEF AtWork
      <4> QED BY <1>2, <3>0, <3>1, <4>1, AloneKept
    <3>3. CASE b = a
      <4>1. \A s \in Requests : AtWork(s)' /\ req'[s].on = b => s = r
        BY <1>1, <2>4, <3>0, <3>3 DEF Alone, OneRequestAt, AtWork
      <4>2. OneRequestAt(b)' BY <4>1 DEF OneRequestAt
      <4>3. Fresh(b)' /\ Counted(b)' /\ Enrolled(b)' /\ UsedOnce(b)'
        BY <1>2, <3>0 DEF Alone, Fresh, Counted, Enrolled, UsedOnce
      <4>4. KnowsAt(b)'
        <5>1. Knows(req[r], row[b])' BY <1>2, <2>2, <2>4, <3>3 DEF Knows
        <5> QED BY <4>1, <5>1 DEF KnowsAt, Editing
      <4> QED BY <4>2, <4>3, <4>4 DEF Alone
    <3> QED BY <3>2, <3>3
  <2> QED BY <1>2, <2>5, <2>6, <2>7, <2>8, <2>9 DEF AccountsInv
<1> QED BY <1>2, <1>3, <1>4

\* A token sent out is one that was never consumed.
LEMMA ResetRequestKeepsInv ==
    ASSUME AccountsInv, NEW a \in Admins, NEW t \in ResetTokens, ResetRequest(a, t) PROVE AccountsInv'
<1>0. AccountsTypeOK /\ JobsFit /\ TokensBounded /\ BootstrapOnce /\ \A b \in Admins \ raced : Alone(b)
  BY DEF AccountsInv
<1>1. /\ spent[t] = 0 /\ store' = [store EXCEPT ![t] = [on |-> a, ttl |-> TokenTicks]]
      /\ UNCHANGED <<row, req, setups, wrong, accepted, spent, past, boots, raced, started>>
  BY DEF ResetRequest
<1>2. AccountsTypeOK'
  <2>1. [on |-> a, ttl |-> TokenTicks] \in [on: Admins, ttl: 1..TokenTicks] BY AccountsAssumption
  <2>2. store' \in [ResetTokens -> [on: Admins, ttl: 1..TokenTicks] \cup {None}]
    BY <1>0, <1>1, <2>1 DEF AccountsTypeOK
  <2> QED BY <1>0, <1>1, <2>2 DEF AccountsTypeOK
<1>3. JobsFit' BY <1>0, <1>1 DEF JobsFit, Editing, AtWork, ArgFits
<1>4. TokensBounded'
  <2>1. \A u \in ResetTokens : Deleting(u)' \subseteq Deleting(u) BY <1>1 DEF Deleting, AtWork
  <2>2. \A u \in ResetTokens : spent[u] > 0 => store'[u] = None
    BY <1>0, <1>1 DEF TokensBounded, AccountsTypeOK
  <2> QED BY <1>0, <1>1, <2>1, <2>2, TokensKept
<1>5. BootstrapOnce' BY <1>0, <1>1 DEF BootstrapOnce
<1>6. ASSUME NEW b \in Admins \ raced PROVE Alone(b)'
  <2>0. Alone(b) /\ row[b] \in Account \cup {None} /\ setups[b] \in Nat BY <1>0 DEF AccountsTypeOK
  <2>1. \A s \in Requests : Editing(s) /\ req[s].on = b => ArgFits(req[s]) BY <1>0 DEF JobsFit
  <2>2. \A s \in Requests : AtWork(s)' /\ req'[s].on = b =>
             AtWork(s) /\ req[s].on = b /\ (req'[s].op \in Edits => req'[s] = req[s])
    BY <1>1 DEF AtWork
  <2> QED BY <1>1, <2>0, <2>1, <2>2, AloneKept
<1> QED BY <1>1, <1>2, <1>3, <1>4, <1>5, <1>6 DEF AccountsInv
------------------------------------------------------------------------------
(***************************************************************************)
(* The commit of an edit.                                                  *)
(***************************************************************************)
BeforeOf(job) == IF job.op = "password" THEN AppendedInPlace(job.seen) ELSE job.seen
Refused(job) == job.op = "login" /\ job.arg # job.seen.password
RowAfter(job) == Written(row[job.on], BeforeOf(job), Edited(job))

\* What a commit does, written with the columns the properties are about.
LEMMA EditCommitEffect ==
    ASSUME AccountsTypeOK, JobsFit, NEW r \in Requests, EditCommit(r)
    PROVE  /\ AtWork(r) /\ req[r] \in EditJobs /\ ArgFits(req[r]) /\ req[r].on \in Admins
           /\ row[req[r].on] \in Account /\ RowAfter(req[r]) \in Account
           /\ row' = [row EXCEPT ![req[r].on] = RowAfter(req[r])]
           /\ req' = [req EXCEPT ![r] = None]
           /\ wrong' = [wrong EXCEPT ![req[r].on] = IF Refused(req[r]) THEN @ + 1
                                     ELSE IF req[r].op \in {"login", "unlock"} THEN 0 ELSE @]
           /\ accepted' = IF req[r].op = "mfa_recover"
                          THEN [accepted EXCEPT ![req[r].on][req[r].arg] = @ + 1] ELSE accepted
           /\ past' = IF req[r].op = "password"
                      THEN [past EXCEPT ![req[r].on] = Append(@, row[req[r].on].password)] ELSE past
           /\ UNCHANGED <<store, setups, spent, boots, started, raced>>
           /\ RowAfter(req[r]).status =
                 IF Edited(req[r]).status # req[r].seen.status THEN Edited(req[r]).status
                 ELSE row[req[r].on].status
           /\ RowAfter(req[r]).failed =
                 IF Edited(req[r]).failed # req[r].seen.failed THEN Edited(req[r]).failed
                 ELSE row[req[r].on].failed
           /\ RowAfter(req[r]).locked =
                 IF Edited(req[r]).locked # req[r].seen.locked THEN Edited(req[r]).locked
                 ELSE row[req[r].on].locked
           /\ RowAfter(req[r]).codes =
                 IF Edited(req[r]).codes # req[r].seen.codes THEN Edited(req[r]).codes
                 ELSE row[req[r].on].codes
<1>1. AtWork(r) /\ req[r].op \in Edits BY DEF EditCommit, AtWork
<1>2. req[r] \in EditJobs /\ ArgFits(req[r]) /\ req[r].on \in Admins /\ row[req[r].on] \in Account
  BY <1>1, JobAtWork
<1>3. req[r].seen \in Account BY <1>2 DEF EditJobs
<1>4. Edited(req[r]) \in Account BY <1>2, EditedType
<1>5. /\ BeforeOf(req[r]) \in Account
      /\ BeforeOf(req[r]).status = req[r].seen.status /\ BeforeOf(req[r]).failed = req[r].seen.failed
      /\ BeforeOf(req[r]).locked = req[r].seen.locked /\ BeforeOf(req[r]).codes = req[r].seen.codes
  BY <1>3, AppendedInPlaceType DEF BeforeOf
<1>6. /\ RowAfter(req[r]) \in Account
      /\ RowAfter(req[r]).status =
            IF Edited(req[r]).status # req[r].seen.status THEN Edited(req[r]).status ELSE row[req[r].on].status
      /\ RowAfter(req[r]).failed =
            IF Edited(req[r]).failed # req[r].seen.failed THEN Edited(req[r]).failed ELSE row[req[r].on].failed
      /\ RowAfter(req[r]).locked =
            IF Edited(req[r]).locked # req[r].seen.locked THEN Edited(req[r]).locked ELSE row[req[r].on].locked
      /\ RowAfter(req[r]).codes =
            IF Edited(req[r]).codes # req[r].seen.codes THEN Edited(req[r]).codes ELSE row[req[r].on].codes
  BY <1>2, <1>4, <1>5, WrittenFields DEF RowAfter
<1>7. /\ row' = [row EXCEPT ![req[r].on] = RowAfter(req[r])]
      /\ req' = [req EXCEPT ![r] = None]
      /\ UNCHANGED <<store, setups, spent, boots, started, raced>>
  BY DEF EditCommit, Finish, RowAfter, BeforeOf
<1>8. /\ wrong' = [wrong EXCEPT ![req[r].on] = IF Refused(req[r]) THEN @ + 1
                                   ELSE IF req[r].op \in {"login", "unlock"} THEN 0 ELSE @]
      /\ accepted' = IF req[r].op = "mfa_recover"
                     THEN [accepted EXCEPT ![req[r].on][req[r].arg] = @ + 1] ELSE accepted
      /\ past' = IF req[r].op = "password"
                 THEN [past EXCEPT ![req[r].on] = Append(@, row[req[r].on].password)] ELSE past
  BY DEF EditCommit, Refused
<1> QED BY <1>1, <1>2, <1>6, <1>7, <1>8

LEMMA EditCommitKeepsTypes ==
    ASSUME AccountsTypeOK, JobsFit, NEW r \in Requests, EditCommit(r)
    PROVE  AccountsTypeOK'
<1> DEFINE a == req[r].on
<1>1. /\ a \in Admins /\ ArgFits(req[r]) /\ row[a] \in Account /\ RowAfter(req[r]) \in Account
      /\ row' = [row EXCEPT ![a] = RowAfter(req[r])]
      /\ req' = [req EXCEPT ![r] = None]
      /\ wrong' = [wrong EXCEPT ![a] = IF Refused(req[r]) THEN @ + 1
                                     ELSE IF req[r].op \in {"login", "unlock"} THEN 0 ELSE @]
      /\ accepted' = IF req[r].op = "mfa_recover"
                     THEN [accepted EXCEPT ![a][req[r].arg] = @ + 1] ELSE accepted
      /\ past' = IF req[r].op = "password"
                 THEN [past EXCEPT ![a] = Append(@, row[a].password)] ELSE past
      /\ UNCHANGED <<store, setups, spent, boots, started, raced>>
  BY EditCommitEffect
<1>2. row' \in [Admins -> Account \cup {None}] /\ req' \in [Requests -> Job \cup {None}]
  BY <1>1 DEF AccountsTypeOK
<1>3. wrong' \in [Admins -> Nat] BY <1>1 DEF AccountsTypeOK
<1>4. accepted' \in [Admins -> [Codes -> Nat]]
  <2>1. accepted \in [Admins -> [Codes -> Nat]] BY DEF AccountsTypeOK
  <2>2. CASE req[r].op # "mfa_recover" BY <1>1, <2>1, <2>2
  <2>3. CASE req[r].op = "mfa_recover"
    <3>1. req[r].arg \in Codes BY <1>1, <2>3 DEF ArgFits
    <3>2. PICK c \in Codes : c = req[r].arg BY <3>1
    <3>3. [accepted[a] EXCEPT ![c] = @ + 1] \in [Codes -> Nat] BY <1>1, <2>1
    <3>4. accepted' = [accepted EXCEPT ![a] = [accepted[a] EXCEPT ![c] = @ + 1]] BY <1>1, <2>1, <2>3, <3>2
    <3> QED BY <1>1, <2>1, <3>3, <3>4
  <2> QED BY <2>2, <2>3
<1>5. past' \in [Admins -> Seq(Passwords)]
  <2>1. past \in [Admins -> Seq(Passwords)] /\ row[a].password \in Passwords
    BY <1>1 DEF AccountsTypeOK, Account
  <2>2. Append(past[a], row[a].password) \in Seq(Passwords) BY <1>1, <2>1
  <2> QED BY <1>1, <2>1, <2>2
<1> QED BY <1>1, <1>2, <1>3, <1>4, <1>5 DEF AccountsTypeOK

\* What a request that was alone commits is exact: the counter counts, the lock follows it,
\* and a recovery code goes from the row with its acceptance.
LEMMA EditCommitIsExact ==
    ASSUME AccountsTypeOK, JobsFit, NEW r \in Requests, EditCommit(r),
           NEW a \in Admins, a = req[r].on, Alone(a)
    PROVE  Alone(a)'
<1> DEFINE new == RowAfter(req[r])
           ed == Edited(req[r])
           seen == req[r].seen
<1>1. /\ AtWork(r) /\ req[r] \in EditJobs /\ a \in Admins /\ ArgFits(req[r])
      /\ row[a] \in Account /\ new \in Account
      /\ row' = [row EXCEPT ![a] = new]
      /\ req' = [req EXCEPT ![r] = None]
      /\ wrong' = [wrong EXCEPT ![a] = IF Refused(req[r]) THEN @ + 1
                                     ELSE IF req[r].op \in {"login", "unlock"} THEN 0 ELSE @]
      /\ accepted' = IF req[r].op = "mfa_recover"
                     THEN [accepted EXCEPT ![a][req[r].arg] = @ + 1] ELSE accepted
      /\ setups' = setups
      /\ new.failed = IF ed.failed # seen.failed THEN ed.failed ELSE row[a].failed
      /\ new.locked = IF ed.locked # seen.locked THEN ed.locked ELSE row[a].locked
      /\ new.codes = IF ed.codes # seen.codes THEN ed.codes ELSE row[a].codes
  BY EditCommitEffect
<1>t. /\ req[r].op \in Edits /\ seen \in Account
      /\ accepted \in [Admins -> [Codes -> Nat]] /\ setups[a] \in Nat /\ setups \in [Admins -> 0..MaxSetups]
      /\ row \in [Admins -> Account \cup {None}] /\ wrong \in [Admins -> Nat]
      /\ req \in [Requests -> Job \cup {None}]
      /\ MaxLoginAttempts \in Nat \ {0} /\ LockoutTicks \in Nat \ {0} /\ None \notin Nat
      /\ row[a] # None
  <2>1. req[r].op \in Edits /\ seen \in Account BY <1>1 DEF EditJobs
  <2>2. row[a] # None BY <1>1, NoneAssumption
  <2>3. setups[a] \in 0..MaxSetups /\ MaxSetups \in Nat BY AccountsAssumption DEF AccountsTypeOK
  <2> QED BY <2>1, <2>2, <2>3, AccountsAssumption DEF AccountsTypeOK
<1>k. Knows(req[r], row[a]) /\ OneRequestAt(a) /\ Counted(a) /\ Enrolled(a) /\ UsedOnce(a)
  BY <1>1, <1>t DEF Alone, KnowsAt, Editing
<1>f. /\ req[r].op \notin {"login", "unlock"} => ed.locked = seen.locked /\ ed.failed = seen.failed
      /\ req[r].op \in {"login", "unlock"} =>
             /\ ed.codes = seen.codes
             /\ ed.failed = IF Refused(req[r]) THEN seen.failed + 1 ELSE 0
             /\ ed.locked = IF Refused(req[r])
                            THEN IF seen.failed + 1 >= MaxLoginAttempts THEN LockoutTicks ELSE seen.locked
                            ELSE None
      /\ req[r].op \notin {"mfa_setup", "mfa_recover", "reset_mfa"} => ed.codes = seen.codes
      /\ req[r].op = "mfa_setup" => ed.codes = CodesOf(req[r].arg)
      /\ req[r].op = "mfa_recover" => ed.codes = seen.codes \ {req[r].arg}
      /\ req[r].op = "reset_mfa" => ed.codes = None
  BY <1>1, EditedFields DEF Refused
<1> HIDE DEF new, ed, seen
<1>2. /\ new.failed = ed.failed /\ new.codes = ed.codes /\ (new.locked = None <=> ed.locked = None)
      /\ row[a].failed = seen.failed /\ row[a].codes = seen.codes
      /\ (row[a].locked = None <=> seen.locked = None)
  BY <1>1, <1>k DEF Knows, seen
<1>3. row'[a] = new /\ new # None /\ \A s \in Requests : ~(AtWork(s)' /\ req'[s].on = a)
  <2>1. row'[a] = new /\ new # None BY <1>1, <1>t, NoneAssumption
  <2>2. \A s \in Requests : AtWork(s)' => s # r /\ req'[s] = req[s] /\ AtWork(s) BY <1>1, <1>t DEF AtWork
  <2>3. \A s \in Requests : AtWork(s) /\ req[s].on = a => s = r BY <1>1, <1>k DEF OneRequestAt
  <2> QED BY <2>1, <2>2, <2>3
<1>4. OneRequestAt(a)' /\ Fresh(a)' /\ KnowsAt(a)'
  BY <1>3 DEF OneRequestAt, Fresh, KnowsAt, Editing
<1>5. Counted(a)'
  <2>0. row[a].failed = wrong[a] /\ (row[a].locked # None <=> row[a].failed >= MaxLoginAttempts)
        /\ row[a].failed \in Nat
    BY <1>1, <1>k, <1>t DEF Counted, Account
  <2>1. CASE Refused(req[r])
    <3>1. req[r].op \in {"login", "unlock"} BY <2>1 DEF Refused
    <3>2. wrong'[a] = wrong[a] + 1 BY <1>1, <1>t, <2>1
    <3>3. new.failed = row[a].failed + 1 BY <1>2, <1>f, <2>1, <3>1
    <3>4. CASE seen.failed + 1 >= MaxLoginAttempts
      BY <1>2, <1>3, <1>f, <1>t, <2>0, <2>1, <3>1, <3>2, <3>3, <3>4 DEF Counted
    <3>5. CASE ~(seen.failed + 1 >= MaxLoginAttempts)
      <4>1. ed.locked = seen.locked BY <1>f, <2>1, <3>1, <3>5
      <4>2. row[a].locked = None BY <1>2, <1>t, <2>0, <3>5
      <4> QED BY <1>2, <1>3, <1>t, <2>0, <3>2, <3>3, <3>5, <4>1, <4>2 DEF Counted
    <3> QED BY <3>4, <3>5
  <2>2. CASE ~Refused(req[r]) /\ req[r].op \in {"login", "unlock"}
    <3>1. wrong'[a] = 0 BY <1>1, <1>t, <2>2
    <3>2. new.failed = 0 /\ new.locked = None BY <1>2, <1>f, <2>2
    <3> QED BY <1>3, <1>t, <3>1, <3>2 DEF Counted
  <2>3. CASE req[r].op \notin {"login", "unlock"}
    <3>1. wrong'[a] = wrong[a] BY <1>1, <1>t, <2>3 DEF Refused
    <3>2. new.failed = row[a].failed /\ (new.locked = None <=> row[a].locked = None)
      BY <1>2, <1>f, <2>3
    <3> QED BY <1>3, <2>0, <3>1, <3>2 DEF Counted
  <2> QED BY <2>1, <2>2, <2>3
<1>6. Enrolled(a)' /\ UsedOnce(a)'
  <2>0. /\ \A c \in Codes : accepted[a][c] > 0 => c <= 2 * setups[a]
        /\ row[a].codes # None => \A c \in row[a].codes : c <= 2 * setups[a]
        /\ \A c \in Codes : accepted[a][c] > 0 =>
              accepted[a][c] = 1 /\ (row[a].codes # None => c \notin row[a].codes)
        /\ \A c \in Codes : accepted[a][c] \in Nat
        /\ setups'[a] = setups[a]
    BY <1>1, <1>k, <1>t DEF Enrolled, UsedOnce
  <2>1. CASE req[r].op = "mfa_recover"
    <3>1. PICK c \in Codes : c = req[r].arg BY <1>1, <2>1 DEF ArgFits
    <3>2. row[a].codes # None /\ c \in row[a].codes /\ new.codes = row[a].codes \ {c}
      BY <1>1, <1>2, <1>f, <2>1, <3>1 DEF ArgFits, seen
    <3>3. accepted[a][c] = 0 BY <2>0, <3>2
    <3>4. \A d \in Codes : accepted'[a][d] = IF d = c THEN accepted[a][d] + 1 ELSE accepted[a][d]
      BY <1>1, <1>t, <2>1, <3>1
    <3>5. Enrolled(a)' BY <1>3, <2>0, <3>2, <3>4 DEF Enrolled
    <3>6. UsedOnce(a)'
      <4> SUFFICES ASSUME NEW d \in Codes, accepted'[a][d] > 0
                   PROVE  accepted'[a][d] = 1 /\ (new.codes # None => d \notin new.codes)
        BY <1>3 DEF UsedOnce
      <4>1. CASE d = c BY <3>2, <3>3, <3>4, <4>1
      <4>2. CASE d # c BY <2>0, <3>2, <3>4, <4>2
      <4> QED BY <4>1, <4>2
    <3> QED BY <3>5, <3>6
  <2>2. CASE req[r].op # "mfa_recover"
    <3>0. accepted' = accepted BY <1>1, <2>2
    <3>1. CASE req[r].op = "mfa_setup"
      <4>1. PICK n \in 1..MaxSetups : n = req[r].arg BY <1>1, <3>1 DEF ArgFits
      <4>2. n \in Nat /\ n <= setups[a] /\ \A c \in CodesOf(n) : accepted[a][c] = 0
        BY <1>k, <1>1, <3>1, <4>1, AccountsAssumption DEF Knows
      <4>3. new.codes = CodesOf(n) BY <1>2, <1>f, <3>1, <4>1
      <4>4. \A c \in CodesOf(n) : c \in Nat /\ c <= 2 * setups[a]
        BY <1>t, <4>2 DEF CodesOf
      <4>5. Enrolled(a)' BY <1>3, <2>0, <3>0, <4>3, <4>4 DEF Enrolled
      <4>6. UsedOnce(a)' BY <1>3, <2>0, <3>0, <4>2, <4>3 DEF UsedOnce
      <4> QED BY <4>5, <4>6
    <3>2. CASE req[r].op = "reset_mfa"
      <4>1. new.codes = None BY <1>2, <1>f, <3>2
      <4> QED BY <1>3, <2>0, <3>0, <4>1 DEF Enrolled, UsedOnce
    <3>3. CASE req[r].op \notin {"mfa_setup", "reset_mfa"}
      <4>1. new.codes = row[a].codes BY <1>2, <1>f, <2>2, <3>3
      <4> QED BY <1>3, <2>0, <3>0, <4>1 DEF Enrolled, UsedOnce
    <3> QED BY <3>1, <3>2, <3>3
  <2> QED BY <2>1, <2>2
<1> QED BY <1>4, <1>5, <1>6 DEF Alone

LEMMA EditCommitKeepsInv ==
    ASSUME AccountsInv, NEW r \in Requests, EditCommit(r) PROVE AccountsInv'
<1> PICK a : a = req[r].on OBVIOUS
<1>0. AccountsTypeOK /\ JobsFit /\ TokensBounded /\ BootstrapOnce /\ \A b \in Admins \ raced : Alone(b)
  BY DEF AccountsInv
<1>1. /\ a \in Admins /\ RowAfter(req[r]) \in Account
      /\ row' = [row EXCEPT ![a] = RowAfter(req[r])]
      /\ req' = [req EXCEPT ![r] = None]
      /\ wrong' = [wrong EXCEPT ![a] = IF Refused(req[r]) THEN @ + 1
                                     ELSE IF req[r].op \in {"login", "unlock"} THEN 0 ELSE @]
      /\ accepted' = IF req[r].op = "mfa_recover"
                     THEN [accepted EXCEPT ![a][req[r].arg] = @ + 1] ELSE accepted
      /\ UNCHANGED <<store, setups, spent, boots, started, raced>>
  BY <1>0, EditCommitEffect
<1>2. AccountsTypeOK' BY <1>0, EditCommitKeepsTypes
<1>3. /\ \A s \in Requests : AtWork(s)' => s # r /\ AtWork(s) /\ req'[s] = req[s]
      /\ \A b \in Admins : row[b] # None => row'[b] # None
      /\ \A b \in Admins : b # a => row'[b] = row[b] /\ wrong'[b] = wrong[b] /\ accepted'[b] = accepted[b]
  BY <1>0, <1>1, NoneAssumption DEF AccountsTypeOK, AtWork
<1>4. JobsFit'
  <2> SUFFICES ASSUME NEW s \in Requests, AtWork(s)'
               PROVE  /\ Editing(s)' => row'[req'[s].on] # None /\ ArgFits(req'[s])
                      /\ req'[s].op = "bootstrap" => req'[s].on = Root
    BY DEF JobsFit, Editing, ArgFits
  <2>1. AtWork(s) /\ req'[s] = req[s] /\ req[s].on \in Admins BY <1>0, <1>3, JobAtWork
  <2> QED BY <1>0, <1>3, <2>1 DEF JobsFit, Editing
<1>5. TokensBounded'
  <2>1. \A t \in ResetTokens : Deleting(t)' \subseteq Deleting(t) BY <1>3 DEF Deleting
  <2>2. \A t \in ResetTokens : spent[t] > 0 => store'[t] = None BY <1>0, <1>1 DEF TokensBounded
  <2> QED BY <1>0, <1>1, <2>1, <2>2, TokensKept
<1>6. BootstrapOnce' BY <1>0, <1>1, <1>3, AccountsAssumption DEF BootstrapOnce
<1>7. ASSUME NEW b \in Admins \ raced PROVE Alone(b)'
  <2>0. Alone(b) /\ row[b] \in Account \cup {None} /\ setups[b] \in Nat BY <1>0 DEF AccountsTypeOK
  <2>1. \A s \in Requests : Editing(s) /\ req[s].on = b => ArgFits(req[s]) BY <1>0 DEF JobsFit
  <2>2. \A s \in Requests : AtWork(s)' /\ req'[s].on = b =>
             AtWork(s) /\ req[s].on = b /\ (req'[s].op \in Edits => req'[s] = req[s])
    BY <1>3
  <2>3. CASE b # a
    <3>1. row'[b] = row[b] /\ wrong'[b] = wrong[b] /\ accepted'[b] = accepted[b] BY <1>3, <2>3
    <3> QED BY <1>1, <2>0, <2>1, <2>2, <3>1, AloneKept
  <2>4. CASE b = a BY <1>0, <2>0, <2>4, EditCommitIsExact
  <2> QED BY <2>3, <2>4
<1> QED BY <1>1, <1>2, <1>4, <1>5, <1>6, <1>7 DEF AccountsInv

\* Time takes from a lock only what it has left, and leaves the other columns alone.
LEMMA AgedAccount ==
    ASSUME NEW acc \in Account
    PROVE  /\ Aged(acc) \in Account
           /\ Aged(acc).status = acc.status /\ Aged(acc).failed = acc.failed /\ Aged(acc).codes = acc.codes
           /\ Aged(acc).locked = None <=> acc.locked = None
           /\ acc.locked \in {None, 0} => Aged(acc).locked = acc.locked
<1>1. CASE acc.locked \in {None, 0} BY <1>1 DEF Aged
<1>2. CASE acc.locked \notin {None, 0}
  <2>1. acc.locked \in 0..LockoutTicks /\ acc.locked # 0 /\ LockoutTicks \in Nat
    BY <1>2, AccountsAssumption DEF Account
  <2>2. acc.locked - 1 \in 0..LockoutTicks /\ acc.locked - 1 # None BY <2>1, AccountsAssumption
  <2>3. Aged(acc) = [acc EXCEPT !.locked = acc.locked - 1] BY <1>2, NoneAssumption DEF Aged
  <2> QED BY <1>2, <2>2, <2>3 DEF Account
<1> QED BY <1>1, <1>2

LEMMA TickKeepsInv ==
    ASSUME AccountsInv, Tick PROVE AccountsInv'
<1>0. AccountsTypeOK /\ JobsFit /\ TokensBounded /\ BootstrapOnce /\ \A b \in Admins \ raced : Alone(b)
  BY DEF AccountsInv
<1>1. /\ row' = [a \in Admins |-> Aged(row[a])]
      /\ store' = [t \in ResetTokens |-> Kept(store[t])]
      /\ UNCHANGED <<req, setups, wrong, accepted, spent, past, boots, raced, started>>
  BY DEF Tick
<1>2. ASSUME NEW a \in Admins
      PROVE  /\ row[a] = None => row'[a] = None
             /\ row[a] # None => /\ row[a] \in Account /\ row'[a] \in Account /\ row'[a] # None
                                 /\ row'[a].failed = row[a].failed /\ row'[a].codes = row[a].codes
                                 /\ row'[a].locked = None <=> row[a].locked = None
                                 /\ row[a].locked \in {None, 0} => row'[a].locked = row[a].locked
  <2>1. row'[a] = Aged(row[a]) BY <1>1
  <2>2. CASE row[a] = None BY <2>1, <2>2 DEF Aged
  <2>3. CASE row[a] # None
    <3>1. row[a] \in Account BY <1>0, <2>3 DEF AccountsTypeOK
    <3> QED BY <2>1, <2>3, <3>1, AgedAccount, NoneAssumption
  <2> QED BY <2>2, <2>3
<1>3. ASSUME NEW t \in ResetTokens
      PROVE  /\ store'[t] \in [on: Admins, ttl: 1..TokenTicks] \cup {None}
             /\ store[t] = None => store'[t] = None
  <2>1. store'[t] = Kept(store[t]) /\ store[t] \in [on: Admins, ttl: 1..TokenTicks] \cup {None}
    BY <1>0, <1>1 DEF AccountsTypeOK
  <2>2. CASE store[t] = None BY <2>1, <2>2 DEF Kept
  <2>3. CASE store[t] # None
    <3>1. store[t] \in [on: Admins, ttl: 1..TokenTicks] BY <2>1, <2>3
    <3>2. CASE store[t].ttl = 1 BY <2>1, <2>3, <3>2 DEF Kept
    <3>3. CASE store[t].ttl # 1
      <4>1. store[t].ttl - 1 \in 1..TokenTicks BY <3>1, <3>3, AccountsAssumption
      <4>2. store'[t] = [store[t] EXCEPT !.ttl = store[t].ttl - 1] BY <2>1, <2>3, <3>3 DEF Kept
      <4> QED BY <2>3, <3>1, <4>1, <4>2
    <3> QED BY <3>2, <3>3
  <2> QED BY <2>2, <2>3
<1>4. AccountsTypeOK'
  <2>1. row' \in [Admins -> Account \cup {None}]
    <3>1. \A a \in Admins : row'[a] \in Account \cup {None} BY <1>2
    <3> QED BY <1>1, <3>1
  <2>2. store' \in [ResetTokens -> [on: Admins, ttl: 1..TokenTicks] \cup {None}]
    BY <1>1, <1>3, Zenon
  <2> QED BY <1>0, <1>1, <2>1, <2>2 DEF AccountsTypeOK
<1>5. JobsFit'
  <2> SUFFICES ASSUME NEW s \in Requests, AtWork(s)
               PROVE  /\ Editing(s) => row'[req[s].on] # None /\ ArgFits(req[s])
                      /\ req[s].op = "bootstrap" => req[s].on = Root
    BY <1>1 DEF JobsFit, Editing, AtWork, ArgFits
  <2>1. req[s].on \in Admins BY <1>0, JobAtWork
  <2> QED BY <1>0, <1>2, <2>1 DEF JobsFit
<1>6. TokensBounded'
  <2>1. \A t \in ResetTokens : Deleting(t)' \subseteq Deleting(t) BY <1>1 DEF Deleting, AtWork
  <2>2. \A t \in ResetTokens : spent[t] > 0 => store'[t] = None BY <1>0, <1>3 DEF TokensBounded
  <2> QED BY <1>0, <1>1, <2>1, <2>2, TokensKept
<1>7. BootstrapOnce' BY <1>0, <1>1, <1>2, AccountsAssumption DEF BootstrapOnce
<1>8. ASSUME NEW b \in Admins \ raced PROVE Alone(b)'
  <2>0. Alone(b) /\ b \in Admins BY <1>0
  <2>1. row'[b] = None <=> row[b] = None BY <1>2
  <2>2. OneRequestAt(b)' /\ Fresh(b)' BY <1>1, <2>0, <2>1 DEF Alone, OneRequestAt, Fresh, AtWork
  <2>3. Counted(b)' BY <1>1, <1>2, <2>0, <2>1 DEF Alone, Counted
  <2>4. Enrolled(b)' /\ UsedOnce(b)' BY <1>1, <1>2, <2>0, <2>1 DEF Alone, Enrolled, UsedOnce
  <2>5. KnowsAt(b)'
    <3> SUFFICES ASSUME NEW s \in Requests, Editing(s), req[s].on = b PROVE Knows(req[s], row[b])'
      BY <1>1 DEF KnowsAt, Editing, AtWork
    <3>1. Knows(req[s], row[b]) BY <2>0 DEF Alone, KnowsAt
    <3>2. row[b] # None BY <1>0 DEF JobsFit
    <3>3. /\ row'[b].failed = row[b].failed /\ row'[b].codes = row[b].codes
          /\ row'[b].locked = None <=> row[b].locked = None
          /\ row[b].locked \in {None, 0} => row'[b].locked = row[b].locked
      BY <1>2, <2>0, <3>2
    <3> QED BY <1>1, <3>1, <3>3 DEF Knows
  <2> QED BY <2>2, <2>3, <2>4, <2>5 DEF Alone
<1> QED BY <1>1, <1>4, <1>5, <1>6, <1>7, <1>8 DEF AccountsInv

\* The invariant of the accounts is inductive.
LEMMA AccountsNextInv == AccountsInv /\ [AccountsNext]_accountVars => AccountsInv'
<1> SUFFICES ASSUME AccountsInv, [AccountsNext]_accountVars PROVE AccountsInv' OBVIOUS
<1>1. CASE UNCHANGED accountVars
  <2>1. UNCHANGED <<row, store, req, started, setups, wrong, accepted, spent, past, boots, raced>>
    BY <1>1 DEF accountVars
  <2> QED BY <2>1 DEF AccountsInv, AccountsTypeOK, JobsFit, ArgFits, TokensBounded, Deleting, BootstrapOnce,
                      Alone, OneRequestAt, Fresh, Counted, Enrolled, UsedOnce, KnowsAt, Knows, Editing, AtWork
<1>2. ASSUME NEW r \in Requests, NEW a \in Admins,
             \/ \E p \in Passwords \cup {None} : LoginLoad(r, a, p)
             \/ MfaSetupLoad(r, a)
             \/ \E secret \in 1..MaxSetups : MfaVerifySetupLoad(r, a, secret)
             \/ \E c \in Codes : MfaRecoverLoad(r, a, c)
             \/ \E old, new \in Passwords : PasswordLoad(r, a, old, new)
             \/ \E role \in Roles : UpdateLoad(r, a, role)
             \/ DeactivateLoad(r, a)
             \/ UnlockLoad(r, a)
             \/ ResetMfaLoad(r, a)
             \/ \E p \in Passwords, role \in Roles : InviteLoad(r, a, p, role)
      PROVE AccountsInv'
  BY <1>2, LoadsKeepInv
<1>3. ASSUME NEW r \in Requests, NEW p \in Passwords, BootstrapLoad(r, p) PROVE AccountsInv'
  BY <1>3, BootstrapKeepsInv
<1>4. ASSUME NEW r \in Requests, EditCommit(r) PROVE AccountsInv' BY <1>4, EditCommitKeepsInv
<1>5. ASSUME NEW r \in Requests, InsertCommit(r) PROVE AccountsInv' BY <1>5, InsertKeepsInv
<1>6. ASSUME NEW r \in Requests, Abandon(r) PROVE AccountsInv' BY <1>6, AbandonKeepsInv
<1>7. ASSUME NEW r \in Requests, NEW t \in ResetTokens, NEW p \in Passwords, ResetGet(r, t, p)
      PROVE AccountsInv'
  BY <1>7, ResetGetKeepsInv
<1>8. ASSUME NEW r \in Requests, NEW ok \in BOOLEAN, ResetDelete(r, ok) PROVE AccountsInv'
  BY <1>8, ResetDeleteKeepsInv
<1>9. ASSUME NEW r \in Requests, ResetLoad(r) PROVE AccountsInv' BY <1>9, ResetLoadKeepsInv
<1>10. ASSUME NEW a \in Admins, NEW t \in ResetTokens, ResetRequest(a, t) PROVE AccountsInv'
  BY <1>10, ResetRequestKeepsInv
<1>11. CASE Tick BY <1>11, TickKeepsInv
<1> QED BY <1>1, <1>2, <1>3, <1>4, <1>5, <1>6, <1>7, <1>8, <1>9, <1>10, <1>11 DEF AccountsNext
------------------------------------------------------------------------------
(***************************************************************************)
(* The theorems.                                                           *)
(***************************************************************************)
\* In every reachable state: the types, the shape of the jobs at work, the bounds on the
\* tokens, and what is exact of an account on which requests never overlapped.
THEOREM AccountsInductive == AccountsSpec => []AccountsInv
BY AccountsInitInv, AccountsNextInv, PTL DEF AccountsSpec

\* Every row, key, request and history variable keeps its type.
THEOREM AccountsTypesHold == AccountsSpec => []AccountsTypeOK
<1>1. AccountsInv => AccountsTypeOK BY DEF AccountsInv
<1> QED BY <1>1, AccountsInductive, PTL

\* The failed-login counter counts the wrong passwords in a row and a lock stands from the
\* last allowed one on, on every account whose requests never overlapped.
THEOREM LockoutIsExact == AccountsSpec => []LockoutExact
<1>1. AccountsInv => LockoutExact
  <2> SUFFICES ASSUME AccountsInv, NEW a \in Admins \ raced, row[a] # None
               PROVE  /\ row[a].failed = wrong[a]
                      /\ row[a].locked # None <=> row[a].failed >= MaxLoginAttempts
    BY DEF LockoutExact
  <2> QED BY DEF AccountsInv, Alone, Counted
<1> QED BY <1>1, AccountsInductive, PTL

\* A recovery code is accepted at most once and is gone afterwards, on every account whose
\* requests never overlapped.
THEOREM RecoveryHappensOnce == AccountsSpec => []RecoveryOnce
<1>1. AccountsInv => RecoveryOnce
  <2> SUFFICES ASSUME AccountsInv, NEW a \in Admins \ raced, NEW c \in Codes, accepted[a][c] > 0
               PROVE  accepted[a][c] = 1 /\ (row[a].codes # None => c \notin row[a].codes)
    BY DEF RecoveryOnce
  <2>1. Fresh(a) /\ UsedOnce(a) BY DEF AccountsInv, Alone
  <2>2. row[a] # None BY <2>1 DEF Fresh
  <2> QED BY <2>1, <2>2 DEF UsedOnce
<1> QED BY <1>1, AccountsInductive, PTL

\* A consumed reset token is gone from the store and is consumed at most once by each
\* request that can be at work, however many completions overlap and whatever Redis does.
THEOREM SpentTokensAreGone == AccountsSpec => []SpentTokenGone
<1>1. AccountsInv => SpentTokenGone
  <2> SUFFICES ASSUME AccountsInv, NEW t \in ResetTokens
               PROVE  (spent[t] > 0 => store[t] = None) /\ spent[t] <= Cardinality(Requests)
    BY DEF SpentTokenGone
  <2>1. spent[t] \in Nat /\ Cardinality(Deleting(t)) \in Nat /\ Cardinality(Requests) \in Nat
    BY DeletingFinite DEF AccountsInv, AccountsTypeOK
  <2> QED BY <2>1 DEF AccountsInv, TokensBounded
<1> QED BY <1>1, AccountsInductive, PTL

\* However many set-ups overlap, the bootstrap happens at most once.
THEOREM BootstrapHappensOnce == AccountsSpec => []BootstrapOnce
<1>1. AccountsInv => BootstrapOnce BY DEF AccountsInv
<1> QED BY <1>1, AccountsInductive, PTL

\* A lock in force goes, and an inactive account comes back, only by a request that knew of it.
UndoesNothing(a) ==
    row[a] # None =>
        /\ InForce(row[a]) /\ row'[a].locked = None =>
              \E r \in AtWorkOn(a) : /\ req'[r] = None
                                      /\ req[r].op \in {"login", "unlock"}
                                      /\ req[r].seen.locked # None
        /\ row[a].status = "inactive" /\ row'[a].status = "active" =>
              \E r \in AtWorkOn(a) : req'[r] = None /\ req[r].op = "unlock"

LEMMA CommitUndoesNothing ==
    ASSUME AccountsTypeOK, JobsFit, NEW r \in Requests, EditCommit(r), NEW a \in Admins
    PROVE  UndoesNothing(a)
<1> DEFINE b == req[r].on
           new == RowAfter(req[r])
<1>1. /\ AtWork(r) /\ req[r] \in EditJobs /\ b \in Admins /\ row[b] \in Account
      /\ row' = [row EXCEPT ![b] = new]
      /\ req' = [req EXCEPT ![r] = None]
      /\ new.status = IF Edited(req[r]).status # req[r].seen.status THEN Edited(req[r]).status
                      ELSE row[b].status
      /\ new.locked = IF Edited(req[r]).locked # req[r].seen.locked THEN Edited(req[r]).locked
                      ELSE row[b].locked
  BY EditCommitEffect
<1>2. row \in [Admins -> Account \cup {None}] /\ req'[r] = None
  BY <1>1 DEF AccountsTypeOK
<1> HIDE DEF new
<1>3. CASE a # b
  <2>1. row'[a] = row[a] BY <1>1, <1>2, <1>3
  <2> QED BY <2>1 DEF UndoesNothing, InForce
<1>4. CASE a = b
  <2>1. row'[a] = new /\ r \in AtWorkOn(a) BY <1>1, <1>2, <1>4 DEF AtWorkOn, AtWork
  <2>2. ASSUME InForce(row[a]), new.locked = None
        PROVE  req[r].op \in {"login", "unlock"} /\ req[r].seen.locked # None
    <3>1. Edited(req[r]).locked # req[r].seen.locked /\ Edited(req[r]).locked = None
      BY <1>1, <1>4, <2>2 DEF InForce
    <3> QED BY <1>1, <3>1, EditedFields
  <2>3. ASSUME row[a].status = "inactive", new.status = "active" PROVE req[r].op = "unlock"
    <3>1. Edited(req[r]).status # req[r].seen.status /\ Edited(req[r]).status = "active"
      BY <1>1, <1>4, <2>3
    <3> QED BY <1>1, <3>1, EditedFields
  <2> QED BY <1>2, <2>1, <2>2, <2>3 DEF UndoesNothing
<1> QED BY <1>3, <1>4

LEMMA NothingUndone ==
    ASSUME AccountsInv, [AccountsNext]_accountVars, NEW a \in Admins
    PROVE  UndoesNothing(a)
<1>0. AccountsTypeOK /\ JobsFit BY DEF AccountsInv
<1>1. CASE row' = row BY <1>1 DEF UndoesNothing, InForce
<1>2. ASSUME NEW r \in Requests, EditCommit(r) PROVE UndoesNothing(a) BY <1>0, <1>2, CommitUndoesNothing
<1>3. ASSUME NEW r \in Requests, InsertCommit(r) PROVE UndoesNothing(a)
  <2>1. row[a] # None => row'[a] = row[a] BY <1>0, <1>3 DEF InsertCommit, Inserts, AccountsTypeOK
  <2> QED BY <2>1 DEF UndoesNothing, InForce
<1>4. CASE Tick
  <2>1. row'[a] = Aged(row[a]) /\ row[a] \in Account \cup {None} BY <1>0, <1>4 DEF Tick, AccountsTypeOK
  <2>2. row[a] # None => /\ row'[a].locked = None <=> row[a].locked = None
                         /\ row'[a].status = row[a].status
    BY <2>1, AgedAccount
  <2> QED BY <2>2 DEF UndoesNothing, InForce
<1>5. \/ row' = row
      \/ \E r \in Requests : EditCommit(r) \/ InsertCommit(r)
      \/ Tick
  BY DEF AccountsNext, accountVars, LoginLoad, MfaSetupLoad, MfaVerifySetupLoad, MfaRecoverLoad, PasswordLoad,
         UpdateLoad, DeactivateLoad, UnlockLoad, ResetMfaLoad, InviteLoad, BootstrapLoad, Loads, Abandon,
         ResetGet, ResetDelete, ResetLoad, ResetRequest
<1> QED BY <1>1, <1>2, <1>3, <1>4, <1>5

\* A request that loaded the account before another one locked or deactivated it does not
\* undo that, however the requests overlap.
THEOREM StaleRequestsAreHarmless == AccountsSpec => StaleRequestsUndoNothing
<1>1. AccountsInv /\ [AccountsNext]_accountVars => [\A a \in Admins : UndoesNothing(a)]_accountVars
  BY NothingUndone
<1>2. [\A a \in Admins : UndoesNothing(a)]_accountVars =>
        [\A a \in Admins : row[a] # None =>
         /\ InForce(row[a]) /\ row'[a].locked = None =>
               \E r \in AtWorkOn(a) : /\ req'[r] = None
                                       /\ req[r].op \in {"login", "unlock"}
                                       /\ req[r].seen.locked # None
         /\ row[a].status = "inactive" /\ row'[a].status = "active" =>
               \E r \in AtWorkOn(a) : req'[r] = None /\ req[r].op = "unlock"]_accountVars
  BY DEF UndoesNothing
<1> QED BY <1>1, <1>2, AccountsInductive, PTL DEF AccountsSpec, StaleRequestsUndoNothing
==============================================================================
