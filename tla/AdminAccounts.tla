---------------------------- MODULE AdminAccounts ----------------------------
(***************************************************************************)
(* The accounts of the administrators: bootstrap and invitation, login     *)
(* with lockout, second factor with recovery codes, password change and    *)
(* reset, and the account management of the admin console                  *)
(* (services/auth_service.py, routers/auth.py, routers/admin.py).          *)
(*                                                                         *)
(* A handler reads the account row, decides, and commits an await later;   *)
(* nothing locks the row, so other requests commit in between.  What the   *)
(* commit writes is what the unit of work of the ORM finds changed: the    *)
(* columns whose value differs from the one that was loaded (Written).     *)
(*                                                                         *)
(* Passwords stand for themselves: hashing is deterministic as far as      *)
(* verification can tell.  A lock and a token carry the time they have     *)
(* left, so that time has no horizon: Tick takes one unit from each.       *)
(***************************************************************************)
EXTENDS Naturals, Sequences, FiniteSets

CONSTANTS
    Admins,             \* the user names (and e-mail addresses) accounts can have
    Root,               \* the user name "admin" of the bootstrap
    Requests,           \* the requests that can be at work at a time
    Passwords,          \* passwords that satisfy the policy
    Roles, Admin,       \* the roles, the one that administers
    ResetTokens,        \* password reset tokens
    None,               \* SQL NULL, a missing row, a missing key
    MaxLoginAttempts, LockoutTicks, TokenTicks,
    HistoryChecked,     \* old passwords a new one is compared with (5)
    HistoryKept,        \* old passwords that are kept (10)
    MaxFailed,          \* bound: failed logins counted in a row
    MaxSetups,          \* bound: enrolments of a second factor per account
    MaxChanges,         \* bound: password changes per account
    MaxStarted          \* bound: requests started altogether

ASSUME AccountsAssumption ==
    /\ Root \in Admins /\ Admin \in Roles
    /\ None \notin Admins /\ None \notin Passwords /\ None \notin Roles /\ None \notin Nat
    /\ IsFiniteSet(Requests)
    /\ MaxLoginAttempts \in Nat \ {0} /\ LockoutTicks \in Nat \ {0} /\ TokenTicks \in Nat \ {0}
    /\ HistoryChecked \in Nat /\ HistoryKept \in Nat
    /\ MaxStarted \in Nat /\ MaxFailed \in Nat /\ MaxSetups \in Nat /\ MaxChanges \in Nat

VARIABLES
    row,        \* table admin_users: an account, or None
    store,      \* Redis: the account and time to live of each reset token, or None
    req,        \* what each request has read and is about to write, or None
    started,    \* requests started so far
    setups,     \* enrolments started so far (they number the secrets)
    wrong,      \* history: wrong passwords answered since the last good one or unlock
    accepted,   \* history: how often each recovery code was accepted
    spent,      \* history: how often each reset token was consumed
    past,       \* history: the passwords each account has had, oldest first
    boots,      \* history: successful bootstraps
    raced       \* history: accounts on which two requests were at work at once

accountVars == <<row, store, req, started, setups, wrong, accepted, spent, past, boots, raced>>

\* The two recovery codes of an enrolment (the code draws eight).
CodesOf(n) == {2 * n - 1, 2 * n}
Codes == UNION {CodesOf(n) : n \in 1..MaxSetups}

Account ==
    [role: Roles, status: {"active", "inactive"}, password: Passwords,
     history: Seq(Passwords) \cup {None}, failed: Nat, locked: (0..LockoutTicks) \cup {None},
     secret: Nat \cup {None}, mfa: BOOLEAN, codes: (SUBSET Nat) \cup {None}]

NewAccount(role, p) ==
    [role |-> role, status |-> "active", password |-> p, history |-> None, failed |-> 0,
     locked |-> None, secret |-> None, mfa |-> FALSE, codes |-> None]

Edits == {"login", "mfa_setup", "verify_setup", "mfa_recover", "password", "update",
          "deactivate", "unlock", "reset_mfa"}
Job ==
    [op: Edits, on: Admins, seen: Account, arg: Passwords \cup Roles \cup Nat \cup {None}]
    \cup [op: {"bootstrap", "invite"}, on: Admins, arg: Passwords, role: Roles]
    \cup [op: {"delete", "load"}, on: Admins, arg: Passwords, token: ResetTokens]

\* NULL is neither a row nor a request.
ASSUME NoneAssumption == None \notin Account /\ None \notin Job

AccountsInit ==
    /\ row = [a \in Admins |-> None]
    /\ store = [t \in ResetTokens |-> None]
    /\ req = [r \in Requests |-> None]
    /\ started = 0
    /\ setups = [a \in Admins |-> 0]
    /\ wrong = [a \in Admins |-> 0]
    /\ accepted = [a \in Admins |-> [c \in Codes |-> 0]]
    /\ spent = [t \in ResetTokens |-> 0]
    /\ past = [a \in Admins |-> <<>>]
    /\ boots = 0
    /\ raced = {}
------------------------------------------------------------------------------
(***************************************************************************)
(* Requests, and what a commit of the session writes.                      *)
(***************************************************************************)
InForceForever(acc) == acc.locked # None               \* mutant: the time is not looked at
InForce(acc) == acc.locked \notin {None, 0}
AtWorkOn(a) == {r \in Requests : req[r] # None /\ req[r].on = a}

\* A request starts: it is remembered when another one is at work on the account.
Starts(r, job) ==
    /\ req[r] = None /\ started < MaxStarted
    /\ req' = [req EXCEPT ![r] = job]
    /\ started' = started + 1
    /\ raced' = IF AtWorkOn(job.on) = {} THEN raced ELSE raced \cup {job.on}

WrittenWhole(now, before, after) == after              \* mutant: the row is saved as a whole
\* The columns of `after` that differ from `before` go to the row as it is now.
Written(now, before, after) ==
    [f \in DOMAIN now |-> IF after[f] # before[f] THEN after[f] ELSE now[f]]

Loads(r, op, a, arg) ==
    /\ row[a] # None
    /\ Starts(r, [op |-> op, on |-> a, seen |-> row[a], arg |-> arg])
    /\ UNCHANGED <<row, store, wrong, accepted, spent, past, boots>>

\* What the handler makes of the row it loaded.
LoginFailedOneMore(acc) ==                             \* mutant: one attempt too many
    [acc EXCEPT !.failed = @ + 1,
                !.locked = IF acc.failed + 1 > MaxLoginAttempts THEN LockoutTicks ELSE @]
LoginFailed(acc) ==
    [acc EXCEPT !.failed = @ + 1,
                !.locked = IF acc.failed + 1 >= MaxLoginAttempts THEN LockoutTicks ELSE @]
LoginPassed(acc) == [acc EXCEPT !.failed = 0, !.locked = None]

LastOf(s, n) == IF Len(s) <= n THEN s ELSE SubSeq(s, Len(s) - n + 1, Len(s))
Loaded(history) == IF history = None THEN <<>> ELSE history
Changed(acc, p) ==
    [acc EXCEPT !.password = p, !.history = LastOf(Append(Loaded(@), acc.password), HistoryKept)]
\* history.append changes a loaded list in place, and with it the value the unit of
\* work compares the new one with; an absent history is replaced by a list of its own.
AppendedInPlace(acc) ==
    [acc EXCEPT !.history = IF @ = None THEN None ELSE Append(@, acc.password)]
Reused(acc, p) == \E i \in DOMAIN LastOf(Loaded(acc.history), HistoryChecked) :
                     LastOf(Loaded(acc.history), HistoryChecked)[i] = p

Edited(job) ==
    LET acc == job.seen IN
    CASE job.op = "login" -> IF job.arg = acc.password THEN LoginPassed(acc) ELSE LoginFailed(acc)
      [] job.op = "mfa_setup" -> [acc EXCEPT !.codes = CodesOf(job.arg)]
      [] job.op = "verify_setup" -> [acc EXCEPT !.secret = job.arg, !.mfa = TRUE]
      [] job.op = "mfa_recover" -> [acc EXCEPT !.codes = @ \ {job.arg}]
      [] job.op = "password" -> Changed(acc, job.arg)
      [] job.op = "update" -> [acc EXCEPT !.role = job.arg]
      [] job.op = "deactivate" -> [acc EXCEPT !.status = "inactive"]
      [] job.op = "unlock" -> [acc EXCEPT !.failed = 0, !.locked = None, !.status = "active"]
      [] job.op = "reset_mfa" -> [acc EXCEPT !.secret = None, !.mfa = FALSE, !.codes = None]
------------------------------------------------------------------------------
(***************************************************************************)
(* The first half of each handler: the SELECT, and the checks that need no *)
(* further await.  A check that fails answers at once and changes nothing, *)
(* so the actions hold the requests that go on to a commit.                *)
(***************************************************************************)
\* POST /v1/auth/login: no account, an inactive one or a lock in force end it.  None is a
\* password that is nobody's.
LoginLoad(r, a, p) ==
    /\ row[a] # None => /\ row[a].status = "active"
                        /\ ~InForce(row[a])
                        /\ row[a].password # p => wrong[a] < MaxFailed
    /\ Loads(r, "login", a, p)
    /\ UNCHANGED setups

MfaSetupLoad(r, a) ==
    /\ setups[a] < MaxSetups
    /\ setups' = [setups EXCEPT ![a] = @ + 1]
    /\ Loads(r, "mfa_setup", a, setups'[a])

\* The secret comes back from the client, with a code that fits it.
MfaVerifySetupLoad(r, a, secret) ==
    /\ secret \in 1..setups[a]
    /\ Loads(r, "verify_setup", a, secret)
    /\ UNCHANGED setups

MfaRecoverLoadUsed(r, a, c) ==                         \* mutant: a used code is not missed
    /\ row[a] # None => row[a].codes # None
    /\ Loads(r, "mfa_recover", a, c)
    /\ UNCHANGED setups
MfaRecoverLoad(r, a, c) ==
    /\ row[a] # None => row[a].codes # None /\ c \in row[a].codes
    /\ Loads(r, "mfa_recover", a, c)
    /\ UNCHANGED setups

\* AuthService.admin_password_reset: the current password is asked for.
PasswordLoad(r, a, old, new) ==
    /\ Len(past[a]) < MaxChanges
    /\ row[a] # None => row[a].password = old /\ ~Reused(row[a], new)
    /\ Loads(r, "password", a, new)
    /\ UNCHANGED setups

UpdateLoad(r, a, role) == Loads(r, "update", a, role) /\ UNCHANGED setups
DeactivateLoad(r, a) == Loads(r, "deactivate", a, None) /\ UNCHANGED setups
UnlockLoad(r, a) == Loads(r, "unlock", a, None) /\ UNCHANGED setups
ResetMfaLoad(r, a) == Loads(r, "reset_mfa", a, None) /\ UNCHANGED setups

\* POST /v1/auth/setup: refused when some account administers.
BootstrapLoad(r, p) ==
    /\ \A a \in Admins : row[a] # None => row[a].role # Admin
    /\ Starts(r, [op |-> "bootstrap", on |-> Root, arg |-> p, role |-> Admin])
    /\ UNCHANGED <<row, store, setups, wrong, accepted, spent, past, boots>>

\* POST /v1/admin/users/invite, with a password drawn at random.
InviteLoad(r, a, p, role) ==
    /\ row[a] = None
    /\ Starts(r, [op |-> "invite", on |-> a, arg |-> p, role |-> role])
    /\ UNCHANGED <<row, store, setups, wrong, accepted, spent, past, boots>>
------------------------------------------------------------------------------
(***************************************************************************)
(* The second half: the commit.                                            *)
(***************************************************************************)
Finish(r) == req' = [req EXCEPT ![r] = None] /\ UNCHANGED <<started, raced>>

EditCommit(r) ==
    /\ req[r] # None /\ req[r].op \in Edits
    /\ LET job == req[r]
           a == job.on
           before == IF job.op = "password" THEN AppendedInPlace(job.seen) ELSE job.seen
           refused == job.op = "login" /\ job.arg # job.seen.password
       IN  /\ row' = [row EXCEPT ![a] = Written(@, before, Edited(job))]
           /\ wrong' = [wrong EXCEPT ![a] = IF refused THEN @ + 1
                                            ELSE IF job.op \in {"login", "unlock"} THEN 0 ELSE @]
           /\ accepted' = IF job.op = "mfa_recover"
                          THEN [accepted EXCEPT ![a][job.arg] = @ + 1] ELSE accepted
           /\ past' = IF job.op = "password"
                      THEN [past EXCEPT ![a] = Append(@, row[a].password)] ELSE past
    /\ Finish(r)
    /\ UNCHANGED <<store, setups, spent, boots>>

\* The INSERT of a bootstrap or an invitation; the name is unique in the table.
InsertsAlways(job) == TRUE                             \* mutant: no unique index
Inserts(job) == row[job.on] = None
InsertCommit(r) ==
    /\ req[r] # None /\ req[r].op \in {"bootstrap", "invite"}
    /\ LET job == req[r]
       IN  /\ row' = IF Inserts(job) THEN [row EXCEPT ![job.on] = NewAccount(job.role, job.arg)] ELSE row
           /\ boots' = IF Inserts(job) /\ job.op = "bootstrap" THEN boots + 1 ELSE boots
    /\ Finish(r)
    /\ UNCHANGED <<store, setups, wrong, accepted, spent, past>>

\* The process dies or the database fails before the commit.
Abandon(r) ==
    /\ req[r] # None
    /\ Finish(r)
    /\ UNCHANGED <<row, store, setups, wrong, accepted, spent, past, boots>>
------------------------------------------------------------------------------
(***************************************************************************)
(* The reset of a forgotten password: a token in Redis, read and deleted   *)
(* by two commands, then the account is loaded and saved.                  *)
(***************************************************************************)
\* POST /v1/auth/password-reset.  When Redis fails the token is sent all the same, and
\* is worth nothing.
ResetRequest(a, t) ==
    /\ row[a] # None
    /\ store[t] = None /\ spent[t] = 0                   \* a token drawn at random
    /\ \A r \in Requests : req[r] # None /\ req[r].op \in {"delete", "load"} => req[r].token # t
    /\ store' = [store EXCEPT ![t] = [on |-> a, ttl |-> TokenTicks]]
    /\ UNCHANGED <<row, req, setups, wrong, accepted, spent, past, boots, raced, started>>

\* _consume_reset_token: GET
ResetGet(r, t, p) ==
    /\ store[t] # None
    /\ Starts(r, [op |-> "delete", on |-> store[t].on, arg |-> p, token |-> t])
    /\ UNCHANGED <<row, store, setups, wrong, accepted, spent, past, boots>>

\* _consume_reset_token: DELETE, whatever it finds; a failure of Redis refuses the token.
ResetDeleteTried(r, ok) ==                             \* mutant: a failed DELETE is let pass
    /\ req[r] # None /\ req[r].op = "delete"
    /\ store' = IF ok THEN [store EXCEPT ![req[r].token] = None] ELSE store
    /\ spent' = [spent EXCEPT ![req[r].token] = @ + 1]
    /\ req' = [req EXCEPT ![r].op = "load"]
    /\ UNCHANGED <<row, setups, wrong, accepted, past, boots, raced, started>>
ResetDelete(r, ok) ==
    /\ req[r] # None /\ req[r].op = "delete"
    /\ LET t == req[r].token IN
       IF ok THEN /\ store' = [store EXCEPT ![t] = None]
                  /\ spent' = [spent EXCEPT ![t] = @ + 1]
                  /\ req' = [req EXCEPT ![r].op = "load"]
             ELSE /\ req' = [req EXCEPT ![r] = None]
                  /\ UNCHANGED <<store, spent>>
    /\ UNCHANGED <<row, setups, wrong, accepted, past, boots, raced, started>>

\* complete_password_reset: the account, and the check against its history.
ResetLoad(r) ==
    /\ req[r] # None /\ req[r].op = "load"
    /\ LET acc == row[req[r].on] IN
       req' = [req EXCEPT ![r] =
                 IF acc = None \/ Reused(acc, @.arg) \/ Len(past[@.on]) >= MaxChanges THEN None
                 ELSE [op |-> "password", on |-> @.on, seen |-> acc, arg |-> @.arg]]
    /\ UNCHANGED <<row, store, setups, wrong, accepted, spent, past, boots, raced, started>>
------------------------------------------------------------------------------
\* One unit of time: locks run out, tokens expire.  (KeptTooLong is a mutant.)
Aged(acc) == IF acc # None /\ acc.locked \notin {None, 0} THEN [acc EXCEPT !.locked = @ - 1] ELSE acc
KeptTooLong(entry) == IF entry = None \/ entry.ttl = 0 THEN None ELSE [entry EXCEPT !.ttl = @ - 1]
Kept(entry) == IF entry = None \/ entry.ttl = 1 THEN None ELSE [entry EXCEPT !.ttl = @ - 1]
Tick ==
    /\ row' = [a \in Admins |-> Aged(row[a])]
    /\ store' = [t \in ResetTokens |-> Kept(store[t])]
    /\ UNCHANGED <<req, setups, wrong, accepted, spent, past, boots, raced, started>>

AccountsNext ==
    \/ \E r \in Requests, a \in Admins :
          \/ \E p \in Passwords \cup {None} : LoginLoad(r, a, p)
          \/ MfaSetupLoad(r, a)
          \/ \E secret \in 1..MaxSetups : MfaVerifySetupLoad(r, a, secret)
          \/ \E c \in Codes : MfaRecoverLoad(r, a, c)
          \/ \E old, new \in Passwords : PasswordLoad(r, a, old, new)
          \/ \E role \in Roles : UpdateLoad(r, a, role)
          \/ DeactivateLoad(r, a)
          \/ UnlockLoad(r, a)
          \/ ResetMfaLoad(r, a)
          \/ \E p \in Passwords, role \in Roles : InviteLoad(r, a, p, role)
    \/ \E r \in Requests :
          \/ \E p \in Passwords : BootstrapLoad(r, p)
          \/ EditCommit(r)
          \/ InsertCommit(r)
          \/ Abandon(r)
          \/ \E t \in ResetTokens, p \in Passwords : ResetGet(r, t, p)
          \/ \E ok \in BOOLEAN : ResetDelete(r, ok)
          \/ ResetLoad(r)
    \/ \E a \in Admins, t \in ResetTokens : ResetRequest(a, t)
    \/ Tick

\* Time passes; nothing is assumed of the requests.
AccountsSpec == AccountsInit /\ [][AccountsNext]_accountVars /\ WF_accountVars(Tick)
------------------------------------------------------------------------------
(***************************************************************************)
(* Properties.                                                             *)
(***************************************************************************)
\* The type of every column, key, request and history variable.
AccountsTypeOK ==
    /\ row \in [Admins -> Account \cup {None}]
    /\ store \in [ResetTokens -> [on: Admins, ttl: 1..TokenTicks] \cup {None}]
    /\ req \in [Requests -> Job \cup {None}]
    /\ started \in Nat
    /\ setups \in [Admins -> 0..MaxSetups]
    /\ wrong \in [Admins -> Nat]
    /\ accepted \in [Admins -> [Codes -> Nat]]
    /\ spent \in [ResetTokens -> Nat]
    /\ past \in [Admins -> Seq(Passwords)]
    /\ boots \in Nat
    /\ raced \subseteq Admins

\* As long as requests on an account do not overlap, the lockout is exact: the counter is
\* the number of wrong passwords in a row, and a lock stands from the last allowed one on,
\* across unlocks, password resets and edits of the account (admin_login, unlock_admin).
LockoutExact ==
    \A a \in Admins \ raced : row[a] # None =>
        /\ row[a].failed = wrong[a]
        /\ row[a].locked # None <=> row[a].failed >= MaxLoginAttempts

\* A request that loaded the account before another one locked or deactivated it does not
\* undo that: a lock in force goes only with a request that had seen a lock, an inactive
\* account becomes active only by unlock_admin (the unit of work writes changed columns).
StaleRequestsUndoNothing ==
    [][\A a \in Admins : row[a] # None =>
         /\ InForce(row[a]) /\ row'[a].locked = None =>
               \E r \in AtWorkOn(a) : /\ req'[r] = None
                                       /\ req[r].op \in {"login", "unlock"}
                                       /\ req[r].seen.locked # None
         /\ row[a].status = "inactive" /\ row'[a].status = "active" =>
               \E r \in AtWorkOn(a) : req'[r] = None /\ req[r].op = "unlock"]_accountVars

\* As long as requests on an account do not overlap, a recovery code is accepted at most
\* once and is gone from the account afterwards (mfa_recover, mfa_setup, reset_admin_mfa).
RecoveryOnce ==
    \A a \in Admins \ raced, c \in Codes : accepted[a][c] > 0 =>
        /\ accepted[a][c] = 1
        /\ row[a].codes # None => c \notin row[a].codes

\* However many completions overlap, whatever Redis does: a consumed reset token is gone
\* from the store, and it is consumed at most once by each request that can be at work
\* (_consume_reset_token reads and deletes in two commands).
SpentTokenGone ==
    \A t \in ResetTokens :
        /\ spent[t] > 0 => store[t] = None
        /\ spent[t] <= Cardinality(Requests)

\* Bootstrap happens at most once, also when two set-ups overlap, the first administrator
\* is demoted or the name was taken by an invitation (first_admin_bootstrap).
BootstrapOnce == boots <= 1 /\ (boots = 1 => row[Root] # None)

\* A lockout ends however often the password is tried: attempts during a lock are refused
\* before they count (admin_login).
LockoutEnds ==
    \A a \in Admins : (row[a] # None /\ InForce(row[a])) ~> ~(row[a] # None /\ InForce(row[a]))

\* What the docstrings promise: a changed password is none of the last ones.
NotRecentlyUsed ==
    [][\A a \in Admins : Len(past'[a]) > Len(past[a]) =>
         \A i \in 1..Len(past[a]) :
            i > Len(past[a]) - HistoryChecked => row'[a].password # past[a][i]]_accountVars
==============================================================================
