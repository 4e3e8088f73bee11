---------------------------- MODULE ServerHealth ----------------------------
(***************************************************************************)
(* The health status of one server: the column in the database, and the    *)
(* copy in Redis that get_server_health prefers as long as it lives        *)
(* (RegistryService.update_health and get_server_health; inspect writes    *)
(* the column alone).                                                      *)
(*                                                                         *)
(* update_health commits first and sets the copy an await later, so two    *)
(* updates can reach the two stores in different orders.                   *)
(***************************************************************************)
EXTENDS Naturals, FiniteSets

CONSTANTS
    Statuses,
    Unknown,            \* the status of a server nobody has checked yet
    Updates,            \* the updates that can be at work at a time
    HealthTTL,          \* the life of the copy (60 s)
    NoKey               \* no key in Redis, an idle update

ASSUME HealthAssumption ==
    Unknown \in Statuses /\ NoKey \notin Statuses /\ HealthTTL \in Nat \ {0}

VARIABLES
    stored,             \* health_status in the database
    cached,             \* the copy and the time it has left, or NoKey
    update              \* the status each update is writing and how far it is, or NoKey

healthVars == <<stored, cached, update>>

HealthInit ==
    /\ stored = Unknown
    /\ cached = NoKey
    /\ update = [u \in Updates |-> NoKey]
------------------------------------------------------------------------------
Reads == IF cached # NoKey THEN cached.status ELSE stored          \* get_server_health
Busy == {u \in Updates : update[u] # NoKey}

UpdateLoad(u, s) ==
    /\ update[u] = NoKey
    /\ update' = [update EXCEPT ![u] = [status |-> s, saved |-> FALSE]]
    /\ UNCHANGED <<stored, cached>>

UpdateCommit(u) ==
    /\ u \in Busy /\ ~update[u].saved
    /\ stored' = update[u].status
    /\ update' = [update EXCEPT ![u].saved = TRUE]
    /\ UNCHANGED cached

FreshForever(s) == [status |-> s, left |-> 0]      \* mutant: set without an expiry
Fresh(s) == [status |-> s, left |-> HealthTTL]     \* SETEX
UpdateCache(u) ==
    /\ u \in Busy /\ update[u].saved
    /\ cached' = Fresh(update[u].status)
    /\ update' = [update EXCEPT ![u] = NoKey]
    /\ UNCHANGED stored

\* Redis fails, or the process dies: the caller gets an error, the column may be saved.
UpdateFails(u) ==
    /\ u \in Busy
    /\ update' = [update EXCEPT ![u] = NoKey]
    /\ UNCHANGED <<stored, cached>>

\* RegistryService.inspect: the column only.
InspectSaves(s) ==
    /\ stored' = s
    /\ UNCHANGED <<cached, update>>

KeyAges ==
    /\ cached # NoKey /\ cached.left > 0
    /\ cached' = IF cached.left = 1 THEN NoKey ELSE [cached EXCEPT !.left = @ - 1]
    /\ UNCHANGED <<stored, update>>

HealthNext ==
    \/ \E u \in Updates :
          \/ \E s \in Statuses : UpdateLoad(u, s)
          \/ UpdateCommit(u)
          \/ UpdateCache(u)
          \/ UpdateFails(u)
    \/ \E s \in Statuses : InspectSaves(s)
    \/ KeyAges

\* Time passes for the key.
HealthSpec == HealthInit /\ [][HealthNext]_healthVars /\ WF_healthVars(KeyAges)
------------------------------------------------------------------------------
\* The type of the column, the key and the updates.
HealthTypeOK ==
    /\ stored \in Statuses
    /\ cached \in [status: Statuses, left: 1..HealthTTL] \cup {NoKey}
    /\ update \in [Updates -> [status: Statuses, saved: BOOLEAN] \cup {NoKey}]

\* However updates and inspections overlap and fail, when they stop the status that is read
\* and the one that is stored agree in the end: the copy that was set last may be the older
\* one, but it dies (update_health, get_server_health).
HealthConverges ==
    <>[](Busy = {}) /\ <>[][UNCHANGED stored]_stored => <>[](Reads = stored)
==============================================================================
