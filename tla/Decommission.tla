---------------------------- MODULE Decommission ----------------------------
(***************************************************************************)
(* Registration of MCP servers and their way out of the fabric             *)
(* (RegistryService.register and .decommission, services/                  *)
(* registry_service.py).  A server leaves in three phases; the second one  *)
(* may hand its mappings to a replacement, the last one deletes them.      *)
(*                                                                         *)
(* decommission holds the row of its server (SELECT ... FOR UPDATE) from   *)
(* its load to its commit.  A mapping that is inserted for a server, or    *)
(* re-pointed to it, needs a share of that server's row for its foreign    *)
(* key, so it waits; two migrations that hand over to each other's server  *)
(* wait for each other, and the database ends one of them.                 *)
(***************************************************************************)
EXTENDS Naturals, FiniteSets

CONSTANTS
    Servers,        \* rows of mcp_servers
    Endpoints,      \* the addresses servers are registered under
    Tools,          \* tool names
    Offers,         \* Offers[e]: the tools the server at endpoint e lists
    Capabilities,
    Mappings,       \* rows of capability_mappings
    RegistryRequests,
    NoRow           \* SQL NULL, a missing row, an idle request

ASSUME DecommissionAssumption ==
    /\ Offers \in [Endpoints -> SUBSET Tools]
    /\ NoRow \notin Servers \cup RegistryRequests

VARIABLES
    server,         \* table mcp_servers: endpoint and decommission phase, or NoRow
    mapping,        \* table capability_mappings, or NoRow
    job,            \* what each request has loaded, or NoRow
    overlapped      \* history: endpoints that two registrations were adding at once

decommissionVars == <<server, mapping, job, overlapped>>

Phases == {"grace_period", "migration", "sunset"}
\* The phase that may follow; the first one follows no phase at all.
Successor(p) == CASE p = NoRow -> "grace_period"
                  [] p = "grace_period" -> "migration"
                  [] p = "migration" -> "sunset"
                  [] OTHER -> NoRow

ServerRow == [endpoint: Endpoints, phase: Phases \cup {NoRow}]
MappingRow == [capability: Capabilities, server: Servers, tool: Tools]
RegistryJob ==
    [op: {"register"}, endpoint: Endpoints, listed: BOOLEAN]
    \cup [op: {"decommission"}, server: Servers, phase: Phases,
          replacement: Servers \cup {NoRow}, seen: SUBSET Mappings]

\* An idle request is not at work, a missing row is not a row.
ASSUME NoRowAssumption == NoRow \notin Phases /\ NoRow \notin MappingRow \cup ServerRow \cup RegistryJob

DecommissionInit ==
    /\ server = [s \in Servers |-> NoRow]
    /\ mapping = [m \in Mappings |-> NoRow]
    /\ job = [r \in RegistryRequests |-> NoRow]
    /\ overlapped = {}
------------------------------------------------------------------------------
Registered == {s \in Servers : server[s] # NoRow}
At(s) == {m \in Mappings : mapping[m] # NoRow /\ mapping[m].server = s}
Doing(op) == {r \in RegistryRequests : job[r] # NoRow /\ job[r].op = op}
NotLocked(s, r) == FALSE                  \* mutant: the row is read without FOR UPDATE
\* The row of s is held by a request other than r.
Locked(s, r) == \E q \in Doing("decommission") : q # r /\ job[q].server = s

Become(r, j) == job' = [job EXCEPT ![r] = j]
------------------------------------------------------------------------------
(***************************************************************************)
(* register: the duplicate check, the listing of the tools over the        *)
(* network, and the transaction that inserts the server with its tools.    *)
(***************************************************************************)
RegisterLoadAny(r, e) ==                  \* mutant: no duplicate check
    /\ job[r] = NoRow
    /\ Become(r, [op |-> "register", endpoint |-> e, listed |-> FALSE])
    /\ overlapped' = IF \E q \in Doing("register") : job[q].endpoint = e
                     THEN overlapped \cup {e} ELSE overlapped
    /\ UNCHANGED <<server, mapping>>
RegisterLoad(r, e) ==
    /\ job[r] = NoRow
    /\ \A s \in Registered : server[s].endpoint # e       \* else DuplicateServerError
    /\ Become(r, [op |-> "register", endpoint |-> e, listed |-> FALSE])
    /\ overlapped' = IF \E q \in Doing("register") : job[q].endpoint = e
                     THEN overlapped \cup {e} ELSE overlapped
    /\ UNCHANGED <<server, mapping>>

RegisterListed(r) ==
    /\ r \in Doing("register") /\ ~job[r].listed
    /\ job' = [job EXCEPT ![r].listed = TRUE]
    /\ UNCHANGED <<server, mapping, overlapped>>

\* No unique index: nothing here looks at the endpoints again.
RegisterCommit(r, s) ==
    /\ r \in Doing("register") /\ job[r].listed
    /\ server[s] = NoRow
    /\ server' = [server EXCEPT ![s] = [endpoint |-> job[r].endpoint, phase |-> NoRow]]
    /\ Become(r, NoRow)
    /\ UNCHANGED <<mapping, overlapped>>

\* ServerUnreachableError, DecommissionError after the load, a lost connection: the
\* transaction is rolled back and its locks are given up.
Rollback(r) ==
    /\ job[r] # NoRow
    /\ Become(r, NoRow)
    /\ UNCHANGED <<server, mapping, overlapped>>

\* CapabilityService.create_mapping, as far as the registry is concerned: the server has
\* the tool, in whatever phase it is, and the triple is unique.
CreateMapping(m, c, s, t) ==
    /\ mapping[m] = NoRow
    /\ s \in Registered /\ t \in Offers[server[s].endpoint]
    /\ \A n \in Mappings : mapping[n] # [capability |-> c, server |-> s, tool |-> t]
    /\ ~Locked(s, NoRow)                                  \* not by any request
    /\ mapping' = [mapping EXCEPT ![m] = [capability |-> c, server |-> s, tool |-> t]]
    /\ UNCHANGED <<server, job, overlapped>>
------------------------------------------------------------------------------
(***************************************************************************)
(* decommission                                                            *)
(***************************************************************************)
\* The row is locked, the mappings are loaded, the phase is checked against the current one.
DecommissionLoad(r, s, phase, replacement) ==
    /\ job[r] = NoRow
    /\ s \in Registered /\ ~Locked(s, r)
    /\ phase = Successor(server[s].phase)                 \* else DecommissionError
    /\ Become(r, [op |-> "decommission", server |-> s, phase |-> phase,
                  replacement |-> replacement, seen |-> At(s)])
    /\ UNCHANGED <<server, mapping, overlapped>>

Moved(j) ==
    [m \in Mappings |-> IF m \in j.seen THEN [mapping[m] EXCEPT !.server = j.replacement]
                                        ELSE mapping[m]]
Deleted(j) == [m \in Mappings |-> IF m \in j.seen THEN NoRow ELSE mapping[m]]
OutcomeUnchecked(j) ==                     \* mutant: moved, whether or not there is a replacement
    IF j.phase = "migration" THEN Moved(j) ELSE Deleted(j)
Outcome(j) == CASE j.phase = "migration" /\ j.replacement # NoRow -> Moved(j)
                [] j.phase = "sunset" -> Deleted(j)
                [] OTHER -> mapping
\* idx_mapping_unique
TriplesUnique(table) ==
    \A m, n \in Mappings : table[m] # NoRow /\ table[m] = table[n] => m = n

DecommissionCommit(r) ==
    /\ r \in Doing("decommission")
    /\ LET j == job[r] IN
       /\ j.phase = "migration" /\ j.replacement # NoRow /\ j.seen # {} => ~Locked(j.replacement, r)
       /\ IF /\ TriplesUnique(Outcome(j))
             /\ j.phase = "migration" /\ j.seen # {} /\ j.replacement # NoRow
                   => j.replacement \in Registered        \* the foreign key
          THEN /\ mapping' = Outcome(j)
               /\ server' = [server EXCEPT ![j.server].phase = j.phase]
          ELSE UNCHANGED <<mapping, server>>              \* IntegrityError: rolled back
    /\ Become(r, NoRow)
    /\ UNCHANGED overlapped

\* Every request in Q waits for the row another one in Q holds.
NoDeadlock(r, q) == FALSE   \* mutant: nobody looks for deadlocks
Waits(r, q) == /\ r # q /\ {r, q} \subseteq Doing("decommission")
               /\ job[r].phase = "migration" /\ job[r].seen # {}
               /\ job[r].replacement = job[q].server
DeadlockVictim(r) ==
    /\ \E Q \in SUBSET RegistryRequests : r \in Q /\ \A p \in Q : \E q \in Q : Waits(p, q)
    /\ Become(r, NoRow)
    /\ UNCHANGED <<server, mapping, overlapped>>

\* The two endpoints.
RegisterServer(r) ==
    \/ \E e \in Endpoints : RegisterLoad(r, e)
    \/ RegisterListed(r)
    \/ \E s \in Servers : RegisterCommit(r, s)
DecommissionServer(r) ==
    \/ \E s \in Servers, p \in Phases, t \in Servers \cup {NoRow} : DecommissionLoad(r, s, p, t)
    \/ DecommissionCommit(r)

DecommissionNext ==
    \/ \E r \in RegistryRequests : RegisterServer(r) \/ DecommissionServer(r) \/ Rollback(r) \/ DeadlockVictim(r)
    \/ \E m \in Mappings, c \in Capabilities, s \in Servers, t \in Tools : CreateMapping(m, c, s, t)

\* A handler runs on and a lock is granted in the order of arrival, so the one that waits
\* is not passed over for ever (strong fairness); the database looks for deadlocks.
DecommissionSpec ==
    /\ DecommissionInit /\ [][DecommissionNext]_decommissionVars
    /\ \A r \in RegistryRequests : SF_decommissionVars(DecommissionCommit(r)) /\ WF_decommissionVars(DeadlockVictim(r))
------------------------------------------------------------------------------
(***************************************************************************)
(* Properties.                                                             *)
(***************************************************************************)
\* The type of both tables and of every request.
DecommissionTypeOK ==
    /\ server \in [Servers -> ServerRow \cup {NoRow}]
    /\ mapping \in [Mappings -> MappingRow \cup {NoRow}]
    /\ job \in [RegistryRequests -> RegistryJob \cup {NoRow}]
    /\ overlapped \subseteq Endpoints

\* Two servers share an endpoint only if their registrations overlapped (register checks
\* before it lists the tools, and the table has no unique index on the endpoint).
EndpointsDistinct ==
    \A s, t \in Registered :
        s # t /\ server[s].endpoint = server[t].endpoint => server[s].endpoint \in overlapped

\* A server goes through its phases one by one and never back.
PhaseStep == \A s \in Registered : server'[s].phase # server[s].phase => server'[s].phase = Successor(server[s].phase)

\* When a server reaches sunset nothing maps to it any more.
SunsetEmpties ==
    \A s \in Registered : server[s].phase # "sunset" /\ server'[s].phase = "sunset" =>
        \A m \in Mappings : mapping'[m] # NoRow => mapping'[m].server # s

\* A mapping is lost only with the sunset of its server and moves only with the migration of
\* it, which leaves none behind, and no two rows become the same.
MappingStep ==
    /\ \A m, n \in Mappings : mapping'[m] # NoRow /\ mapping'[m] = mapping'[n] => m = n
    /\ \A m \in Mappings : mapping[m] # NoRow /\ mapping'[m] # mapping[m] =>
          LET s == mapping[m].server IN
          IF mapping'[m] = NoRow THEN server'[s].phase = "sunset"
          ELSE /\ server'[s].phase = "migration" /\ server[s].phase = "grace_period"
               /\ mapping'[m] = [mapping[m] EXCEPT !.server = mapping'[m].server]
               /\ \A n \in Mappings : mapping'[n] # NoRow => mapping'[n].server # s \/ mapping'[m].server = s

\* However decommission requests overlap, and whatever is created or migrated to the server
\* while they are at work, its phases go in order ("you cannot skip phases or go backward")
\* and its mappings go with them: a migration that cannot move every mapping moves none and
\* the phase stays, and a sunset leaves nothing that refers to the server (decommission).
PhasesMoveMappings == [][PhaseStep /\ SunsetEmpties /\ MappingStep]_decommissionVars

\* Every decommission request ends, also when two of them wait for each other's server.
DecommissionEnds ==
    \A r \in RegistryRequests : (r \in Doing("decommission")) ~> (r \notin Doing("decommission"))
==============================================================================
