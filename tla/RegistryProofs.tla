--------------------------- MODULE RegistryProofs ---------------------------
(***************************************************************************)
(* What holds of Decommission and ServerListing for every number of        *)
(* servers, mappings, rows and overlapping requests, and the types of all  *)
(* parts of the registry.                                                  *)
(***************************************************************************)
EXTENDS MCRegistry, FiniteSetTheorems, WellFoundedInduction, TLAPS

(***************************************************************************)
(* Decommission.                                                           *)
(***************************************************************************)
Leaving == [op: {"decommission"}, server: Servers, phase: Phases,
            replacement: Servers \cup {NoRow}, seen: SUBSET Mappings]
Joining == [op: {"register"}, endpoint: Endpoints, listed: BOOLEAN]

\* What a decommission request has loaded is still so: it holds the lock of its server.
LocksHold ==
    /\ \A r \in Doing("decommission") : LET j == job[r] IN
          /\ j.server \in Registered /\ j.phase = Successor(server[j.server].phase)
          /\ j.seen = At(j.server)
    /\ \A q, r \in Doing("decommission") : q # r => job[q].server # job[r].server

\* The endpoint of a registration in progress is nobody else's, but for races.
NewcomersApart ==
    \A r \in Doing("register") :
        /\ \A s \in Registered : server[s].endpoint = job[r].endpoint => job[r].endpoint \in overlapped
        /\ \A q \in Doing("register") : q # r /\ job[q].endpoint = job[r].endpoint => job[r].endpoint \in overlapped

IInv ==
    /\ DecommissionTypeOK /\ LocksHold
    /\ EndpointsDistinct /\ NewcomersApart
    /\ TriplesUnique(mapping)
------------------------------------------------------------------------------
LEMMA InitInv == DecommissionInit => IInv
<1> SUFFICES ASSUME DecommissionInit PROVE IInv
  OBVIOUS
<1> USE DEF DecommissionInit
<1>1. Registered = {} /\ \A op : Doing(op) = {}
  BY DEF Registered, Doing
<1>2. DecommissionTypeOK
  BY DEF DecommissionTypeOK
<1>3. LocksHold /\ EndpointsDistinct /\ NewcomersApart /\ TriplesUnique(mapping)
  BY <1>1 DEF LocksHold, EndpointsDistinct, NewcomersApart, TriplesUnique
<1> QED  BY <1>2, <1>3 DEF IInv

\* What a request does is known by its type.
LEMMA Jobs ==
  ASSUME DecommissionTypeOK, NEW r \in RegistryRequests, job[r] # NoRow
  PROVE  \/ job[r] \in Joining /\ r \in Doing("register") /\ r \notin Doing("decommission")
         \/ job[r] \in Leaving /\ r \in Doing("decommission") /\ r \notin Doing("register")
<1>1. job[r] \in Joining \/ job[r] \in Leaving
  BY DEF DecommissionTypeOK, RegistryJob, Joining, Leaving
<1> QED  BY <1>1 DEF Joining, Leaving, Doing

\* Only the request that goes on changes.
LEMMA BecomeOne ==
  ASSUME DecommissionTypeOK, NEW r \in RegistryRequests, NEW STATE j, Become(r, j)
  PROVE  /\ job'[r] = j
         /\ \A q \in RegistryRequests : q # r => job'[q] = job[q]
         /\ j \in RegistryJob \cup {NoRow} => job' \in [RegistryRequests -> RegistryJob \cup {NoRow}]
  BY DEF Become, DecommissionTypeOK

LEMMA NullNotJob == NoRow \notin Joining \cup Leaving
  BY NoRowAssumption DEF Joining, Leaving, RegistryJob
------------------------------------------------------------------------------
(***************************************************************************)
(* The steps.                                                              *)
(***************************************************************************)
\* A request gives up: rollbacks and deadlock victims.
LEMMA GiveUpInv ==
  ASSUME IInv, NEW r \in RegistryRequests, Become(r, NoRow), UNCHANGED <<server, mapping, overlapped>>
  PROVE  IInv'
<1>1. DecommissionTypeOK /\ LocksHold /\ EndpointsDistinct /\ NewcomersApart /\ TriplesUnique(mapping)
  BY DEF IInv
<1>2. /\ job'[r] = NoRow /\ \A q \in RegistryRequests : q # r => job'[q] = job[q]
      /\ job' \in [RegistryRequests -> RegistryJob \cup {NoRow}]
  BY <1>1, BecomeOne
<1>3. DecommissionTypeOK'
  BY <1>1, <1>2 DEF DecommissionTypeOK
<1>4. \A op : Doing(op)' \subseteq Doing(op) /\ \A q \in Doing(op)' : job'[q] = job[q]
  BY <1>2 DEF Doing
<1>5. Registered' = Registered /\ \A s \in Servers : At(s)' = At(s)
  BY DEF Registered, At
<1>6. LocksHold'
  BY <1>1, <1>4, <1>5 DEF LocksHold, Registered
<1>7. NewcomersApart' /\ EndpointsDistinct' /\ TriplesUnique(mapping)'
  BY <1>1, <1>4, <1>5 DEF NewcomersApart, EndpointsDistinct, TriplesUnique
<1> QED  BY <1>3, <1>6, <1>7 DEF IInv

LEMMA RegisterLoadInv ==
  ASSUME IInv, NEW r \in RegistryRequests, NEW e \in Endpoints, RegisterLoad(r, e)
  PROVE  IInv'
<1> USE DEF RegisterLoad
<1>1. DecommissionTypeOK /\ LocksHold /\ EndpointsDistinct /\ NewcomersApart /\ TriplesUnique(mapping)
  BY DEF IInv
<1> DEFINE j == [op |-> "register", endpoint |-> e, listed |-> FALSE]
<1>2. j \in Joining /\ j \in RegistryJob /\ j # NoRow
  <2>1. j \in Joining
    BY DEF Joining
  <2> QED  BY <2>1, NullNotJob DEF Joining, RegistryJob
<1>3. /\ job'[r] = j /\ \A q \in RegistryRequests : q # r => job'[q] = job[q]
      /\ job' \in [RegistryRequests -> RegistryJob \cup {NoRow}]
  BY <1>1, <1>2, BecomeOne
<1>4. Registered' = Registered /\ \A s \in Servers : At(s)' = At(s)
  BY DEF Registered, At
<1>5. DecommissionTypeOK' /\ overlapped \subseteq overlapped'
  BY <1>1, <1>3 DEF DecommissionTypeOK
<1>6. Doing("decommission")' = Doing("decommission") /\ \A q \in Doing("decommission") : q # r
  BY <1>3 DEF Doing
<1>7. LocksHold'
  BY <1>1, <1>3, <1>4, <1>6 DEF LocksHold, Doing, Registered
<1>8. Doing("register")' = Doing("register") \cup {r} /\ r \notin Doing("register")
  BY <1>2, <1>3 DEF Doing
<1>9. (\E q \in Doing("register") : job[q].endpoint = e) => e \in overlapped'
  OBVIOUS
<1>10. NewcomersApart'
  <2> SUFFICES ASSUME NEW p \in Doing("register")'
               PROVE  /\ \A s \in Registered : server[s].endpoint = job'[p].endpoint => job'[p].endpoint \in overlapped'
                      /\ \A q \in Doing("register")' : q # p /\ job'[q].endpoint = job'[p].endpoint
                            => job'[p].endpoint \in overlapped'
    BY <1>4 DEF NewcomersApart
  <2>1. job'[r].endpoint = e /\ \A q \in Doing("register") : job'[q] = job[q] /\ q # r
    BY <1>3, <1>8 DEF Doing
  <2>2. CASE p = r
    BY <1>8, <1>9, <2>1, <2>2
  <2>3. CASE p # r
    BY <1>1, <1>5, <1>8, <1>9, <2>1, <2>3 DEF NewcomersApart
  <2> QED  BY <2>2, <2>3
<1>11. EndpointsDistinct' /\ TriplesUnique(mapping)'
  BY <1>1, <1>4, <1>5 DEF EndpointsDistinct, TriplesUnique
<1> QED  BY <1>5, <1>7, <1>10, <1>11 DEF IInv

LEMMA RegisterListedInv ==
  ASSUME IInv, NEW r \in RegistryRequests, RegisterListed(r)
  PROVE  IInv'
<1> USE DEF RegisterListed
<1>1. DecommissionTypeOK /\ LocksHold /\ EndpointsDistinct /\ NewcomersApart /\ TriplesUnique(mapping)
  BY DEF IInv
<1>2. job[r] \in Joining
  BY <1>1, Jobs DEF Doing
<1>3. job' = [job EXCEPT ![r] = [job[r] EXCEPT !.listed = TRUE]]
  BY <1>1 DEF DecommissionTypeOK
<1> DEFINE j == [job[r] EXCEPT !.listed = TRUE]
<1>4. j \in Joining /\ j.endpoint = job[r].endpoint /\ j.op = "register"
  BY <1>2 DEF Joining
<1> HIDE DEF j
<1>5. job'[r] = j /\ \A q \in RegistryRequests : q # r => job'[q] = job[q]
  BY <1>1, <1>3 DEF DecommissionTypeOK, j
<1>6. j # NoRow /\ j \in RegistryJob
  BY <1>4, NullNotJob DEF RegistryJob, Joining
<1>7. DecommissionTypeOK'
  BY <1>1, <1>3, <1>6 DEF DecommissionTypeOK, j
<1>8. /\ Doing("decommission")' = Doing("decommission") /\ \A q \in Doing("decommission") : job'[q] = job[q]
      /\ Doing("register")' = Doing("register") /\ \A q \in Doing("register") : job'[q].endpoint = job[q].endpoint
  BY <1>2, <1>4, <1>5, <1>6 DEF Doing, Joining
<1>9. Registered' = Registered /\ \A s \in Servers : At(s)' = At(s)
  BY DEF Registered, At
<1>10. LocksHold'
  BY <1>1, <1>8, <1>9 DEF LocksHold, Registered
<1>11. NewcomersApart' /\ EndpointsDistinct' /\ TriplesUnique(mapping)'
  BY <1>1, <1>8, <1>9 DEF NewcomersApart, EndpointsDistinct, TriplesUnique
<1> QED  BY <1>7, <1>10, <1>11 DEF IInv

\* The new server meets others of its endpoint only after a race, and has no mappings.
LEMMA RegisterCommitInv ==
  ASSUME IInv, NEW r \in RegistryRequests, NEW s \in Servers, RegisterCommit(r, s)
  PROVE  IInv'
<1> USE DEF RegisterCommit
<1>1. DecommissionTypeOK /\ LocksHold /\ EndpointsDistinct /\ NewcomersApart /\ TriplesUnique(mapping)
  BY DEF IInv
<1>2. job[r] \in Joining /\ r \in Doing("register") /\ r \notin Doing("decommission")
  BY <1>1, Jobs DEF Doing
<1> DEFINE row == [endpoint |-> job[r].endpoint, phase |-> NoRow]
<1>3. row \in ServerRow /\ row # NoRow /\ row.endpoint = job[r].endpoint
  <2>1. row \in ServerRow
    BY <1>2 DEF ServerRow, Joining
  <2> QED  BY <2>1, NoRowAssumption
<1> HIDE DEF row
<1>4. server'[s] = row /\ \A t \in Servers : t # s => server'[t] = server[t]
  BY <1>1 DEF DecommissionTypeOK, row
<1>5. /\ job'[r] = NoRow /\ \A q \in RegistryRequests : q # r => job'[q] = job[q]
      /\ job' \in [RegistryRequests -> RegistryJob \cup {NoRow}]
  BY <1>1, BecomeOne
<1>6. DecommissionTypeOK'
  BY <1>1, <1>3, <1>5 DEF DecommissionTypeOK, row
<1>7. \A op : Doing(op)' = Doing(op) \ {r} /\ \A q \in Doing(op)' : job'[q] = job[q]
  BY <1>5 DEF Doing
<1>8. Registered' = Registered \cup {s} /\ s \notin Registered /\ \A t \in Servers : At(t)' = At(t)
  BY <1>3, <1>4 DEF Registered, At
<1>9. LocksHold'
  BY <1>1, <1>4, <1>7, <1>8 DEF LocksHold, Registered
<1>10. EndpointsDistinct'
  <2> SUFFICES ASSUME NEW t \in Registered', NEW u \in Registered', t # u, server'[t].endpoint = server'[u].endpoint
               PROVE  server'[t].endpoint \in overlapped
    BY DEF EndpointsDistinct
  <2>1. \A v \in Registered : server'[v] = server[v]
    BY <1>4, <1>8 DEF Registered
  <2>2. CASE t \in Registered /\ u \in Registered
    BY <1>1, <2>1, <2>2 DEF EndpointsDistinct
  <2>3. CASE t = s \/ u = s
    BY <1>1, <1>2, <1>3, <1>4, <1>8, <2>1, <2>3 DEF NewcomersApart
  <2> QED  BY <1>8, <2>2, <2>3
<1>11. NewcomersApart'
  <2> SUFFICES ASSUME NEW q \in Doing("register")'
               PROVE  /\ \A t \in Registered' : server'[t].endpoint = job'[q].endpoint => job'[q].endpoint \in overlapped
                      /\ \A p \in Doing("register")' : p # q /\ job'[p].endpoint = job'[q].endpoint
                            => job'[q].endpoint \in overlapped
    BY DEF NewcomersApart
  <2>1. q \in Doing("register") /\ q # r /\ job'[q] = job[q]
    BY <1>7
  <2>2. job[q].endpoint = job[r].endpoint => job[q].endpoint \in overlapped
    BY <1>1, <1>2, <2>1 DEF NewcomersApart
  <2>3. \A t \in Registered' : server'[t].endpoint = job[q].endpoint => job[q].endpoint \in overlapped
    BY <1>1, <1>3, <1>4, <1>8, <2>1, <2>2 DEF NewcomersApart, Registered
  <2> QED  BY <1>1, <1>7, <2>1, <2>3 DEF NewcomersApart
<1>12. TriplesUnique(mapping)'
  BY <1>1 DEF TriplesUnique
<1> QED  BY <1>6, <1>9, <1>10, <1>11, <1>12 DEF IInv

\* A server that somebody is decommissioning gets no mapping.
LEMMA CreateMappingInv ==
  ASSUME IInv, NEW m \in Mappings, NEW c \in Capabilities, NEW s \in Servers, NEW t \in Tools,
         CreateMapping(m, c, s, t)
  PROVE  IInv'
<1> USE DEF CreateMapping
<1>1. DecommissionTypeOK /\ LocksHold /\ EndpointsDistinct /\ NewcomersApart /\ TriplesUnique(mapping)
  BY DEF IInv
<1> DEFINE row == [capability |-> c, server |-> s, tool |-> t]
<1>2. row \in MappingRow /\ row.server = s
  BY DEF MappingRow
<1> HIDE DEF row
<1>3. mapping'[m] = row /\ \A n \in Mappings : n # m => mapping'[n] = mapping[n]
  BY <1>1 DEF DecommissionTypeOK, row
<1>4. DecommissionTypeOK'
  BY <1>1, <1>2 DEF DecommissionTypeOK, row
<1>5. \A op : Doing(op)' = Doing(op)
  BY DEF Doing
<1>6. \A q \in Doing("decommission") : job[q].server # s
  <2>1. \A q \in Doing("decommission") : q # NoRow
    BY DecommissionAssumption DEF Doing
  <2> QED  BY <2>1 DEF Locked
<1>7. Registered' = Registered /\ \A u \in Servers : u # s => At(u)' = At(u)
  BY <1>2, <1>3 DEF Registered, At
<1>8. LocksHold'
  BY <1>1, <1>5, <1>6, <1>7 DEF LocksHold, Registered
<1>9. TriplesUnique(mapping)'
  BY <1>1, <1>3 DEF TriplesUnique, row
<1>10. EndpointsDistinct' /\ NewcomersApart'
  BY <1>1, <1>5, <1>7 DEF EndpointsDistinct, NewcomersApart
<1> QED  BY <1>4, <1>8, <1>9, <1>10 DEF IInv

LEMMA DecommissionLoadInv ==
  ASSUME IInv, NEW r \in RegistryRequests, NEW s \in Servers, NEW p \in Phases, NEW t \in Servers \cup {NoRow},
         DecommissionLoad(r, s, p, t)
  PROVE  IInv'
<1> USE DEF DecommissionLoad
<1>1. DecommissionTypeOK /\ LocksHold /\ EndpointsDistinct /\ NewcomersApart /\ TriplesUnique(mapping)
  BY DEF IInv
<1> DEFINE j == [op |-> "decommission", server |-> s, phase |-> p, replacement |-> t, seen |-> At(s)]
<1>2. j \in RegistryJob /\ j # NoRow
  <2>1. j \in Leaving
    BY DEF Leaving, At
  <2> QED  BY <2>1, NullNotJob DEF Leaving, RegistryJob
<1>3. /\ job'[r] = j /\ \A q \in RegistryRequests : q # r => job'[q] = job[q]
      /\ job' \in [RegistryRequests -> RegistryJob \cup {NoRow}]
  BY <1>1, <1>2, BecomeOne
<1>4. DecommissionTypeOK'
  BY <1>1, <1>3 DEF DecommissionTypeOK
<1>5. Registered' = Registered /\ \A u \in Servers : At(u)' = At(u)
  BY DEF Registered, At
<1>6. /\ Doing("decommission")' = Doing("decommission") \cup {r} /\ r \notin Doing("decommission")
      /\ Doing("register")' = Doing("register") /\ r \notin Doing("register")
  BY <1>2, <1>3 DEF Doing
<1>7. \A q \in Doing("decommission") : q # r /\ job'[q] = job[q] /\ job[q].server # s
  BY <1>3, <1>6 DEF Locked, Doing
<1>8. LocksHold'
  <2> SUFFICES ASSUME NEW q \in Doing("decommission")'
               PROVE  /\ job'[q].server \in Registered /\ job'[q].phase = Successor(server[job'[q].server].phase)
                      /\ job'[q].seen = At(job'[q].server)
                      /\ \A u \in Doing("decommission")' : u # q => job'[u].server # job'[q].server
    BY <1>5 DEF LocksHold, Registered, At
  <2>1. CASE q = r
    BY <1>3, <1>6, <1>7, <2>1
  <2>2. CASE q # r
    BY <1>1, <1>3, <1>6, <1>7, <2>2 DEF LocksHold
  <2> QED  BY <2>1, <2>2
<1>9. NewcomersApart'
  <2>1. \A q \in Doing("register") : job'[q] = job[q]
    BY <1>3, <1>6 DEF Doing
  <2> QED  BY <1>1, <1>5, <1>6, <2>1 DEF NewcomersApart
<1>10. EndpointsDistinct' /\ TriplesUnique(mapping)'
  BY <1>1, <1>5 DEF EndpointsDistinct, TriplesUnique
<1> QED  BY <1>4, <1>8, <1>9, <1>10 DEF IInv
------------------------------------------------------------------------------
(***************************************************************************)
(* The commit of a decommission request.                                   *)
(***************************************************************************)
\* What a commit that is not rolled back does, with j what the request has loaded.
Moves(j) == j.phase = "migration" /\ j.replacement \in Servers /\ mapping' = Moved(j)
Deletes(j) == j.phase = "sunset" /\ mapping' = Deleted(j)
Waives(j) == j.phase # "sunset" /\ mapping' = mapping
Succeeds(r) ==
    /\ server' = [server EXCEPT ![job[r].server].phase = job[r].phase]
    /\ TriplesUnique(mapping')
    /\ \/ Moves(job[r]) /\ (job[r].seen # {} => ~Locked(job[r].replacement, r))
       \/ Deletes(job[r])
       \/ Waives(job[r])

LEMMA CommitFacts ==
  ASSUME IInv, NEW r \in RegistryRequests, DecommissionCommit(r)
  PROVE  /\ r \in Doing("decommission") /\ job[r] \in Leaving /\ job[r].server \in Registered
         /\ job[r].phase = Successor(server[job[r].server].phase) /\ job[r].seen = At(job[r].server)
         /\ (UNCHANGED <<server, mapping>> \/ Succeeds(r))
<1> USE DEF DecommissionCommit
<1>1. r \in Doing("decommission") /\ job[r] \in Leaving
  BY Jobs DEF IInv, Doing
<1>2. /\ job[r].server \in Registered /\ job[r].phase = Successor(server[job[r].server].phase)
      /\ job[r].seen = At(job[r].server)
  BY <1>1 DEF IInv, LocksHold
<1>3. job[r].replacement # NoRow => job[r].replacement \in Servers
  BY <1>1 DEF Leaving
<1>4. ASSUME mapping' = Outcome(job[r]), TriplesUnique(Outcome(job[r])),
             server' = [server EXCEPT ![job[r].server].phase = job[r].phase]
      PROVE  Succeeds(r)
  <2>1. CASE job[r].phase = "migration" /\ job[r].replacement # NoRow
    <3>1. Outcome(job[r]) = Moved(job[r])
      BY <2>1 DEF Outcome
    <3>2. job[r].seen # {} => ~Locked(job[r].replacement, r)
      BY <2>1
    <3>3. Moves(job[r])
      BY <1>3, <1>4, <2>1, <3>1 DEF Moves
    <3> QED  BY <1>4, <3>2, <3>3 DEF Succeeds
  <2>2. CASE job[r].phase = "sunset"
    <3>1. Outcome(job[r]) = Deleted(job[r])
      BY <2>2 DEF Outcome
    <3> QED  BY <1>4, <2>2, <3>1 DEF Succeeds, Deletes
  <2>3. CASE job[r].phase # "sunset" /\ ~(job[r].phase = "migration" /\ job[r].replacement # NoRow)
    <3>1. Outcome(job[r]) = mapping
      BY <2>3 DEF Outcome
    <3> QED  BY <1>4, <2>3, <3>1 DEF Succeeds, Waives
  <2> QED  BY <2>1, <2>2, <2>3
<1>5. UNCHANGED <<server, mapping>> \/ Succeeds(r)
  BY <1>4
<1> QED  BY <1>1, <1>2, <1>5

\* The fate of each mapping: it is the server's and goes with it, or it stays.
LEMMA MappingFate ==
  ASSUME IInv, NEW r \in RegistryRequests, DecommissionCommit(r), Succeeds(r), NEW m \in Mappings
  PROVE  LET j == job[r] IN
         \/ /\ Moves(j) /\ (m \in At(j.server) => ~Locked(j.replacement, r))
            /\ IF m \in At(j.server)
               THEN /\ mapping'[m] = [mapping[m] EXCEPT !.server = j.replacement]
                    /\ mapping'[m] \in MappingRow /\ mapping'[m].server = j.replacement
               ELSE mapping'[m] = mapping[m]
         \/ Deletes(j) /\ mapping'[m] = IF m \in At(j.server) THEN NoRow ELSE mapping[m]
         \/ Waives(j) /\ mapping'[m] = mapping[m]
<1> DEFINE j == job[r]
<1>1. j.seen = At(j.server)
  BY CommitFacts
<1>2. CASE Deletes(j)
  BY <1>1, <1>2 DEF Deletes, Deleted
<1>3. CASE Waives(j)
  BY <1>3 DEF Waives
<1>4. CASE Moves(j) /\ (j.seen # {} => ~Locked(j.replacement, r))
  <2>1. CASE m \in At(j.server)
    <3>1. mapping[m] \in MappingRow
      BY <2>1 DEF At, IInv, DecommissionTypeOK
    <3>2. mapping'[m] = [mapping[m] EXCEPT !.server = j.replacement]
      BY <1>1, <1>4, <2>1 DEF Moves, Moved
    <3>3. mapping'[m] \in MappingRow /\ mapping'[m].server = j.replacement
      BY <1>4, <3>1, <3>2 DEF MappingRow, Moves
    <3>4. ~Locked(j.replacement, r)
      BY <1>1, <1>4, <2>1
    <3> QED  BY <1>4, <2>1, <3>2, <3>3, <3>4
  <2>2. CASE m \notin At(j.server)
    <3>1. mapping'[m] = mapping[m]
      BY <1>1, <1>4, <2>2 DEF Moves, Moved
    <3> QED  BY <1>4, <2>2, <3>1
  <2> QED  BY <2>1, <2>2
<1> QED  BY <1>2, <1>3, <1>4 DEF Succeeds

\* The server table after such a commit.
LEMMA ServerFate ==
  ASSUME IInv, NEW r \in RegistryRequests, DecommissionCommit(r), Succeeds(r)
  PROVE  /\ server'[job[r].server] \in ServerRow
         /\ server'[job[r].server].endpoint = server[job[r].server].endpoint
         /\ server'[job[r].server].phase = job[r].phase
         /\ \A s \in Servers : s # job[r].server => server'[s] = server[s]
         /\ server' \in [Servers -> ServerRow \cup {NoRow}] /\ Registered' = Registered
<1> DEFINE s == job[r].server
           row == [server[s] EXCEPT !.phase = job[r].phase]
<1>1. s \in Registered /\ s \in Servers /\ server[s] \in ServerRow /\ job[r].phase \in Phases
  BY CommitFacts DEF Registered, IInv, DecommissionTypeOK, Leaving
<1>2. row \in ServerRow /\ row.endpoint = server[s].endpoint /\ row.phase = job[r].phase
  BY <1>1 DEF ServerRow
<1>3. server' = [server EXCEPT ![s] = row]
  BY <1>1 DEF Succeeds, IInv, DecommissionTypeOK
<1>4. row # NoRow
  BY <1>2, NoRowAssumption
<1> HIDE DEF row, s
<1>5. server'[s] = row /\ \A t \in Servers : t # s => server'[t] = server[t]
  BY <1>1, <1>3 DEF IInv, DecommissionTypeOK
<1>6. server' \in [Servers -> ServerRow \cup {NoRow}]
  BY <1>2, <1>3 DEF IInv, DecommissionTypeOK
<1>7. Registered' = Registered
  BY <1>1, <1>4, <1>5 DEF Registered
<1> QED  BY <1>2, <1>5, <1>6, <1>7 DEF s

LEMMA DecommissionCommitInv ==
  ASSUME IInv, NEW r \in RegistryRequests, DecommissionCommit(r)
  PROVE  IInv'
<1>1. DecommissionTypeOK /\ LocksHold /\ EndpointsDistinct /\ NewcomersApart /\ TriplesUnique(mapping)
  BY DEF IInv
<1>2. /\ job'[r] = NoRow /\ \A q \in RegistryRequests : q # r => job'[q] = job[q]
      /\ job' \in [RegistryRequests -> RegistryJob \cup {NoRow}]
  BY <1>1, BecomeOne DEF DecommissionCommit
<1>3. overlapped' = overlapped /\ Become(r, NoRow)
  BY DEF DecommissionCommit
<1>4. CASE UNCHANGED <<server, mapping>>
  BY <1>3, <1>4, GiveUpInv
<1>5. CASE Succeeds(r)
  <2>1. \A op : Doing(op)' = Doing(op) \ {r} /\ \A q \in Doing(op)' : job'[q] = job[q]
    BY <1>2 DEF Doing
  <2>2. mapping' \in [Mappings -> MappingRow \cup {NoRow}]
    <3>1. \A m \in Mappings : mapping'[m] \in MappingRow \cup {NoRow}
      BY <1>1, <1>5, MappingFate DEF DecommissionTypeOK
    <3>2. mapping' = [m \in Mappings |-> mapping'[m]]
      BY <1>1, <1>5 DEF Succeeds, Moves, Deletes, Waives, Moved, Deleted, DecommissionTypeOK
    <3> QED  BY <3>1, <3>2
  <2>3. DecommissionTypeOK'
    BY <1>1, <1>2, <1>3, <1>5, <2>2, ServerFate DEF DecommissionTypeOK
  <2>4. ASSUME NEW q \in Doing("decommission"), q # r
        PROVE  At(job[q].server)' = At(job[q].server)
    <3>1. job[q].server # job[r].server
      BY <1>1, <2>4, CommitFacts DEF LocksHold
    <3>2. job[q].server = job[r].replacement => Locked(job[r].replacement, r)
      BY <2>4 DEF Locked
    <3>3. ASSUME NEW m \in Mappings
          PROVE  m \in At(job[q].server)' <=> m \in At(job[q].server)
      <4>1. job'[q] = job[q]
        BY <1>2, <2>4 DEF Doing
      <4>2. CASE m \in At(job[r].server)
        BY <1>5, <3>1, <3>2, <4>1, <4>2, MappingFate DEF At
      <4>3. CASE m \notin At(job[r].server)
        BY <1>5, <4>1, <4>3, MappingFate DEF At
      <4> QED  BY <4>2, <4>3
    <3> QED  BY <3>3 DEF At
  <2>5. ASSUME NEW q \in Doing("decommission"), q # r
        PROVE  server'[job[q].server] = server[job[q].server]
    BY <1>1, <1>5, <2>5, ServerFate, CommitFacts DEF LocksHold, Registered
  <2>6. LocksHold'
    BY <1>1, <1>5, <2>1, <2>4, <2>5, ServerFate DEF LocksHold
  <2>7. \A s \in Registered : server'[s].endpoint = server[s].endpoint
    BY <1>5, ServerFate DEF Registered
  <2>8. EndpointsDistinct' /\ NewcomersApart'
    BY <1>1, <1>3, <1>5, <2>1, <2>7, ServerFate DEF EndpointsDistinct, NewcomersApart
  <2>9. TriplesUnique(mapping)'
    BY <1>5 DEF Succeeds, TriplesUnique
  <2> QED  BY <2>3, <2>6, <2>8, <2>9 DEF IInv
<1> QED  BY <1>4, <1>5, CommitFacts

LEMMA NextInv ==
  ASSUME IInv, [DecommissionNext]_decommissionVars
  PROVE  IInv'
<1>1. CASE UNCHANGED decommissionVars
  BY <1>1 DEF decommissionVars, IInv, DecommissionTypeOK, LocksHold, NewcomersApart, EndpointsDistinct,
              TriplesUnique, Registered, At, Doing
<1>2. ASSUME NEW r \in RegistryRequests, RegisterServer(r) PROVE IInv'
  BY <1>2, RegisterLoadInv, RegisterListedInv, RegisterCommitInv DEF RegisterServer
<1>3. ASSUME NEW r \in RegistryRequests, DecommissionServer(r) PROVE IInv'
  BY <1>3, DecommissionLoadInv, DecommissionCommitInv DEF DecommissionServer
<1>4. ASSUME NEW r \in RegistryRequests, Rollback(r) \/ DeadlockVictim(r) PROVE IInv'
  BY <1>4, GiveUpInv DEF Rollback, DeadlockVictim
<1> QED  BY <1>1, <1>2, <1>3, <1>4, CreateMappingInv DEF DecommissionNext

\* What a request that decommissions a server has loaded is still so when it commits,
\* because it holds the server's row (SELECT ... FOR UPDATE in decommission).
THEOREM Inductive == DecommissionSpec => []IInv
<1>1. IInv /\ [DecommissionNext]_decommissionVars => IInv'
  BY NextInv
<1> QED  BY <1>1, InitInv, PTL DEF DecommissionSpec

\* The tables of servers and mappings and the requests keep their types (register,
\* decommission).
THEOREM TypeCorrect == DecommissionSpec => []DecommissionTypeOK
<1>1. IInv => DecommissionTypeOK
  BY DEF IInv
<1> QED  BY <1>1, Inductive, PTL

\* Two servers share an endpoint only when their registrations overlapped (register).
THEOREM EndpointsApart == DecommissionSpec => []EndpointsDistinct
<1>1. IInv => EndpointsDistinct
  BY DEF IInv
<1> QED  BY <1>1, Inductive, PTL
------------------------------------------------------------------------------
(***************************************************************************)
(* Phases and mappings move together.                                      *)
(***************************************************************************)
Together == PhaseStep /\ SunsetEmpties /\ MappingStep

\* Where no registered server changes and no mapping goes, they do.
LEMMA Quiet ==
  ASSUME \A s \in Registered : server'[s] = server[s],
         \A m \in Mappings : mapping[m] # NoRow => mapping'[m] = mapping[m],
         TriplesUnique(mapping')
  PROVE  Together
  BY DEF Together, PhaseStep, SunsetEmpties, MappingStep, TriplesUnique

LEMMA CommitTogether ==
  ASSUME IInv, NEW r \in RegistryRequests, DecommissionCommit(r), Succeeds(r)
  PROVE  Together
<1> DEFINE j == job[r]
           s == job[r].server
<1>1. /\ s \in Registered /\ s \in Servers /\ j.phase = Successor(server[s].phase) /\ j.phase \in Phases
      /\ server'[s].phase = j.phase /\ \A t \in Registered : t # s => server'[t] = server[t]
  BY CommitFacts, ServerFate DEF Registered, Leaving
<1>2. PhaseStep
  BY <1>1 DEF PhaseStep
<1>3. SunsetEmpties
  <2> SUFFICES ASSUME NEW t \in Registered, server[t].phase # "sunset", server'[t].phase = "sunset",
                      NEW m \in Mappings, mapping'[m] # NoRow
               PROVE  mapping'[m].server # t
    BY DEF SunsetEmpties
  <2>1. t = s /\ j.phase = "sunset"
    BY <1>1
  <2>2. Deletes(j)
    BY <2>1, MappingFate DEF Moves, Waives
  <2>3. m \notin At(s) /\ mapping'[m] = mapping[m]
    BY <2>1, <2>2, MappingFate DEF Moves, Waives, Deletes
  <2> QED  BY <2>1, <2>3 DEF At
<1>4. MappingStep
  <2>1. ASSUME NEW m \in Mappings, mapping[m] # NoRow, mapping'[m] # mapping[m]
        PROVE  /\ m \in At(s) /\ mapping[m].server = s /\ mapping[m] \in MappingRow
               /\ \/ Deletes(j) /\ mapping'[m] = NoRow
                  \/ /\ Moves(j) /\ mapping'[m] = [mapping[m] EXCEPT !.server = j.replacement]
                     /\ mapping'[m] \in MappingRow /\ mapping'[m].server = j.replacement
    <3>1. m \in At(s)
      BY <2>1, MappingFate
    <3> QED  BY <2>1, <3>1, MappingFate DEF At, IInv, DecommissionTypeOK
  <2>2. ASSUME NEW m \in Mappings, mapping[m] # NoRow, mapping'[m] # mapping[m], mapping'[m] = NoRow
        PROVE  server'[mapping[m].server].phase = "sunset"
    BY <1>1, <2>1, <2>2, NoRowAssumption DEF Deletes
  <2>3. ASSUME NEW m \in Mappings, mapping[m] # NoRow, mapping'[m] # mapping[m], mapping'[m] # NoRow
        PROVE  /\ server'[s].phase = "migration" /\ server[s].phase = "grace_period"
               /\ mapping'[m] = [mapping[m] EXCEPT !.server = mapping'[m].server]
               /\ \A n \in Mappings : mapping'[n] # NoRow => mapping'[n].server # s \/ mapping'[m].server = s
    <3>1. Moves(j) /\ mapping'[m] = [mapping[m] EXCEPT !.server = j.replacement] /\ mapping'[m].server = j.replacement
      BY <2>1, <2>3
    <3>2. server'[s].phase = "migration" /\ server[s].phase = "grace_period"
      BY <1>1, <3>1, NoRowAssumption DEF Moves, Successor, Phases
    <3>3. ASSUME NEW n \in Mappings, mapping'[n] # NoRow, mapping'[n].server = s, j.replacement # s PROVE FALSE
      <4>2. n \notin At(s) => mapping'[n] = mapping[n]
        BY MappingFate
      <4>3. CASE n \in At(s)
        <5>1. mapping[n] \in MappingRow
          BY <4>3 DEF At, IInv, DecommissionTypeOK
        <5>2. mapping'[n] = [mapping[n] EXCEPT !.server = j.replacement]
          BY <3>1, <4>3, CommitFacts DEF Moves, Moved
        <5>3. mapping'[n].server = j.replacement
          BY <5>1, <5>2 DEF MappingRow
        <5> QED  BY <3>3, <5>3
      <4> QED  BY <3>3, <4>2, <4>3 DEF At
    <3> QED  BY <3>1, <3>2, <3>3
  <2>4. \A m, n \in Mappings : mapping'[m] # NoRow /\ mapping'[m] = mapping'[n] => m = n
    BY DEF Succeeds, TriplesUnique
  <2>5. \A m \in Mappings : mapping[m] # NoRow /\ mapping'[m] # mapping[m] => mapping[m].server = s
    BY <2>1
  <2> HIDE DEF s
  <2> QED  BY <2>2, <2>3, <2>4, <2>5 DEF MappingStep
<1> QED  BY <1>2, <1>3, <1>4 DEF Together

LEMMA StepTogether ==
  ASSUME IInv, [DecommissionNext]_decommissionVars
  PROVE  Together
<1>1. TriplesUnique(mapping')
  <2>1. IInv'
    BY NextInv
  <2> QED  BY <2>1 DEF IInv, TriplesUnique
<1>2. ASSUME UNCHANGED <<server, mapping>> PROVE Together
  BY <1>1, <1>2, Quiet
<1>3. ASSUME NEW r \in RegistryRequests, RegisterServer(r) PROVE Together
  <2>1. ASSUME NEW s \in Servers, RegisterCommit(r, s) PROVE Together
    <3>1. \A t \in Registered : server'[t] = server[t]
      BY <2>1 DEF RegisterCommit, Registered, IInv, DecommissionTypeOK
    <3> QED  BY <1>1, <2>1, <3>1, Quiet DEF RegisterCommit
  <2> QED  BY <1>2, <1>3, <2>1 DEF RegisterServer, RegisterLoad, RegisterListed
<1>4. ASSUME NEW r \in RegistryRequests, DecommissionServer(r) PROVE Together
  BY <1>2, <1>4, CommitFacts, CommitTogether DEF DecommissionServer, DecommissionLoad
<1>5. ASSUME NEW r \in RegistryRequests, Rollback(r) \/ DeadlockVictim(r) PROVE Together
  BY <1>2, <1>5 DEF Rollback, DeadlockVictim
<1>6. ASSUME NEW m \in Mappings, NEW c \in Capabilities, NEW s \in Servers, NEW t \in Tools, CreateMapping(m, c, s, t)
      PROVE  Together
  <2>1. \A n \in Mappings : mapping[n] # NoRow => mapping'[n] = mapping[n]
    BY <1>6 DEF CreateMapping, IInv, DecommissionTypeOK
  <2> QED  BY <1>1, <1>6, <2>1, Quiet DEF CreateMapping
<1>7. CASE UNCHANGED decommissionVars
  BY <1>2, <1>7 DEF decommissionVars
<1> QED  BY <1>3, <1>4, <1>5, <1>6, <1>7 DEF DecommissionNext

\* Whatever requests overlap, phases go one by one, a sunset leaves nothing behind, and a
\* migration moves every mapping of the server or none (decommission).
THEOREM PhasesAndMappings == DecommissionSpec => PhasesMoveMappings
<1>1. IInv /\ [DecommissionNext]_decommissionVars => [Together]_decommissionVars
  BY StepTogether
<1> QED  BY <1>1, Inductive, PTL DEF DecommissionSpec, PhasesMoveMappings, Together
------------------------------------------------------------------------------
(***************************************************************************)
(* ServerListing.                                                          *)
(***************************************************************************)
\* What has been listed lies at the cursor or above it, and of the rows that were there when
\* the walk began exactly those below it are still to come.
WalksOn ==
    /\ cursor = NoCursor => \A r \in Rows : listed[r] = 0
    /\ cursor # NoCursor => /\ \A r \in Rows : listed[r] # 0 => r \in Existing /\ ~Below(r, cursor)
                            /\ \A r \in present : ~Below(r, cursor) => listed[r] = 1
ListingInv ==
    /\ ListingTypeOK /\ IsFiniteSet(Existing)
    /\ more => WalksOn
    /\ WalkIsComplete
------------------------------------------------------------------------------
\* Among sets of members of a finite set one includes no other.
LEMMA LeastSet ==
    ASSUME NEW S, IsFiniteSet(S), NEW D \in SUBSET SUBSET S, D # {}
    PROVE  \E A \in D : \A B \in D : B \subseteq A => B = A
<1>1. D \subseteq FiniteSubsetsOf(S) BY FS_Subset DEF FiniteSubsetsOf
<1>2. \E A \in D : \A B \in D : ~ (<<B, A>> \in StrictSubsetOrdering(S))
  BY <1>1, FS_StrictSubsetOrderingWellFounded, WFMin
<1> QED BY <1>1, <1>2 DEF StrictSubsetOrdering, FiniteSubsetsOf

\* The rows that exist are in a strict total order, and a cursor cuts it.
LEMMA RowsAreOrdered ==
    ASSUME ListingTypeOK
    PROVE  /\ \A r \in Existing : ~Precedes(r, r)
           /\ \A q, r, s \in Existing : Precedes(q, r) /\ Precedes(r, s) => Precedes(q, s)
           /\ \A q, r \in Existing : q = r \/ Precedes(q, r) \/ Precedes(r, q)
           /\ \A q, r \in Existing : Below(r, <<created[q], q>>) <=> Precedes(q, r)
<1>1. \A r \in Existing : r \in Nat /\ created[r] \in Nat
  BY ListingAssumption DEF Existing, ListingTypeOK
<1> QED BY <1>1 DEF Precedes, Below

\* What cursor lets through comes after what it stands at: who follows a row below it is below it.
LEMMA BelowGoesOn ==
    ASSUME ListingTypeOK, cursor # NoCursor, NEW q \in Existing, NEW r \in Existing,
           Below(q, cursor), Precedes(q, r)
    PROVE  Below(r, cursor)
<1>0. cursor \in (0..MaxClock) \X Rows BY DEF ListingTypeOK
<1>1. cursor[1] \in Nat /\ cursor[2] \in Nat 
  <2>1. PICK t \in 0..MaxClock, i \in Rows : cursor = <<t, i>> BY <1>0
  <2>2. t \in Nat /\ i \in Nat BY ListingAssumption
  <2> QED BY <2>1, <2>2
<1>2. \A s \in Existing : s \in Nat /\ created[s] \in Nat
  BY ListingAssumption DEF Existing, ListingTypeOK
<1> QED BY <1>1, <1>2 DEF Precedes, Below

\* Rows that exist have a first one and a last one.
LEMMA FirstAndLast ==
    ASSUME ListingTypeOK, IsFiniteSet(Existing), NEW S \in SUBSET Existing, S # {}
    PROVE  /\ \E r \in S : \A q \in S : q = r \/ Precedes(r, q)
           /\ \E r \in S : \A q \in S : q = r \/ Precedes(q, r)
<1>1. \E r \in S : \A q \in S : q = r \/ Precedes(r, q)
  <2> DEFINE Before(r) == {q \in S : Precedes(q, r)}
             D == {Before(r) : r \in S}
  <2>1. D \in SUBSET SUBSET Existing /\ D # {} OBVIOUS
  <2> HIDE DEF D
  <2>2. PICK A \in D : \A B \in D : B \subseteq A => B = A BY <2>1, LeastSet
  <2> USE DEF D
  <2>3. PICK r \in S : A = Before(r) BY <2>2
  <2>4. ASSUME NEW q \in S, Precedes(q, r) PROVE FALSE
    <3>1. Before(q) \subseteq Before(r) BY <2>4, RowsAreOrdered
    <3>2. q \in Before(r) /\ q \notin Before(q) BY <2>4, RowsAreOrdered
    <3>3. Before(q) = Before(r) BY <2>2, <2>3, <3>1
    <3> HIDE DEF Before
    <3> QED BY <3>2, <3>3
  <2> QED BY <2>4, RowsAreOrdered
<1>2. \E r \in S : \A q \in S : q = r \/ Precedes(q, r)
  <2> DEFINE After(r) == {q \in S : Precedes(r, q)}
             D == {After(r) : r \in S}
  <2>1. D \in SUBSET SUBSET Existing /\ D # {} OBVIOUS
  <2> HIDE DEF D
  <2>2. PICK A \in D : \A B \in D : B \subseteq A => B = A BY <2>1, LeastSet
  <2> USE DEF D
  <2>3. PICK r \in S : A = After(r) BY <2>2
  <2>4. ASSUME NEW q \in S, Precedes(r, q) PROVE FALSE
    <3>1. After(q) \subseteq After(r) BY <2>4, RowsAreOrdered
    <3>2. q \in After(r) /\ q \notin After(q) BY <2>4, RowsAreOrdered
    <3>3. After(q) = After(r) BY <2>2, <2>3, <3>1
    <3> HIDE DEF After
    <3> QED BY <3>2, <3>3
  <2> QED BY <2>4, RowsAreOrdered
<1> QED BY <1>1, <1>2

\* LIMIT n: rows from the first on without a gap, all of them when they are not n.
LEMMA LimitTakesTheFirst ==
    ASSUME ListingTypeOK, IsFiniteSet(Existing), NEW S \in SUBSET Existing, NEW n \in Nat
    PROVE  /\ FirstOf(S, n) \subseteq S
           /\ \A r \in FirstOf(S, n), q \in S : Precedes(q, r) => q \in FirstOf(S, n)
           /\ Cardinality(FirstOf(S, n)) < n => FirstOf(S, n) = S
           /\ Cardinality(S) <= n => FirstOf(S, n) = S
           /\ S # {} /\ n > 0 => FirstOf(S, n) # {}
<1> DEFINE Before(r) == {q \in S : Precedes(q, r)}
<1>0. FirstOf(S, n) = {r \in S : Cardinality(Before(r)) < n} BY DEF FirstOf
<1>1. IsFiniteSet(S) /\ Cardinality(S) \in Nat /\ IsFiniteSet(FirstOf(S, n)) /\ Cardinality(FirstOf(S, n)) \in Nat
  BY <1>0, FS_Subset, FS_CardinalityType
<1>2. \A r \in S : IsFiniteSet(Before(r)) /\ Cardinality(Before(r)) \in Nat
  BY <1>1, FS_Subset, FS_CardinalityType
<1>3. \A r \in S, q \in S : Precedes(q, r) => Cardinality(Before(q)) <= Cardinality(Before(r))
  <2> SUFFICES ASSUME NEW r \in S, NEW q \in S, Precedes(q, r)
               PROVE  Cardinality(Before(q)) <= Cardinality(Before(r))
    OBVIOUS
  <2>1. Before(q) \subseteq Before(r) BY RowsAreOrdered
  <2> QED BY <1>2, <2>1, FS_Subset
<1> HIDE DEF Before
<1>4. ASSUME NEW r \in FirstOf(S, n), NEW q \in S, Precedes(q, r) PROVE q \in FirstOf(S, n)
  BY <1>0, <1>2, <1>3, <1>4
<1>5. ASSUME Cardinality(FirstOf(S, n)) < n, FirstOf(S, n) # S PROVE FALSE
  <2> DEFINE T == S \ FirstOf(S, n)
  <2>1. T \in SUBSET Existing /\ T # {} BY <1>0, <1>5
  <2>2. PICK r \in T : \A q \in T : q = r \/ Precedes(r, q) BY <2>1, FirstAndLast
  <2>3. Before(r) \subseteq FirstOf(S, n) BY <2>2, RowsAreOrdered DEF Before
  <2>4. Cardinality(Before(r)) <= Cardinality(FirstOf(S, n)) BY <1>1, <2>3, FS_Subset
  <2> QED BY <1>0, <1>1, <1>2, <1>5, <2>2, <2>4
<1>6. ASSUME Cardinality(S) <= n, NEW r \in S PROVE r \in FirstOf(S, n)
  <2>1. Before(r) \subseteq S \ {r} BY RowsAreOrdered DEF Before
  <2>2. IsFiniteSet(S \ {r}) /\ Cardinality(S \ {r}) = Cardinality(S) - 1 BY <1>1, FS_RemoveElement
  <2>3. Cardinality(Before(r)) <= Cardinality(S \ {r}) BY <2>1, <2>2, FS_Subset
  <2> QED BY <1>0, <1>1, <1>2, <1>6, <2>2, <2>3
<1>7. ASSUME S # {}, n > 0 PROVE FirstOf(S, n) # {}
  <2>1. PICK r \in S : \A q \in S : q = r \/ Precedes(r, q) BY <1>7, FirstAndLast
  <2>2. Before(r) = {} BY <2>1, RowsAreOrdered DEF Before
  <2>3. Cardinality(Before(r)) = 0 BY <2>2, FS_EmptySet
  <2> QED BY <1>0, <1>7, <2>3
<1> QED BY <1>0, <1>4, <1>5, <1>6, <1>7
------------------------------------------------------------------------------
LEMMA ListingInitInv == ListingInit => ListingInv
<1> SUFFICES ASSUME ListingInit PROVE ListingInv OBVIOUS
<1> USE DEF ListingInit
<1>1. Existing = {} BY DEF Existing
<1>2. IsFiniteSet(Existing) BY <1>1, FS_EmptySet
<1>3. ListingTypeOK BY <1>1, ListingAssumption DEF ListingTypeOK
<1>4. WalksOn /\ WalkIsComplete BY DEF WalksOn, WalkIsComplete
<1> QED BY <1>2, <1>3, <1>4 DEF ListingInv

LEMMA ReadPageInv ==
    ASSUME ListingInv, ReadPage
    PROVE  ListingInv'
<1>1. ListingTypeOK /\ IsFiniteSet(Existing) /\ WalksOn /\ more /\ \A r \in Rows : listed[r] <= 1
  BY DEF ListingInv, ReadPage, WalkIsComplete
<1>2. created' = created /\ Existing' = Existing /\ clock' = clock BY DEF ReadPage, Existing
<1>3. PerPage \in Nat /\ PerPage > 0 /\ PerPage + 1 \in Nat BY ListingAssumption
<1>4. Matching \subseteq Existing BY DEF Matching
<1>a. /\ Fetched \subseteq Matching
      /\ \A r \in Fetched, q \in Matching : Precedes(q, r) => q \in Fetched
      /\ Cardinality(Fetched) < PerPage + 1 => Fetched = Matching
      /\ Matching # {} => Fetched # {}
  BY <1>1, <1>3, <1>4, LimitTakesTheFirst DEF Fetched
<1>b. Fetched \subseteq Existing BY <1>4, <1>a
<1>c. /\ Page \subseteq Fetched
      /\ \A r \in Page, q \in Fetched : Precedes(q, r) => q \in Page
      /\ Cardinality(Fetched) <= PerPage => Page = Fetched
      /\ Fetched # {} => Page # {}
  BY <1>1, <1>3, <1>b, LimitTakesTheFirst DEF Page
<1>5. Page \subseteq Matching /\ Page \subseteq Existing /\ Page \subseteq Rows
  BY <1>4, <1>a, <1>c DEF Existing
<1>6. \A r \in Page : listed[r] = 0
  BY <1>1, <1>5 DEF WalksOn, Matching
<1>7. \A r \in Rows : listed'[r] = IF r \in Page THEN 1 ELSE listed[r]
  BY <1>6 DEF ReadPage
<1>8. listed' \in [Rows -> 0..2] /\ \A r \in Rows : listed'[r] <= 1
  <2>1. \A r \in Rows : listed'[r] \in 0..2 BY <1>1, <1>7 DEF ListingTypeOK
  <2> QED BY <1>1, <1>7, <2>1 DEF ReadPage
<1>9. present' \subseteq Existing' BY <1>1, <1>2 DEF ReadPage, ListingTypeOK
<1>10. \A r \in present' : r \in Matching \/ (cursor # NoCursor /\ ~Below(r, cursor) /\ listed[r] = 1)
  BY <1>1, <1>2, <1>9 DEF ReadPage, Matching, WalksOn
<1>11. CASE HasMore
  <2>1. Page # {}
    <3>1. Fetched # {} BY <1>3, <1>11, FS_EmptySet DEF HasMore
    <3> QED BY <1>c, <3>1
  <2>2. LastOfPage \in Page /\ \A q \in Page : q = LastOfPage \/ Precedes(q, LastOfPage)
    <3>1. \E r \in Page : \A q \in Page : q = r \/ Precedes(q, r)
      BY <1>1, <1>5, <2>1, FirstAndLast
    <3> QED BY <3>1 DEF LastOfPage
  <2> DEFINE last == LastOfPage
  <2> HIDE DEF last
  <2>3. last \in Page /\ last \in Existing /\ \A q \in Page : q = last \/ Precedes(q, last)
    BY <1>5, <2>2 DEF last
  <2>4. cursor' = <<created[last], last>> /\ more' BY <1>11 DEF ReadPage, NextCursor, last
  <2>5. created[last] \in 0..MaxClock /\ last \in Rows
    BY <1>1, <2>3 DEF ListingTypeOK, Existing
  <2>6. cursor' # NoCursor /\ cursor' \in (0..MaxClock) \X Rows
    <3>1. created[last] \in Nat /\ last \in Nat BY <2>5, ListingAssumption
    <3>2. cursor' \in Nat \X Nat BY <2>4, <3>1
    <3> QED BY <2>4, <2>5, <3>2, ListingAssumption
  <2>7. \A r \in Existing :
           created'[r] < cursor'[1] \/ (created'[r] = cursor'[1] /\ r < cursor'[2]) <=> Precedes(last, r)
    <3>1. \A r \in Existing : Below(r, <<created[last], last>>) <=> Precedes(last, r)
      BY <1>1, <2>3, RowsAreOrdered
    <3>2. created' = created /\ cursor'[1] = created[last] /\ cursor'[2] = last BY <1>2, <2>4
    <3> QED BY <3>1, <3>2 DEF Below
  <2>8. \A r \in Page : ~Precedes(last, r)
    BY <1>1, <1>5, <2>3, RowsAreOrdered
  <2>9. \A r \in Rows : listed'[r] # 0 => r \in Existing /\ ~Precedes(last, r)
    <3> SUFFICES ASSUME NEW r \in Rows, listed'[r] # 0, r \notin Page
                 PROVE  r \in Existing /\ ~Precedes(last, r)
      BY <1>5, <2>8
    <3>1. cursor # NoCursor /\ r \in Existing /\ ~Below(r, cursor) BY <1>1, <1>7 DEF WalksOn
    <3>2. Below(last, cursor) BY <1>5, <2>3, <3>1 DEF Matching
    <3> QED BY <1>1, <2>3, <3>1, <3>2, BelowGoesOn
  <2>10. ASSUME NEW r \in present', ~Precedes(last, r) PROVE listed'[r] = 1
    <3>1. r \in Existing /\ r \in Rows BY <1>2, <1>9 DEF Existing
    <3>2. CASE r \in Matching
      <4>1. r = last \/ Precedes(r, last) BY <1>1, <2>3, <2>10, <3>1, RowsAreOrdered
      <4>2. r \in Page BY <1>a, <1>c, <2>3, <3>2, <4>1
      <4> QED BY <1>7, <3>1, <4>2
    <3>3. CASE r \notin Matching
      BY <1>5, <1>7, <1>10, <3>1, <3>3
    <3> QED BY <3>2, <3>3
  <2>11. WalksOn'
    <3> HIDE DEF Existing
    <3>1. \A r \in Rows : listed'[r] # 0 =>
             r \in Existing' /\ ~(created'[r] < cursor'[1] \/ (created'[r] = cursor'[1] /\ r < cursor'[2]))
      BY <1>2, <2>7, <2>9
    <3>2. \A r \in present' :
             ~(created'[r] < cursor'[1] \/ (created'[r] = cursor'[1] /\ r < cursor'[2])) => listed'[r] = 1
      BY <1>2, <1>9, <2>7, <2>10
    <3> QED BY <2>6, <3>1, <3>2 DEF WalksOn, Below
  <2>12. ListingTypeOK'
    BY <1>1, <1>2, <1>8, <1>9, <2>4, <2>6 DEF ListingTypeOK
  <2> QED BY <1>1, <1>2, <1>8, <2>4, <2>11, <2>12 DEF ListingInv, WalkIsComplete
<1>12. CASE ~HasMore
  <2>1. Cardinality(Fetched) \in Nat BY <1>1, <1>b, FS_Subset, FS_CardinalityType
  <2>2. Page = Matching BY <1>3, <1>12, <1>a, <1>c, <2>1 DEF HasMore
  <2>3. \A r \in present' : r \in Rows /\ listed'[r] = 1
    BY <1>2, <1>7, <1>9, <1>10, <2>2 DEF Existing
  <2>4. cursor' = cursor /\ ~more' BY <1>12 DEF ReadPage
  <2>6. more' \in BOOLEAN BY DEF ReadPage, HasMore
  <2>5. ListingTypeOK'
    BY <1>1, <1>2, <1>8, <1>9, <2>4, <2>6 DEF ListingTypeOK
  <2> QED BY <1>1, <1>2, <1>8, <2>3, <2>4, <2>5 DEF ListingInv, WalkIsComplete
<1> QED BY <1>11, <1>12

LEMMA RestartInv ==
    ASSUME ListingInv, Restart
    PROVE  ListingInv'
<1> USE DEF Restart
<1>1. ListingTypeOK' BY DEF ListingInv, ListingTypeOK, Existing
<1>2. WalksOn' /\ WalkIsComplete' BY DEF ListingInv, WalksOn, WalkIsComplete
<1> QED BY <1>1, <1>2 DEF ListingInv, Existing

LEMMA RegisterInv ==
    ASSUME ListingInv, NEW q \in Rows, NEW t \in 0..MaxClock, Register(q, t)
    PROVE  ListingInv'
<1> USE DEF Register
<1>1. created' \in [Rows -> (0..MaxClock) \cup {NoCursor}] /\ \A r \in Rows : created'[r] = IF r = q THEN t ELSE created[r]
  BY DEF ListingInv, ListingTypeOK
<1>2. t # NoCursor BY ListingAssumption
<1>3. Existing' = Existing \cup {q} /\ q \notin Existing BY <1>1, <1>2 DEF Existing
<1>4. ListingTypeOK' /\ IsFiniteSet(Existing')
  BY <1>1, <1>3, FS_AddElement DEF ListingInv, ListingTypeOK
<1>5. \A r \in Existing : Below(r, cursor)' <=> Below(r, cursor)
  BY <1>1, <1>3 DEF Below, Existing
<1>6. present \subseteq Existing BY DEF ListingInv, ListingTypeOK
<1>7. more => WalksOn'
  BY <1>3, <1>5, <1>6 DEF ListingInv, WalksOn
<1> QED BY <1>4, <1>7 DEF ListingInv, WalkIsComplete

LEMMA ListingNextInv == ListingInv /\ [ListingNext]_listingVars => ListingInv'
<1> SUFFICES ASSUME ListingInv, [ListingNext]_listingVars PROVE ListingInv' OBVIOUS
<1>1. CASE ClockTick
  <2>1. clock' \in 0..MaxClock BY <1>1, ListingAssumption DEF ClockTick, ListingInv, ListingTypeOK
  <2>2. ListingTypeOK' BY <1>1, <2>1 DEF ClockTick, ListingInv, ListingTypeOK, Existing
  <2>3. (more => WalksOn') /\ WalkIsComplete' /\ Existing' = Existing
    BY <1>1 DEF ClockTick, ListingInv, WalksOn, WalkIsComplete, Existing, Below
  <2> QED BY <1>1, <2>2, <2>3 DEF ClockTick, ListingInv
<1>2. CASE UNCHANGED listingVars
  BY <1>2 DEF listingVars, ListingInv, ListingTypeOK, WalksOn, WalkIsComplete, Existing, Below
<1> QED BY <1>1, <1>2, ReadPageInv, RestartInv, RegisterInv DEF ListingNext, ListServers

\* However many servers are registered during a walk, wherever their ids fall and however long
\* the pages are: no server is listed twice, and every one that was there from the start is.
THEOREM WalksAreComplete == ListingSpec => []WalkIsComplete
<1>1. ListingInv => WalkIsComplete BY DEF ListingInv
<1> QED BY <1>1, ListingInitInv, ListingNextInv, PTL DEF ListingSpec

\* The table and the reader keep their types.
THEOREM ListingTypesHold == ListingSpec => []ListingTypeOK
<1>1. ListingInv => ListingTypeOK BY DEF ListingInv
<1> QED BY <1>1, ListingInitInv, ListingNextInv, PTL DEF ListingSpec
------------------------------------------------------------------------------
(***************************************************************************)
(* The registry as a whole.                                                *)
(***************************************************************************)
LEMMA HealthStep == HealthTypeOK /\ [HealthNext]_healthVars => HealthTypeOK'
<1> SUFFICES ASSUME HealthTypeOK, [HealthNext]_healthVars PROVE HealthTypeOK' OBVIOUS
<1> USE DEF HealthTypeOK
<1>1. ASSUME NEW u \in Updates, NEW s \in Statuses, UpdateLoad(u, s) PROVE HealthTypeOK'
  BY <1>1 DEF UpdateLoad
<1>2. ASSUME NEW u \in Updates, UpdateCommit(u) PROVE HealthTypeOK'
  BY <1>2 DEF UpdateCommit, Busy
<1>3. ASSUME NEW u \in Updates, UpdateCache(u) PROVE HealthTypeOK'
  BY <1>3, HealthAssumption DEF UpdateCache, Busy, Fresh
<1>4. ASSUME NEW u \in Updates, UpdateFails(u) PROVE HealthTypeOK'
  BY <1>4 DEF UpdateFails
<1>5. ASSUME NEW s \in Statuses, InspectSaves(s) PROVE HealthTypeOK'
  BY <1>5 DEF InspectSaves
<1>6. CASE KeyAges
  BY <1>6, HealthAssumption DEF KeyAges
<1>7. CASE UNCHANGED healthVars
  BY <1>7 DEF healthVars
<1> QED BY <1>1, <1>2, <1>3, <1>4, <1>5, <1>6, <1>7 DEF HealthNext

\* Every part of the registry keeps its types whatever the others do.
THEOREM RegistryTypesHold == RegistrySpec => []RegistryTypeOK
<1> DEFINE Inv == IInv /\ HealthTypeOK /\ ListingInv
<1>1. RegistryInit => Inv
  <2>1. HealthInit => HealthTypeOK BY HealthAssumption DEF HealthInit, HealthTypeOK
  <2> QED BY <2>1, InitInv, ListingInitInv DEF RegistryInit
<1>2. Inv /\ [RegistryNext]_registryVars => Inv'
  <2>1. [RegistryNext]_registryVars =>
          [DecommissionNext]_decommissionVars /\ [HealthNext]_healthVars /\ [ListingNext]_listingVars
    BY DEF RegistryNext, registryVars, Part
  <2> QED BY <2>1, NextInv, HealthStep, ListingNextInv
<1>3. Inv => RegistryTypeOK BY DEF IInv, ListingInv, RegistryTypeOK
<1> QED BY <1>1, <1>2, <1>3, PTL DEF RegistrySpec
==============================================================================
