-------------------------- MODULE MappingLifecycle --------------------------
(***************************************************************************)
(* The life of a capability mapping: created, taken out of routing when a  *)
(* re-inspection finds its tool drifted or its server gone, and put back,  *)
(* or retired, by an administrator.                                        *)
(*                                                                         *)
(* Every operation is an HTTP request with a database session of its own:  *)
(* it SELECTs, awaits (the MCP server, the database), computes on what it  *)
(* loaded and COMMITs.  A request is therefore a record in  req  and one   *)
(* action per stretch between two awaits that other requests can observe.  *)
(* A commit UPDATEs, by primary key alone, only those columns whose value  *)
(* differs from the one loaded (SaveMapping, SaveTool).                    *)
(***************************************************************************)
EXTENDS ToolSchema, Naturals, FiniteSets

CONSTANTS
  Servers,       \* registered MCP servers
  Capabilities,  \* normalized capabilities
  Listings,      \* what an MCP server may answer to tools/list
  Handlers,      \* requests that may be in progress at the same time
  RowIds,        \* tell a tool's successive server_tools rows apart
  MaxReviews     \* bound: no administrator acts once this many reviews differ

ToolRow == [id          : RowIds,
            description : Descriptions,
            input       : InputSchema,
            output      : Outputs \cup {None}]

LimboStatuses      == {"stale", "pending_review", "stale-unverified"}
Statuses           == LimboStatuses \cup {"active", "rejected"}
UnreachableClasses == {"unreachable", "timeout"}
CriticalClasses    == {"drifted", "schema_mismatch"}
FailureClasses     == UnreachableClasses \cup CriticalClasses

\* The unique key of capability_mappings.
Mappings == [capability : Capabilities, server : Servers, tool : ToolNames]

Row == [status        : Statuses,
        failure_class : FailureClasses \cup {None},
        pending       : BOOLEAN,              \* pending_since is not NULL
        digest        : SchemaDigest]

Review == [mapping    : Mappings,
           decision   : {"approved", "rejected"},
           new_digest : SchemaDigest]

Version == [server   : Servers,
            tool     : ToolNames,
            digest   : SchemaDigest,
            breaking : BOOLEAN]

HealthStatuses == {"unknown", "reachable", "unreachable"}

\* A session's copy of the mappings its SELECT returned.
Held == [Mappings -> Row \cup {None}]

ToolTable == [ToolNames -> ToolRow \cup {None}]
Listing   == [ToolNames -> ToolDef \cup {None}]

Idle == [op |-> "idle"]

Request ==
       [op : {"idle"}]
  \cup [op : {"inspect_loaded"}, server : Servers, tools : ToolTable,
        health : HealthStatuses]
  \cup [op : {"inspect_flushed"}, server : Servers, tools : ToolTable,
        health : HealthStatuses, found : Listing, held : Held]
  \cup [op : {"inspect_failed"}, server : Servers, health : HealthStatuses,
        failure : UnreachableClasses, held : Held]
  \cup [op : {"create_read"}, mapping : Mappings, digest : SchemaDigest]
  \cup [op : {"create_checked"}, mapping : Mappings, digest : SchemaDigest,
        collides : BOOLEAN]
  \cup [op : {"approve_loaded"}, mapping : Mappings, row : Row]
  \cup [op : {"review_decided"}, mapping : Mappings, row : Row, new : Row,
        decision : {"approved", "rejected"}]
  \cup [op : {"retire_selected"}, held : Held]

ASSUME NoneIsNull ==
  /\ None \notin ToolDef
  /\ None \notin ToolRow
  /\ None \notin Row
  /\ None \notin FailureClasses

ASSUME ListingsOK == Listings \subseteq Listing

ASSUME RowIdsOK == RowIds # {}

VARIABLES
  tools,     \* server_tools
  health,    \* mcp_servers.health_status
  rows,      \* capability_mappings
  reviews,   \* mapping_reviews
  versions,  \* tool_versions
  req,       \* the requests in progress
  origin     \* history: the digest a mapping was created with

vars == <<tools, health, rows, reviews, versions, req, origin>>

----------------------------------------------------------------------------
(* What a flush writes.                                                    *)

Column(loaded, new, stored) == IF new = loaded THEN stored ELSE new

\* pending_since is only ever set to the present instant, which differs from
\* whatever was loaded, so a clock that is set is always written.
SaveMapping(loaded, new, stored) ==
  [status        |-> Column(loaded.status, new.status, stored.status),
   failure_class |-> Column(loaded.failure_class, new.failure_class,
                            stored.failure_class),
   pending       |-> \/ new.pending
                     \/ ~loaded.pending /\ stored.pending,
   digest        |-> Column(loaded.digest, new.digest, stored.digest)]

SaveTool(loaded, new, stored) ==
  [id          |-> stored.id,
   description |-> Column(loaded.description, new.description,
                          stored.description),
   input       |-> Column(loaded.input, new.input, stored.input),
   output      |-> Column(loaded.output, new.output, stored.output)]

SaveHealth(r, status) ==
  health' = [health EXCEPT ![r.server] = Column(r.health, status, @)]

FirstId == CHOOSE id \in RowIds : TRUE

NewToolRow(id, def) == [id |-> id, description |-> def.description,
                        input |-> def.input, output |-> def.output]

MarkStaleNoClass(row, status, class) ==
  [row EXCEPT !.status = status, !.pending = TRUE]
MarkStaleNoClock(row, status, class) ==
  [row EXCEPT !.status = status, !.failure_class = class]

\* A mapping leaves routing: status, class and clock together.
MarkStale(row, status, class) ==
  [row EXCEPT !.status = status, !.failure_class = class, !.pending = TRUE]

\* Plausible slips: a status no reader knows; back to service instead of out.
RetiredAsRetired(row) == [row EXCEPT !.status = "retired", !.pending = FALSE]
RetiredAsActive(row) == [row EXCEPT !.status = "active", !.pending = FALSE]
Retired(row) == [row EXCEPT !.status = "rejected", !.pending = FALSE]

\* The held mappings, changed by  op , saved over the stored ones.
SaveHeld(held, Op(_)) ==
  [m \in Mappings |-> IF held[m] = None THEN rows[m]
                      ELSE SaveMapping(held[m], Op(held[m]), rows[m])]

Select(Where(_)) ==
  [m \in Mappings |-> IF rows[m] # None /\ Where(m) THEN rows[m] ELSE None]

----------------------------------------------------------------------------
(* What select_server will route to.                                       *)

Routable(m) ==
  /\ rows[m] # None
  /\ rows[m].status = "active"
  /\ tools[m.server][m.tool] # None
  /\ rows[m].digest = ToolDigest(m.tool, tools[m.server][m.tool])

----------------------------------------------------------------------------
Init ==
  /\ \E listing \in [Servers -> Listings] :
       tools = [s \in Servers |-> [t \in ToolNames |->
                  IF listing[s][t] = None THEN None
                  ELSE NewToolRow(FirstId, listing[s][t])]]
  /\ health = [s \in Servers |-> "unknown"]
  /\ rows = [m \in Mappings |-> None]
  /\ reviews = {}
  /\ versions = {}
  /\ req = [h \in Handlers |-> Idle]
  /\ origin = [m \in Mappings |-> None]

Become(h, r) == req' = [req EXCEPT ![h] = r]

----------------------------------------------------------------------------
(* RegistryService.inspect                                                 *)

InspectLoad(h, s) ==
  /\ req[h] = Idle
  /\ Become(h, [op |-> "inspect_loaded", server |-> s, tools |-> tools[s],
                health |-> health[s]])
  /\ UNCHANGED <<tools, health, rows, reviews, versions, origin>>

ActiveOnNeverFailed(m, s) ==
  m.server = s /\ rows[m].status = "active" /\ rows[m].failure_class = None
ActiveOn(m, s) == m.server = s /\ rows[m].status = "active"

\* list_tools raises: no answer in time, or any other MCPError.
InspectUnreachable(h) ==
  /\ req[h].op = "inspect_loaded"
  /\ \E failure \in UnreachableClasses :
       Become(h, [op      |-> "inspect_failed",
                  server  |-> req[h].server,
                  health  |-> req[h].health,
                  failure |-> failure,
                  held    |-> Select(LAMBDA m : ActiveOn(m, req[h].server))])
  /\ UNCHANGED <<tools, health, rows, reviews, versions, origin>>

\* list_tools raises something else (a connection that breaks off, a body that
\* is not JSON), which nothing catches: the request ends with a 500.
InspectAbort(h) ==
  /\ req[h].op = "inspect_loaded"
  /\ Become(h, Idle)
  /\ UNCHANGED <<tools, health, rows, reviews, versions, origin>>

InspectFailCommit(h) ==
  /\ req[h].op = "inspect_failed"
  /\ rows' = SaveHeld(req[h].held,
               LAMBDA row : MarkStale(row, "stale-unverified", req[h].failure))
  /\ SaveHealth(req[h], "unreachable")
  /\ Become(h, Idle)
  /\ UNCHANGED <<tools, reviews, versions, origin>>

Added(r)   == {t \in ToolNames : r.tools[t] = None /\ r.found[t] # None}
Removed(r) == {t \in ToolNames : r.tools[t] # None /\ r.found[t] = None}
Changed(r) == {t \in ToolNames : /\ r.tools[t] # None
                                 /\ r.found[t] # None
                                 /\ IsChanged(r.tools[t], r.found[t])}
Affected(r) == Removed(r) \cup Changed(r)
Written(r)  == Added(r) \cup Affected(r)

\* Rows this request would write are locked by another's open transaction.
Blocked(h, r) ==
  \E g \in Handlers \ {h} :
    /\ req[g].op = "inspect_flushed"
    /\ req[g].server = r.server
    /\ Written(req[g]) \cap Written(r) # {}

\* The row it loaded is still there (a DELETE that finds none only warns).
StillThere(r, t) ==
  /\ tools[r.server][t] # None
  /\ tools[r.server][t].id = r.tools[t].id

\* IntegrityError on an INSERT, StaleDataError on an UPDATE of no row.
FlushFails(r) ==
  \/ \E t \in Added(r) : tools[r.server][t] # None
  \/ \E t \in Changed(r) : ~StillThere(r, t)

\* The request with the answer of list_tools.
Answered(h, found) == [op     |-> "inspect_flushed",
                       server |-> req[h].server,
                       tools  |-> req[h].tools,
                       health |-> req[h].health,
                       found  |-> found,
                       held   |-> [m \in Mappings |-> None]]

\* list_tools answers with whatever the server offers by now, the session
\* flushes its changes to server_tools, which locks those rows, and SELECTs the
\* active mappings of the affected tools.
InspectFlush(h) ==
  /\ req[h].op = "inspect_loaded"
  /\ \E found \in Listings :
       LET r == Answered(h, found) IN
       /\ ~Blocked(h, r)
       /\ ~FlushFails(r)
       /\ Become(h, [r EXCEPT !.held =
                       Select(LAMBDA m : /\ ActiveOn(m, r.server)
                                         /\ m.tool \in Affected(r))])
  /\ UNCHANGED <<tools, health, rows, reviews, versions, origin>>

InspectRollback(h) ==
  /\ req[h].op = "inspect_loaded"
  /\ \E found \in Listings : /\ ~Blocked(h, Answered(h, found))
                             /\ FlushFails(Answered(h, found))
  /\ Become(h, Idle)
  /\ UNCHANGED <<tools, health, rows, reviews, versions, origin>>

\* No session of an inspection still holds this primary key for an added tool.
Unused(id, r) ==
  \A g \in Handlers, t \in Added(r) :
    /\ req[g].op \in {"inspect_loaded", "inspect_flushed"}
    /\ req[g].server = r.server
    /\ req[g].tools[t] # None
    => req[g].tools[t].id # id

SavedTools(r, id) ==
  [t \in ToolNames |->
     CASE t \in Added(r)   -> NewToolRow(id, r.found[t])
       [] t \in Changed(r) -> SaveTool(r.tools[t], r.found[t],
                                       tools[r.server][t])
       [] t \in Removed(r) -> IF StillThere(r, t) THEN None
                              ELSE tools[r.server][t]
       [] OTHER            -> tools[r.server][t]]

\* A plausible slip: the version row records the schema just found.
NewVersionsOfFound(r) ==
  {[server |-> r.server, tool |-> t, digest |-> ToolDigest(t, r.found[t]),
    breaking |-> IsBreaking(r.tools[t], r.found[t])] : t \in Changed(r)}

\* The schema that is about to be overwritten or deleted.
NewVersions(r) ==
  {[server   |-> r.server,
    tool     |-> t,
    digest   |-> ToolDigest(t, r.tools[t]),
    breaking |-> t \in Removed(r) \/ IsBreaking(r.tools[t], r.found[t])] :
      t \in Affected(r)}

InspectCommit(h) ==
  /\ req[h].op = "inspect_flushed"
  /\ \E id \in RowIds :
       /\ Unused(id, req[h])
       /\ tools' = [tools EXCEPT ![req[h].server] = SavedTools(req[h], id)]
  /\ versions' = versions \cup NewVersions(req[h])
  /\ rows' = SaveHeld(req[h].held,
               LAMBDA row : MarkStale(row, "stale", "drifted"))
  /\ SaveHealth(req[h], "reachable")
  /\ Become(h, Idle)
  /\ UNCHANGED <<reviews, origin>>

----------------------------------------------------------------------------
(* CapabilityService.create_mapping                                        *)

CreateRead(h, m) ==
  /\ req[h] = Idle
  /\ tools[m.server][m.tool] # None
  /\ Become(h, [op      |-> "create_read",
                mapping |-> m,
                digest  |-> ToolDigest(m.tool, tools[m.server][m.tool])])
  /\ UNCHANGED <<tools, health, rows, reviews, versions, origin>>

CollidesAcrossServers(m) ==
  \E n \in Mappings : /\ rows[n] # None
                      /\ n.capability = m.capability
                      /\ n.tool # m.tool
                      /\ n.server # m.server
\* Another tool already stands for this capability.
Collides(m) ==
  \E n \in Mappings : /\ rows[n] # None
                      /\ n.capability = m.capability
                      /\ n.tool # m.tool

CreateCheck(h) ==
  /\ req[h].op = "create_read"
  /\ Become(h, [op       |-> "create_checked",
                mapping  |-> req[h].mapping,
                digest   |-> req[h].digest,
                collides |-> Collides(req[h].mapping)])
  /\ UNCHANGED <<tools, health, rows, reviews, versions, origin>>

NewMapping(collides, digest) ==
  [status        |-> IF collides THEN "pending_review" ELSE "active",
   failure_class |-> IF collides THEN "schema_mismatch" ELSE None,
   pending       |-> collides,
   digest        |-> digest]

CreateInsert(h) ==
  LET m == req[h].mapping IN
  /\ req[h].op = "create_checked"
  /\ rows[m] = None
  /\ rows' = [rows EXCEPT ![m] = NewMapping(req[h].collides, req[h].digest)]
  /\ origin' = [origin EXCEPT ![m] = req[h].digest]
  /\ Become(h, Idle)
  /\ UNCHANGED <<tools, health, reviews, versions>>

\* The unique index on (capability, server, tool) refuses the row.
CreateConflict(h) ==
  /\ req[h].op = "create_checked"
  /\ rows[req[h].mapping] # None
  /\ Become(h, Idle)
  /\ UNCHANGED <<tools, health, rows, reviews, versions, origin>>

----------------------------------------------------------------------------
(* CapabilityService.review_mapping and bulk_retire                        *)

WithinBound == Cardinality(reviews) < MaxReviews

\* The status the mapping has now is not looked at.
ReviewReject(h, m) ==
  /\ req[h] = Idle
  /\ WithinBound
  /\ rows[m] # None
  /\ Become(h, [op       |-> "review_decided",
                mapping  |-> m,
                row      |-> rows[m],
                new      |-> Retired(rows[m]),
                decision |-> "rejected"])
  /\ UNCHANGED <<tools, health, rows, reviews, versions, origin>>

ReviewApprove(h, m) ==
  /\ req[h] = Idle
  /\ WithinBound
  /\ rows[m] # None
  /\ Become(h, [op |-> "approve_loaded", mapping |-> m, row |-> rows[m]])
  /\ UNCHANGED <<tools, health, rows, reviews, versions, origin>>

\* A tool that is gone leaves the digest as it was.
Approved(row, m) ==
  LET tool == tools[m.server][m.tool]
  IN  [row EXCEPT !.status  = "active",
                  !.pending = FALSE,
                  !.digest  = IF tool = None THEN @
                              ELSE ToolDigest(m.tool, tool)]

ReviewReadTool(h) ==
  /\ req[h].op = "approve_loaded"
  /\ Become(h, [op       |-> "review_decided",
                mapping  |-> req[h].mapping,
                row      |-> req[h].row,
                new      |-> Approved(req[h].row, req[h].mapping),
                decision |-> "approved"])
  /\ UNCHANGED <<tools, health, rows, reviews, versions, origin>>

ReviewOfOldDigest(r) == [mapping    |-> r.mapping,
                         decision   |-> r.decision,
                         new_digest |-> r.row.digest]
ReviewOf(r) == [mapping    |-> r.mapping,
                decision   |-> r.decision,
                new_digest |-> r.new.digest]

ReviewCommit(h) ==
  LET m == req[h].mapping IN
  /\ req[h].op = "review_decided"
  /\ rows' = [rows EXCEPT ![m] = SaveMapping(req[h].row, req[h].new, rows[m])]
  /\ reviews' = reviews \cup {ReviewOf(req[h])}
  /\ Become(h, Idle)
  /\ UNCHANGED <<tools, health, versions, origin>>

\* By class, by explicit ids, or both: a request with neither is refused.
RetireSelect(h, class, ids) ==
  /\ req[h] = Idle
  /\ WithinBound
  /\ class # None \/ ids # {}
  /\ LET Matches(m) == /\ rows[m].status \in LimboStatuses
                       /\ class # None => rows[m].failure_class = class
                       /\ ids # {} => m \in ids
     IN  Become(h, [op |-> "retire_selected", held |-> Select(Matches)])
  /\ UNCHANGED <<tools, health, rows, reviews, versions, origin>>

RetireCommit(h) ==
  LET held == req[h].held IN
  /\ req[h].op = "retire_selected"
  /\ rows' = SaveHeld(held, Retired)
  /\ reviews' = reviews \cup
       {[mapping |-> m, decision |-> "rejected",
         new_digest |-> held[m].digest] : m \in {n \in Mappings : held[n] # None}}
  /\ Become(h, Idle)
  /\ UNCHANGED <<tools, health, versions, origin>>

----------------------------------------------------------------------------
Inspect(h) ==
  \/ \E s \in Servers : InspectLoad(h, s)
  \/ InspectUnreachable(h)
  \/ InspectAbort(h)
  \/ InspectFailCommit(h)
  \/ InspectFlush(h)
  \/ InspectRollback(h)
  \/ InspectCommit(h)

Create(h) ==
  \/ \E m \in Mappings : CreateRead(h, m)
  \/ CreateCheck(h)
  \/ CreateInsert(h)
  \/ CreateConflict(h)

Administer(h) ==
  \/ \E m \in Mappings : ReviewReject(h, m) \/ ReviewApprove(h, m)
  \/ ReviewReadTool(h)
  \/ ReviewCommit(h)
  \/ \E class \in FailureClasses \cup {None}, ids \in SUBSET Mappings :
       RetireSelect(h, class, ids)
  \/ RetireCommit(h)

Next ==
  \/ \E h \in Handlers : Inspect(h) \/ Create(h) \/ Administer(h)

Spec == Init /\ [][Next]_vars

----------------------------------------------------------------------------
(* Properties that no interleaving of requests may break                   *)

\* Every variable has its type.
TypeOK ==
  /\ tools \in [Servers -> ToolTable]
  /\ health \in [Servers -> HealthStatuses]
  /\ rows \in [Mappings -> Row \cup {None}]
  /\ reviews \subseteq Review
  /\ versions \subseteq Version
  /\ req \in [Handlers -> Request]
  /\ origin \in [Mappings -> SchemaDigest \cup {None}]

\* A mapping in the review queue says why it is there (models/server.py:227):
\* the two halves of the queue, critical and unreachable, leave none out.
LimboHasClass ==
  \A m \in Mappings :
    rows[m] # None /\ rows[m].status \in LimboStatuses
      => rows[m].failure_class # None

\* A mapping that has ever been in limbo (its class is never erased) serves
\* traffic only if the audit trail holds an approval of it, whatever requests
\* overlapped on the way (models/server.py:261-271, MappingReview).
LimboLeftByApproval ==
  \A m \in Mappings :
    rows[m] # None /\ rows[m].status = "active" /\ rows[m].failure_class # None
      => \E r \in reviews : r.mapping = m /\ r.decision = "approved"

\* The schema a mapping stands for was accepted by somebody: it is the one the
\* mapping was created with or the new digest of an approving review
\* (capability_service.review_mapping writes both in one transaction).
DigestOnRecord ==
  \A m \in Mappings :
    rows[m] # None =>
      \/ rows[m].digest = origin[m]
      \/ \E r \in reviews : /\ r.mapping = m
                            /\ r.decision = "approved"
                            /\ r.new_digest = rows[m].digest

\* What a request knows about the mappings it holds: they exist, their class is
\* not erased under it, an inspection holds live ones only, a bulk retirement
\* ones in limbo, and a decision changes nothing but status, clock and (when it
\* approves) digest.
Behind(loaded, m) ==
  /\ rows[m] # None
  /\ loaded.failure_class # None => rows[m].failure_class # None

SessionOK(r) ==
  /\ r.op \in {"inspect_failed", "inspect_flushed", "retire_selected"} =>
       \A m \in Mappings : r.held[m] # None => Behind(r.held[m], m)
  /\ r.op \in {"inspect_failed", "inspect_flushed"} =>
       \A m \in Mappings : r.held[m] # None => r.held[m].status = "active"
  /\ r.op = "retire_selected" =>
       \A m \in Mappings : r.held[m] # None => r.held[m].status \in LimboStatuses
  /\ r.op \in {"approve_loaded", "review_decided"} => Behind(r.row, r.mapping)
  /\ r.op = "review_decided" =>
       /\ r.new.failure_class = r.row.failure_class
       /\ \/ r.decision = "approved" /\ r.new.status = "active"
          \/ /\ r.decision = "rejected"
             /\ r.new.status = "rejected"
             /\ r.new.digest = r.row.digest

Sessions == \A h \in Handlers : SessionOK(req[h])

\* What an inspection has flushed it can commit: its rows are locked, so nobody
\* else has written them and they are as they were when it flushed.
RowLocks ==
  \A h \in Handlers : req[h].op = "inspect_flushed" =>
    ~Blocked(h, req[h]) /\ ~FlushFails(req[h])

\* Inductive: the three properties above, what the sessions know and the locks.
IInv ==
  /\ TypeOK
  /\ LimboHasClass
  /\ LimboLeftByApproval
  /\ DigestOnRecord
  /\ Sessions
  /\ RowLocks

----------------------------------------------------------------------------
(* Properties of requests that do not overlap (one handler)                *)

\* Limbo is time-boxed: a clock runs exactly while a mapping waits for review,
\* so get_overdue_reviews can find it (models/server.py:224-225).
LimboTimeBoxed ==
  \A m \in Mappings :
    rows[m] # None => (rows[m].pending <=> rows[m].status \in LimboStatuses)

\* Two different tools serve one capability only if an administrator approved
\* one of them: a collision is not routable before (create_mapping, #441).
CollisionGate ==
  \A m, n \in Mappings :
    /\ m.capability = n.capability /\ m.tool # n.tool
    /\ rows[m] # None /\ rows[m].status = "active"
    /\ rows[n] # None /\ rows[n].status = "active"
    => \E r \in reviews : r.mapping \in {m, n} /\ r.decision = "approved"

\* Every schema a mapping was ever accepted with can still be looked up: it is
\* the tool's present one or a tool_versions row holds it (ToolVersion,
\* models/server.py:128-138).
SchemaOnRecord ==
  \A m \in Mappings :
    \A d \in {origin[m]} \cup {r.new_digest : r \in {x \in reviews : x.mapping = m}} :
      d # None =>
        \/ /\ tools[m.server][m.tool] # None
           /\ ToolDigest(m.tool, tools[m.server][m.tool]) = d
        \/ \E v \in versions : v.server = m.server /\ v.digest = d

InspectSucceeds(h) == req[h].op = "inspect_flushed" /\ req'[h] = Idle
InspectFails(h)    == req[h].op = "inspect_failed" /\ req'[h] = Idle

\* Drift detection: once an inspection has returned, the fabric routes to no
\* tool of that server under a schema other than the one it just saw
\* (registry_service.inspect; capability_service:207-209).
DriftDetected ==
  [][\A h \in Handlers : InspectSucceeds(h) =>
       \A m \in Mappings :
         m.server = req[h].server /\ Routable(m)' =>
           /\ req[h].found[m.tool] # None
           /\ rows'[m].digest = ToolDigest(m.tool, req[h].found[m.tool])]_vars

\* Fail closed (#444): after an inspection that could not reach the server, no
\* mapping to it is live, however often it has failed and been approved before.
FailClosed ==
  [][\A h \in Handlers : InspectFails(h) =>
       \A m \in Mappings :
         m.server = req[h].server /\ rows[m] # None =>
           rows'[m].status # "active"]_vars

----------------------------------------------------------------------------
(* The promise this implements                                             *)

GateOf(m) ==
  IF rows[m] = None THEN "absent"
  ELSE IF rows[m].status = "active" THEN "routed"
  ELSE IF rows[m].status = "rejected" THEN "retired"
  ELSE "held"

ApprovedMappings == {r.mapping : r \in {x \in reviews : x.decision = "approved"}}

Gate == INSTANCE ReviewGate WITH
          Items    <- Mappings,
          gate     <- [m \in Mappings |-> GateOf(m)],
          approved <- ApprovedMappings

\* Whatever requests overlap, the mappings pass the gate as promised: every step
\* that puts a mapping back in routing is an approval that is recorded with it
\* (capability_service.review_mapping, bulk_retire; registry_service.inspect).
ImplementsGate == Gate!Spec
=============================================================================
