----------------------- MODULE MappingLifecycleProofs -----------------------
(***************************************************************************)
(* What holds of MappingLifecycle for every number of servers, tools,      *)
(* capabilities and overlapping requests.                                  *)
(***************************************************************************)
EXTENDS MappingLifecycle, TLAPS

\* The fields of a request in progress, by operation.
LEMMA RequestFields ==
  ASSUME NEW r \in Request
  PROVE  /\ r.op \in {"inspect_loaded", "inspect_flushed", "inspect_failed"} =>
              r.server \in Servers
         /\ r.op \in {"inspect_loaded", "inspect_flushed"} =>
              r.tools \in ToolTable
         /\ r.op \in {"inspect_loaded", "inspect_flushed", "inspect_failed"} =>
              r.health \in HealthStatuses
         /\ r.op = "inspect_flushed" => r.found \in Listing
         /\ r.op = "inspect_failed" => r.failure \in UnreachableClasses
         /\ r.op \in {"inspect_failed", "inspect_flushed", "retire_selected"} =>
              r.held \in Held
         /\ r.op \in {"create_read", "create_checked"} =>
              r.mapping \in Mappings /\ r.digest \in SchemaDigest
         /\ r.op = "create_checked" => r.collides \in BOOLEAN
         /\ r.op \in {"approve_loaded", "review_decided"} =>
              r.mapping \in Mappings /\ r.row \in Row
         /\ r.op = "review_decided" =>
              r.new \in Row /\ r.decision \in {"approved", "rejected"}
  BY DEF Request

LEMMA SaveMappingType ==
  ASSUME NEW l \in Row, NEW n \in Row, NEW s \in Row
  PROVE  SaveMapping(l, n, s) \in Row
  BY DEF SaveMapping, Column, Row

LEMMA MarkStaleType ==
  ASSUME NEW row \in Row, NEW status \in Statuses, NEW class \in FailureClasses
  PROVE  MarkStale(row, status, class) \in Row
  BY DEF MarkStale, Row

LEMMA RetiredType ==
  ASSUME NEW row \in Row
  PROVE  Retired(row) \in Row
  BY DEF Retired, Row, Statuses

LEMMA DigestType ==
  ASSUME NEW name \in ToolNames, NEW def \in ToolRow \cup ToolDef
  PROVE  ToolDigest(name, def) \in SchemaDigest
  BY DEF ToolDigest, SchemaDigest, ToolRow, ToolDef

LEMMA MappingFields ==
  ASSUME NEW m \in Mappings
  PROVE  m.capability \in Capabilities /\ m.server \in Servers /\ m.tool \in ToolNames
  BY DEF Mappings

LEMMA HealthType ==
  ASSUME TypeOK, NEW h \in Handlers,
         req[h].op \in {"inspect_flushed", "inspect_failed"},
         NEW status \in HealthStatuses, SaveHealth(req[h], status)
  PROVE  health' \in [Servers -> HealthStatuses]
<1>1. req[h].server \in Servers /\ req[h].health \in HealthStatuses
  BY RequestFields DEF TypeOK
<1> QED
  BY <1>1 DEF TypeOK, SaveHealth, Column

LEMMA InitTypeOK == Init => TypeOK
<1> SUFFICES ASSUME Init PROVE TypeOK
  OBVIOUS
<1> PICK listing \in [Servers -> Listings] :
      tools = [s \in Servers |-> [t \in ToolNames |->
                 IF listing[s][t] = None THEN None
                 ELSE NewToolRow(FirstId, listing[s][t])]]
  BY DEF Init
<1>1. FirstId \in RowIds
  BY RowIdsOK DEF FirstId
<1>2. \A s \in Servers, t \in ToolNames : listing[s][t] \in ToolDef \cup {None}
  BY ListingsOK DEF Listing
<1>3. tools \in [Servers -> ToolTable]
  BY <1>1, <1>2 DEF ToolTable, NewToolRow, ToolRow, ToolDef
<1>4. req \in [Handlers -> Request]
  BY DEF Init, Idle, Request
<1> QED
  BY <1>3, <1>4 DEF Init, TypeOK, HealthStatuses

----------------------------------------------------------------------------
(* Types                                                                   *)

LEMMA BecomeType ==
  ASSUME TypeOK, NEW h \in Handlers, NEW r \in Request, Become(h, r)
  PROVE  req' \in [Handlers -> Request]
  BY DEF TypeOK, Become

LEMMA IdleType == Idle \in Request
  BY DEF Idle, Request

----------------------------------------------------------------------------
(* Steps that only load                                                    *)

LEMMA ReadStep ==
  ASSUME IInv, NEW h \in Handlers, NEW r \in Request, SessionOK(r),
         r.op = "inspect_flushed" => ~Blocked(h, r) /\ ~FlushFails(r),
         Become(h, r),
         UNCHANGED <<tools, health, rows, reviews, versions, origin>>
  PROVE  IInv'
<1>1. TypeOK'
  BY BecomeType DEF IInv, TypeOK
<1>2. LimboHasClass' /\ LimboLeftByApproval' /\ DigestOnRecord'
  BY DEF IInv, LimboHasClass, LimboLeftByApproval, DigestOnRecord
<1>3. Sessions'
  <2> SUFFICES ASSUME NEW g \in Handlers PROVE SessionOK(req'[g])
    BY DEF Sessions, SessionOK, Behind
  <2>1. req'[g] = r \/ req'[g] = req[g]
    BY DEF Become, IInv, TypeOK
  <2> QED
    BY <2>1 DEF IInv, Sessions
<1>4. RowLocks'
  <2>1. \A g \in Handlers : req'[g] = IF g = h THEN r ELSE req[g]
    BY DEF Become, IInv, TypeOK
  <2> QED
    BY <2>1 DEF RowLocks, Blocked, FlushFails, StillThere, IInv
<1> QED
  BY <1>1, <1>2, <1>3, <1>4 DEF IInv

LEMMA InspectLoadStep ==
  ASSUME IInv, NEW h \in Handlers, NEW srv \in Servers, InspectLoad(h, srv)
  PROVE  IInv'
<1> DEFINE r == [op |-> "inspect_loaded", server |-> srv, tools |-> tools[srv],
                 health |-> health[srv]]
<1>1. r \in Request
  BY DEF Request, IInv, TypeOK
<1>2. SessionOK(r)
  BY DEF SessionOK
<1> HIDE DEF r
<1> QED
  BY <1>1, <1>2, ReadStep DEF InspectLoad, r

LEMMA InspectUnreachableStep ==
  ASSUME IInv, NEW h \in Handlers, InspectUnreachable(h)
  PROVE  IInv'
<1> DEFINE held == Select(LAMBDA m : ActiveOn(m, req[h].server))
<1> PICK failure \in UnreachableClasses :
      Become(h, [op |-> "inspect_failed", server |-> req[h].server,
                 health |-> req[h].health, failure |-> failure, held |-> held])
  BY DEF InspectUnreachable
<1> DEFINE r == [op |-> "inspect_failed", server |-> req[h].server,
                 health |-> req[h].health, failure |-> failure, held |-> held]
<1>1. held \in Held
  BY DEF Select, Held, IInv, TypeOK
<1>2. \A m \in Mappings : held[m] # None =>
        Behind(held[m], m) /\ held[m].status = "active"
  BY DEF Select, Behind, ActiveOn
<1> HIDE DEF held
<1>3. req[h].server \in Servers /\ req[h].health \in HealthStatuses
  BY RequestFields DEF InspectUnreachable, IInv, TypeOK
<1>4. r \in Request
  BY <1>1, <1>3 DEF Request
<1>5. SessionOK(r)
  BY <1>2 DEF SessionOK
<1> HIDE DEF r
<1> QED
  BY <1>4, <1>5, ReadStep DEF InspectUnreachable, r

LEMMA InspectFlushStep ==
  ASSUME IInv, NEW h \in Handlers, InspectFlush(h)
  PROVE  IInv'
<1> PICK found \in Listings :
      /\ ~Blocked(h, Answered(h, found))
      /\ ~FlushFails(Answered(h, found))
      /\ Become(h, [Answered(h, found) EXCEPT !.held =
                   Select(LAMBDA m : /\ ActiveOn(m, Answered(h, found).server)
                                     /\ m.tool \in Affected(Answered(h, found)))])
  BY DEF InspectFlush
<1> DEFINE held == Select(LAMBDA m : /\ ActiveOn(m, Answered(h, found).server)
                                     /\ m.tool \in Affected(Answered(h, found)))
           r    == [op |-> "inspect_flushed", server |-> req[h].server,
                    tools |-> req[h].tools, health |-> req[h].health, found |-> found, held |-> held]
<1>1. held \in Held
  BY DEF Select, Held, IInv, TypeOK
<1>2. \A m \in Mappings : held[m] # None =>
        Behind(held[m], m) /\ held[m].status = "active"
  BY DEF Select, Behind, ActiveOn
<1> HIDE DEF held
<1>3. /\ req[h].server \in Servers /\ req[h].health \in HealthStatuses
      /\ req[h].tools \in ToolTable /\ found \in Listing
  BY RequestFields, ListingsOK DEF InspectFlush, IInv, TypeOK
<1>4. r \in Request
  BY <1>1, <1>3 DEF Request
<1>5. SessionOK(r)
  BY <1>2 DEF SessionOK
<1>6. Become(h, r)
  BY DEF Answered, held
<1>7. ~Blocked(h, r) /\ ~FlushFails(r)
  BY DEF Answered, Blocked, FlushFails, StillThere, Written, Affected, Added,
         Removed, Changed
<1> HIDE DEF r
<1> QED
  BY <1>4, <1>5, <1>6, <1>7, ReadStep DEF InspectFlush

LEMMA BackToIdleStep ==
  ASSUME IInv, NEW h \in Handlers,
         InspectAbort(h) \/ InspectRollback(h) \/ CreateConflict(h)
  PROVE  IInv'
<1>1. SessionOK(Idle) /\ Idle.op # "inspect_flushed"
  BY DEF SessionOK, Idle
<1> QED
  BY <1>1, IdleType, ReadStep DEF InspectAbort, InspectRollback, CreateConflict

LEMMA CreateReadStep ==
  ASSUME IInv, NEW h \in Handlers, NEW m \in Mappings, CreateRead(h, m)
  PROVE  IInv'
<1> DEFINE r == [op |-> "create_read", mapping |-> m,
                 digest |-> ToolDigest(m.tool, tools[m.server][m.tool])]
<1>1. tools[m.server][m.tool] \in ToolRow
  BY MappingFields DEF CreateRead, IInv, TypeOK, ToolTable
<1>2. r \in Request
  BY <1>1, DigestType, MappingFields DEF Request
<1>3. SessionOK(r)
  BY DEF SessionOK
<1> HIDE DEF r
<1> QED
  BY <1>2, <1>3, ReadStep DEF CreateRead, r

LEMMA CreateCheckStep ==
  ASSUME IInv, NEW h \in Handlers, CreateCheck(h)
  PROVE  IInv'
<1> DEFINE r == [op |-> "create_checked", mapping |-> req[h].mapping,
                 digest |-> req[h].digest, collides |-> Collides(req[h].mapping)]
<1>1. Collides(req[h].mapping) \in BOOLEAN
  BY DEF Collides
<1>2. req[h].mapping \in Mappings /\ req[h].digest \in SchemaDigest
  BY RequestFields DEF CreateCheck, IInv, TypeOK
<1>3. r \in Request
  BY <1>1, <1>2 DEF Request
<1>4. SessionOK(r)
  BY DEF SessionOK
<1> HIDE DEF r
<1> QED
  BY <1>3, <1>4, ReadStep DEF CreateCheck, r

LEMMA ReviewRejectStep ==
  ASSUME IInv, NEW h \in Handlers, NEW m \in Mappings, ReviewReject(h, m)
  PROVE  IInv'
<1> DEFINE r == [op |-> "review_decided", mapping |-> m, row |-> rows[m],
                 new |-> Retired(rows[m]), decision |-> "rejected"]
<1>1. rows[m] \in Row
  BY DEF ReviewReject, IInv, TypeOK
<1>2. r \in Request
  BY <1>1, RetiredType DEF Request
<1>3. /\ Retired(rows[m]).failure_class = rows[m].failure_class
      /\ Retired(rows[m]).status = "rejected"
      /\ Retired(rows[m]).digest = rows[m].digest
  BY <1>1 DEF Retired, Row
<1>4. SessionOK(r)
  BY <1>3 DEF SessionOK, Behind, ReviewReject
<1> HIDE DEF r
<1> QED
  BY <1>2, <1>4, ReadStep DEF ReviewReject, r

LEMMA ReviewApproveStep ==
  ASSUME IInv, NEW h \in Handlers, NEW m \in Mappings, ReviewApprove(h, m)
  PROVE  IInv'
<1> DEFINE r == [op |-> "approve_loaded", mapping |-> m, row |-> rows[m]]
<1>1. r \in Request
  BY DEF ReviewApprove, Request, IInv, TypeOK
<1>2. SessionOK(r)
  BY DEF SessionOK, Behind, ReviewApprove
<1> HIDE DEF r
<1> QED
  BY <1>1, <1>2, ReadStep DEF ReviewApprove, r

LEMMA ReviewReadToolStep ==
  ASSUME IInv, NEW h \in Handlers, ReviewReadTool(h)
  PROVE  IInv'
<1> DEFINE m   == req[h].mapping
           row == req[h].row
           new == Approved(row, m)
           r   == [op |-> "review_decided", mapping |-> m, row |-> row,
                   new |-> new, decision |-> "approved"]
<1>1. m \in Mappings /\ row \in Row
  BY RequestFields DEF ReviewReadTool, IInv, TypeOK
<1>2. Behind(row, m)
  BY DEF ReviewReadTool, IInv, Sessions, SessionOK
<1>3. tools[m.server][m.tool] # None =>
        ToolDigest(m.tool, tools[m.server][m.tool]) \in SchemaDigest
  BY <1>1, DigestType, MappingFields DEF IInv, TypeOK, ToolTable
<1> HIDE DEF m, row
<1>4. /\ new \in Row
      /\ new.failure_class = row.failure_class
      /\ new.status = "active"
  BY <1>1, <1>3 DEF Approved, Row, Statuses
<1> HIDE DEF new
<1>5. r \in Request
  BY <1>1, <1>4 DEF Request
<1>6. SessionOK(r)
  BY <1>2, <1>4 DEF SessionOK
<1> HIDE DEF r
<1> QED
  BY <1>5, <1>6, ReadStep DEF ReviewReadTool, r, new, m, row

LEMMA RetireSelectStep ==
  ASSUME IInv, NEW h \in Handlers,
         NEW class \in FailureClasses \cup {None}, NEW ids \in SUBSET Mappings,
         RetireSelect(h, class, ids)
  PROVE  IInv'
<1> DEFINE Matches(m) == /\ rows[m].status \in LimboStatuses
                         /\ class # None => rows[m].failure_class = class
                         /\ ids # {} => m \in ids
           held == Select(Matches)
           r    == [op |-> "retire_selected", held |-> held]
<1>1. held \in Held
  BY DEF Select, Held, IInv, TypeOK
<1>2. \A m \in Mappings : held[m] # None =>
        Behind(held[m], m) /\ held[m].status \in LimboStatuses
  BY DEF Select, Behind
<1>3. Become(h, r)
  BY DEF RetireSelect
<1> HIDE DEF held
<1>4. r \in Request /\ SessionOK(r) /\ r.op # "inspect_flushed"
  BY <1>1, <1>2 DEF Request, SessionOK
<1> HIDE DEF r
<1> QED
  BY <1>3, <1>4, ReadStep DEF RetireSelect

----------------------------------------------------------------------------
(* Steps that save mappings                                                *)

\* What the code may want to make of a mapping it holds: quarantine it, retire
\* it, or approve it leaving a review that says so.
Quarantines(l, n) ==
  /\ l.status = "active"
  /\ n.status \in {"stale", "stale-unverified"}
  /\ n.failure_class \in FailureClasses
  /\ n.digest = l.digest
Retires(l, n) ==
  /\ n.status = "rejected"
  /\ n.failure_class = l.failure_class
  /\ n.digest = l.digest
Approves(l, n, m) ==
  /\ n.status = "active"
  /\ n.failure_class = l.failure_class
  /\ \E r \in reviews' : /\ r.mapping = m
                         /\ r.decision = "approved"
                         /\ r.new_digest = n.digest

GoodSave(l, n, m) ==
  /\ l \in Row /\ n \in Row
  /\ Behind(l, m)
  /\ Quarantines(l, n) \/ Retires(l, n) \/ Approves(l, n, m)
  /\ rows'[m] = SaveMapping(l, n, rows[m])

\* One saved mapping: what a save keeps true of it, whatever was stored there.
LEMMA GoodSaveRow ==
  ASSUME IInv, reviews \subseteq reviews', NEW m \in Mappings,
         NEW l, NEW n, GoodSave(l, n, m)
  PROVE  /\ rows'[m] \in Row
         /\ rows[m].failure_class # None => rows'[m].failure_class # None
         /\ rows'[m].status \in LimboStatuses => rows'[m].failure_class # None
         /\ rows'[m].status = "active" /\ rows'[m].failure_class # None =>
              \E r \in reviews' : r.mapping = m /\ r.decision = "approved"
         /\ \/ rows'[m].digest = rows[m].digest
            \/ \E r \in reviews' : /\ r.mapping = m
                                   /\ r.decision = "approved"
                                   /\ r.new_digest = rows'[m].digest
<1> DEFINE s == rows[m]
<1>1. s \in Row /\ l \in Row /\ n \in Row
  BY DEF IInv, TypeOK, GoodSave, Behind
<1>2. rows'[m] \in Row
  BY <1>1, SaveMappingType DEF GoodSave
<1>3. /\ rows'[m].status = Column(l.status, n.status, s.status)
      /\ rows'[m].failure_class =
           Column(l.failure_class, n.failure_class, s.failure_class)
      /\ rows'[m].digest = Column(l.digest, n.digest, s.digest)
  BY DEF GoodSave, SaveMapping
<1>4. l.failure_class # None => s.failure_class # None
  BY DEF GoodSave, Behind
<1>5. /\ s.status \in LimboStatuses => s.failure_class # None
      /\ s.status = "active" /\ s.failure_class # None =>
           \E r \in reviews' : r.mapping = m /\ r.decision = "approved"
  BY DEF IInv, LimboHasClass, LimboLeftByApproval, GoodSave, Behind
<1> HIDE DEF s
<1>6. CASE Quarantines(l, n)
  <2>1. n.failure_class # None
    BY <1>6, NoneIsNull DEF Quarantines
  <2>2. rows'[m].status = n.status
    BY <1>3, <1>6 DEF Quarantines, Column
  <2>3. rows'[m].failure_class # None
    BY <1>3, <1>4, <2>1 DEF Column
  <2> QED
    BY <1>2, <1>3, <1>6, <2>2, <2>3 DEF Quarantines, Column, s
<1>7. CASE Retires(l, n)
  <2>1. rows'[m].failure_class = s.failure_class /\ rows'[m].digest = s.digest
    BY <1>3, <1>7 DEF Retires, Column
  <2>2. rows'[m].status \in {"rejected", s.status}
    BY <1>3, <1>7 DEF Retires, Column
  <2> QED
    BY <1>2, <1>5, <2>1, <2>2 DEF LimboStatuses, s
<1>8. CASE Approves(l, n, m)
  <2>1. rows'[m].failure_class = s.failure_class
    BY <1>3, <1>8 DEF Approves, Column
  <2>2. rows'[m].status \in {"active", s.status}
    BY <1>3, <1>8 DEF Approves, Column
  <2>3. rows'[m].digest \in {n.digest, s.digest}
    BY <1>3 DEF Column
  <2> QED
    BY <1>2, <1>5, <1>8, <2>1, <2>2, <2>3 DEF LimboStatuses, Approves, s
<1> QED
  BY <1>6, <1>7, <1>8 DEF GoodSave

\* A request that ends with good saves of some mappings preserves everything
\* that is said of mappings and sessions.
LEMMA SaveStep ==
  ASSUME IInv, NEW h \in Handlers, Become(h, Idle),
         reviews \subseteq reviews', UNCHANGED origin,
         DOMAIN rows' = Mappings, rows' = [m \in Mappings |-> rows'[m]],
         \A m \in Mappings : rows'[m] = rows[m] \/ \E l, n : GoodSave(l, n, m)
  PROVE  /\ rows' \in [Mappings -> Row \cup {None}]
         /\ LimboHasClass' /\ LimboLeftByApproval' /\ DigestOnRecord' /\ Sessions'
<1>1. \A m \in Mappings :
        /\ rows[m] # None => rows'[m] # None
        /\ rows'[m] \in Row \cup {None}
        /\ rows'[m] # None =>
             /\ rows[m] # None
             /\ rows[m].failure_class # None => rows'[m].failure_class # None
             /\ rows'[m].status \in LimboStatuses => rows'[m].failure_class # None
             /\ rows'[m].status = "active" /\ rows'[m].failure_class # None =>
                  \E r \in reviews' : r.mapping = m /\ r.decision = "approved"
             /\ \/ rows'[m].digest = rows[m].digest
                \/ \E r \in reviews' : /\ r.mapping = m
                                       /\ r.decision = "approved"
                                       /\ r.new_digest = rows'[m].digest
  <2> SUFFICES ASSUME NEW m \in Mappings
               PROVE  <1>1!(m)
    OBVIOUS
  <2>1. CASE rows'[m] = rows[m]
    BY <2>1 DEF IInv, TypeOK, LimboHasClass, LimboLeftByApproval
  <2>2. CASE \E l, n : GoodSave(l, n, m)
    <3> PICK l, n : GoodSave(l, n, m)
      BY <2>2
    <3>1. rows[m] # None
      BY DEF GoodSave, Behind
    <3> QED
      BY <3>1, GoodSaveRow, NoneIsNull
  <2> QED
    BY <2>1, <2>2
<1>2. rows' \in [Mappings -> Row \cup {None}]
  BY <1>1
<1>3. LimboHasClass' /\ LimboLeftByApproval'
  BY <1>1 DEF LimboHasClass, LimboLeftByApproval
<1>4. DigestOnRecord'
  BY <1>1 DEF IInv, DigestOnRecord
<1>5. Sessions'
  <2> SUFFICES ASSUME NEW g \in Handlers PROVE SessionOK(req[g])'
    BY DEF Sessions
  <2>1. CASE req'[g] = Idle
    BY <2>1 DEF SessionOK, Idle
  <2>2. CASE req'[g] = req[g]
    <3>1. SessionOK(req[g]) /\ req[g] \in Request
      BY DEF IInv, Sessions, TypeOK
    <3>2. \A m \in Mappings : rows[m] # None => rows'[m] # None /\
            (rows[m].failure_class # None => rows'[m].failure_class # None)
      BY <1>1
    <3>3. req[g].op \in {"approve_loaded", "review_decided"} =>
            req[g].mapping \in Mappings
      BY <3>1, RequestFields
    <3> QED
      BY <2>2, <3>1, <3>2, <3>3 DEF SessionOK, Behind
  <2> QED
    BY <2>1, <2>2 DEF Become, IInv, TypeOK
<1> QED
  BY <1>2, <1>3, <1>4, <1>5

\* A request that ends without touching the tools leaves the locks as they are.
LEMMA LocksStep ==
  ASSUME IInv, NEW h \in Handlers, Become(h, Idle), UNCHANGED tools
  PROVE  RowLocks'
<1>1. \A g \in Handlers : req'[g] = IF g = h THEN Idle ELSE req[g]
  BY DEF Become, IInv, TypeOK
<1>2. Idle.op # "inspect_flushed"
  BY DEF Idle
<1> QED
  BY <1>1, <1>2 DEF RowLocks, Blocked, FlushFails, StillThere, IInv

\* Quarantining what an inspection holds is a good save, as is retiring.
LEMMA QuarantineIsGood ==
  ASSUME IInv, NEW m \in Mappings, NEW l \in Row, Behind(l, m), l.status = "active",
         NEW status \in {"stale", "stale-unverified"}, NEW class \in FailureClasses,
         rows'[m] = SaveMapping(l, MarkStale(l, status, class), rows[m])
  PROVE  \E n : GoodSave(l, n, m)
<1>1. MarkStale(l, status, class) \in Row
  BY MarkStaleType DEF Statuses, LimboStatuses
<1>2. Quarantines(l, MarkStale(l, status, class))
  BY DEF Quarantines, MarkStale, Row
<1> QED
  BY <1>1, <1>2 DEF GoodSave

LEMMA RetireIsGood ==
  ASSUME IInv, NEW m \in Mappings, NEW l \in Row, Behind(l, m),
         rows'[m] = SaveMapping(l, Retired(l), rows[m])
  PROVE  \E n : GoodSave(l, n, m)
<1>1. Retired(l) \in Row
  BY RetiredType
<1>2. Retires(l, Retired(l))
  BY DEF Retires, Retired, Row
<1> QED
  BY <1>1, <1>2 DEF GoodSave

\* What an inspection about to commit holds.
LEMMA HeldByInspection ==
  ASSUME IInv, NEW h \in Handlers,
         req[h].op \in {"inspect_failed", "inspect_flushed", "retire_selected"},
         NEW m \in Mappings, req[h].held[m] # None
  PROVE  /\ req[h].held[m] \in Row
         /\ Behind(req[h].held[m], m)
         /\ req[h].op # "retire_selected" => req[h].held[m].status = "active"
         /\ req[h].op = "retire_selected" => req[h].held[m].status \in LimboStatuses
<1>1. req[h].held \in Held
  BY RequestFields DEF IInv, TypeOK
<1>2. SessionOK(req[h])
  BY DEF IInv, Sessions
<1> QED
  BY <1>1, <1>2 DEF Held, SessionOK

LEMMA InspectFailCommitStep ==
  ASSUME IInv, NEW h \in Handlers, InspectFailCommit(h)
  PROVE  IInv'
<1> DEFINE held    == req[h].held
           failure == req[h].failure
<1>1. failure \in FailureClasses /\ req[h].server \in Servers
  BY RequestFields DEF InspectFailCommit, IInv, TypeOK, FailureClasses
<1>2. rows' = [m \in Mappings |-> IF held[m] = None THEN rows[m]
                 ELSE SaveMapping(held[m],
                        MarkStale(held[m], "stale-unverified", failure), rows[m])]
  BY DEF InspectFailCommit, SaveHeld
<1>3. \A m \in Mappings : held[m] # None =>
        /\ held[m] \in Row
        /\ Behind(held[m], m)
        /\ held[m].status = "active"
  BY HeldByInspection DEF InspectFailCommit
<1> HIDE DEF held, failure
<1>4. \A m \in Mappings : rows'[m] = rows[m] \/ \E l, n : GoodSave(l, n, m)
  <2> SUFFICES ASSUME NEW m \in Mappings, held[m] # None
               PROVE  \E l, n : GoodSave(l, n, m)
    BY <1>2
  <2> QED
    BY <1>1, <1>2, <1>3, QuarantineIsGood
<1>5. /\ rows' \in [Mappings -> Row \cup {None}]
      /\ LimboHasClass' /\ LimboLeftByApproval' /\ DigestOnRecord' /\ Sessions'
  <2>1. DOMAIN rows' = Mappings /\ rows' = [m \in Mappings |-> rows'[m]]
    BY <1>2
  <2> QED
    BY <1>4, <2>1, SaveStep DEF InspectFailCommit
<1>6. TypeOK'
  <2>1. req' \in [Handlers -> Request]
    BY IdleType, BecomeType DEF InspectFailCommit, IInv
  <2>2. health' \in [Servers -> HealthStatuses]
    BY HealthType DEF InspectFailCommit, IInv, HealthStatuses
  <2> QED
    BY <1>1, <1>5, <2>1, <2>2 DEF InspectFailCommit, IInv, TypeOK
<1>7. RowLocks'
  BY LocksStep DEF InspectFailCommit
<1> QED
  BY <1>5, <1>6, <1>7 DEF IInv

LEMMA RetireCommitStep ==
  ASSUME IInv, NEW h \in Handlers, RetireCommit(h)
  PROVE  IInv'
<1> DEFINE held == req[h].held
           new  == {[mapping |-> m, decision |-> "rejected",
                     new_digest |-> held[m].digest] :
                       m \in {n \in Mappings : held[n] # None}}
<1>1. rows' = [m \in Mappings |-> IF held[m] = None THEN rows[m]
                 ELSE SaveMapping(held[m], Retired(held[m]), rows[m])]
  BY DEF RetireCommit, SaveHeld
<1>2. reviews' = reviews \cup new
  BY DEF RetireCommit
<1>3. \A m \in Mappings : held[m] # None => held[m] \in Row /\ Behind(held[m], m)
  BY HeldByInspection DEF RetireCommit
<1> HIDE DEF held
<1>4. \A m \in Mappings : rows'[m] = rows[m] \/ \E l, n : GoodSave(l, n, m)
  <2> SUFFICES ASSUME NEW m \in Mappings, held[m] # None
               PROVE  \E l, n : GoodSave(l, n, m)
    BY <1>1
  <2> QED
    BY <1>1, <1>3, RetireIsGood
<1>5. new \subseteq Review
  BY <1>3 DEF Review, Row
<1> HIDE DEF new
<1>6. /\ rows' \in [Mappings -> Row \cup {None}]
      /\ LimboHasClass' /\ LimboLeftByApproval' /\ DigestOnRecord' /\ Sessions'
  <2>1. DOMAIN rows' = Mappings /\ rows' = [m \in Mappings |-> rows'[m]]
    BY <1>1
  <2> QED
    BY <1>2, <1>4, <2>1, SaveStep DEF RetireCommit
<1>7. TypeOK'
  <2>1. req' \in [Handlers -> Request]
    BY IdleType, BecomeType DEF RetireCommit, IInv
  <2> QED
    BY <1>2, <1>5, <1>6, <2>1 DEF RetireCommit, IInv, TypeOK
<1>8. RowLocks'
  BY LocksStep DEF RetireCommit
<1> QED
  BY <1>6, <1>7, <1>8 DEF IInv

LEMMA ReviewCommitStep ==
  ASSUME IInv, NEW h \in Handlers, ReviewCommit(h)
  PROVE  IInv'
<1> DEFINE r == req[h]
           m == r.mapping
<1>1. /\ m \in Mappings /\ r.row \in Row /\ r.new \in Row
      /\ r.decision \in {"approved", "rejected"}
  BY RequestFields DEF ReviewCommit, IInv, TypeOK
<1>2. /\ Behind(r.row, m)
      /\ r.new.failure_class = r.row.failure_class
      /\ \/ r.decision = "approved" /\ r.new.status = "active"
         \/ /\ r.decision = "rejected"
            /\ r.new.status = "rejected"
            /\ r.new.digest = r.row.digest
  BY DEF ReviewCommit, IInv, Sessions, SessionOK
<1>3. /\ rows' = [rows EXCEPT ![m] = SaveMapping(r.row, r.new, rows[m])]
      /\ reviews' = reviews \cup {ReviewOf(r)}
  BY DEF ReviewCommit
<1> HIDE DEF r, m
<1>4. /\ rows'[m] = SaveMapping(r.row, r.new, rows[m])
      /\ \A k \in Mappings : k # m => rows'[k] = rows[k]
      /\ DOMAIN rows' = Mappings
      /\ rows' = [k \in Mappings |-> rows'[k]]
  BY <1>1, <1>3 DEF IInv, TypeOK
<1>5. ReviewOf(r) \in Review
  BY <1>1 DEF ReviewOf, Review, Row, m
<1>6. GoodSave(r.row, r.new, m)
  <2>1. CASE r.decision = "approved"
    <3>1. ReviewOf(r) \in reviews'
      BY <1>3
    <3>2. /\ ReviewOf(r).mapping = m
          /\ ReviewOf(r).decision = "approved"
          /\ ReviewOf(r).new_digest = r.new.digest
      BY <2>1 DEF ReviewOf, m
    <3>3. Approves(r.row, r.new, m)
      BY <1>2, <2>1, <3>1, <3>2 DEF Approves
    <3> QED
      BY <1>1, <1>2, <1>4, <3>3 DEF GoodSave
  <2>2. CASE r.decision = "rejected"
    BY <1>1, <1>2, <1>4, <2>2 DEF GoodSave, Retires
  <2> QED
    BY <1>1, <2>1, <2>2
<1>7. \A k \in Mappings : rows'[k] = rows[k] \/ \E l, n : GoodSave(l, n, k)
  BY <1>4, <1>6
<1>8. /\ rows' \in [Mappings -> Row \cup {None}]
      /\ LimboHasClass' /\ LimboLeftByApproval' /\ DigestOnRecord' /\ Sessions'
  BY <1>3, <1>4, <1>7, SaveStep DEF ReviewCommit
<1>9. TypeOK'
  <2>1. req' \in [Handlers -> Request]
    BY IdleType, BecomeType DEF ReviewCommit, IInv
  <2> QED
    BY <1>3, <1>5, <1>8, <2>1 DEF ReviewCommit, IInv, TypeOK
<1>10. RowLocks'
  BY LocksStep DEF ReviewCommit
<1> QED
  BY <1>8, <1>9, <1>10 DEF IInv

\* A committing inspection writes rows it has locked: they are all there.
LEMMA SavedToolsType ==
  ASSUME IInv, NEW h \in Handlers, req[h].op = "inspect_flushed",
         NEW id \in RowIds
  PROVE  SavedTools(req[h], id) \in ToolTable
<1> DEFINE r == req[h]
<1>1. r.server \in Servers /\ r.tools \in ToolTable /\ r.found \in Listing
  BY RequestFields DEF IInv, TypeOK
<1>2. \A t \in Changed(r) : tools[r.server][t] # None
  BY DEF IInv, RowLocks, FlushFails, StillThere
<1>3. tools[r.server] \in ToolTable
  BY <1>1 DEF IInv, TypeOK
<1> HIDE DEF r
<1> SUFFICES ASSUME NEW t \in ToolNames
             PROVE  SavedTools(r, id)[t] \in ToolRow \cup {None}
  BY DEF SavedTools, ToolTable, r
<1>4. CASE t \in Added(r)
  <2>1. r.found[t] \in ToolDef
    BY <1>1, <1>4 DEF Added, Listing
  <2>2. NewToolRow(id, r.found[t]) \in ToolRow
    BY <2>1 DEF NewToolRow, ToolRow, ToolDef
  <2> QED
    BY <1>4, <2>2 DEF SavedTools, Added, Changed, Removed
<1>5. CASE t \in Changed(r)
  <2>1. /\ r.found[t] \in ToolDef
        /\ r.tools[t] \in ToolRow
        /\ tools[r.server][t] \in ToolRow
    BY <1>1, <1>2, <1>3, <1>5 DEF Changed, Listing, ToolTable
  <2>2. SaveTool(r.tools[t], r.found[t], tools[r.server][t]) \in ToolRow
    BY <2>1 DEF SaveTool, Column, ToolRow, ToolDef
  <2> QED
    BY <1>5, <2>2 DEF SavedTools, Added, Changed, Removed
<1>6. CASE t \notin Added(r) \cup Changed(r)
  BY <1>3, <1>6 DEF SavedTools, ToolTable
<1> QED
  BY <1>4, <1>5, <1>6

LEMMA NewVersionsType ==
  ASSUME IInv, NEW h \in Handlers, req[h].op = "inspect_flushed"
  PROVE  NewVersions(req[h]) \subseteq Version
<1> DEFINE r == req[h]
<1>1. r.server \in Servers /\ r.tools \in ToolTable
  BY RequestFields DEF IInv, TypeOK
<1> HIDE DEF r
<1> SUFFICES ASSUME NEW t \in Affected(r)
             PROVE  [server   |-> r.server,
                     tool     |-> t,
                     digest   |-> ToolDigest(t, r.tools[t]),
                     breaking |-> \/ t \in Removed(r)
                                  \/ IsBreaking(r.tools[t], r.found[t])] \in Version
  BY DEF NewVersions, r
<1>2. t \in ToolNames /\ r.tools[t] \in ToolRow
  BY <1>1 DEF Affected, Removed, Changed, ToolTable
<1>3. ToolDigest(t, r.tools[t]) \in SchemaDigest
  BY <1>2, DigestType
<1>4. (t \in Removed(r) \/ IsBreaking(r.tools[t], r.found[t])) \in BOOLEAN
  OBVIOUS
<1> QED
  BY <1>1, <1>2, <1>3, <1>4 DEF Version

\* What a commit writes to the tools of a server leaves alone every row that
\* another open transaction has locked.
LEMMA SavedToolsLocks ==
  ASSUME IInv, NEW h \in Handlers, InspectCommit(h)
  PROVE  RowLocks'
<1> DEFINE r == req[h]
<1> PICK id \in RowIds : tools' = [tools EXCEPT ![r.server] = SavedTools(r, id)]
  BY DEF InspectCommit
<1>1. \A g \in Handlers : req'[g] = IF g = h THEN Idle ELSE req[g]
  BY DEF InspectCommit, Become, IInv, TypeOK
<1>2. r.server \in Servers
  BY RequestFields DEF InspectCommit, IInv, TypeOK
<1>3. Idle.op # "inspect_flushed"
  BY DEF Idle
<1>4. \A t \in ToolNames : t \notin Written(r) =>
        tools'[r.server][t] = tools[r.server][t]
  BY <1>2 DEF SavedTools, Written, Affected, IInv, TypeOK
<1>5. \A s \in Servers : s # r.server => tools'[s] = tools[s]
  BY <1>2 DEF IInv, TypeOK
<1> SUFFICES ASSUME NEW g \in Handlers, g # h, req[g].op = "inspect_flushed"
             PROVE  ~Blocked(g, req[g])' /\ ~FlushFails(req[g])'
  BY <1>1, <1>3 DEF RowLocks
<1>6. req[g].server \in Servers
  BY RequestFields DEF IInv, TypeOK
<1>7. ~Blocked(g, req[g]) /\ ~FlushFails(req[g])
  BY DEF IInv, RowLocks
<1>8. ~Blocked(g, req[g])'
  BY <1>1, <1>3, <1>7 DEF Blocked
<1>9. req[g].server = r.server => Written(req[g]) \cap Written(r) = {}
  BY <1>7 DEF Blocked, InspectCommit
<1>10. \A t \in Written(req[g]) :
         tools'[req[g].server][t] = tools[req[g].server][t]
  BY <1>4, <1>5, <1>6, <1>9 DEF Written, Affected, Added, Removed, Changed
<1>11. ~FlushFails(req[g])'
  BY <1>1, <1>7, <1>10 DEF FlushFails, StillThere, Written, Affected
<1> QED
  BY <1>8, <1>11

LEMMA InspectCommitStep ==
  ASSUME IInv, NEW h \in Handlers, InspectCommit(h)
  PROVE  IInv'
<1> DEFINE held == req[h].held
<1> PICK id \in RowIds :
      tools' = [tools EXCEPT ![req[h].server] = SavedTools(req[h], id)]
  BY DEF InspectCommit
<1>1. tools' \in [Servers -> ToolTable]
  BY SavedToolsType DEF InspectCommit, IInv, TypeOK
<1>2. versions' \subseteq Version
  BY NewVersionsType DEF InspectCommit, IInv, TypeOK
<1>3. rows' = [m \in Mappings |-> IF held[m] = None THEN rows[m]
                 ELSE SaveMapping(held[m],
                        MarkStale(held[m], "stale", "drifted"), rows[m])]
  BY DEF InspectCommit, SaveHeld
<1>4. \A m \in Mappings : held[m] # None =>
        /\ held[m] \in Row
        /\ Behind(held[m], m)
        /\ held[m].status = "active"
  BY HeldByInspection DEF InspectCommit
<1> HIDE DEF held
<1>5. \A m \in Mappings : rows'[m] = rows[m] \/ \E l, n : GoodSave(l, n, m)
  <2> SUFFICES ASSUME NEW m \in Mappings, held[m] # None
               PROVE  \E l, n : GoodSave(l, n, m)
    BY <1>3
  <2>1. "drifted" \in FailureClasses
    BY DEF FailureClasses, CriticalClasses
  <2> QED
    BY <1>3, <1>4, <2>1, QuarantineIsGood
<1>6. /\ rows' \in [Mappings -> Row \cup {None}]
      /\ LimboHasClass' /\ LimboLeftByApproval' /\ DigestOnRecord' /\ Sessions'
  <2>1. DOMAIN rows' = Mappings /\ rows' = [m \in Mappings |-> rows'[m]]
    BY <1>3
  <2> QED
    BY <1>5, <2>1, SaveStep DEF InspectCommit
<1>7. TypeOK'
  <2>1. req' \in [Handlers -> Request]
    BY IdleType, BecomeType DEF InspectCommit, IInv
  <2>2. health' \in [Servers -> HealthStatuses]
    BY HealthType DEF InspectCommit, IInv, HealthStatuses
  <2> QED
    BY <1>1, <1>2, <1>6, <2>1, <2>2 DEF InspectCommit, IInv, TypeOK
<1>8. RowLocks'
  BY SavedToolsLocks
<1> QED
  BY <1>6, <1>7, <1>8 DEF IInv

\* A new mapping: nobody holds it yet, it is accepted with its own digest, and
\* it is in limbo only with a class.
LEMMA CreateInsertStep ==
  ASSUME IInv, NEW h \in Handlers, CreateInsert(h)
  PROVE  IInv'
<1> DEFINE m   == req[h].mapping
           new == NewMapping(req[h].collides, req[h].digest)
<1>1. m \in Mappings /\ req[h].digest \in SchemaDigest /\ req[h].collides \in BOOLEAN
  BY RequestFields DEF CreateInsert, IInv, TypeOK
<1>2. /\ new \in Row
      /\ new.digest = req[h].digest
      /\ new.status \in LimboStatuses => new.failure_class = "schema_mismatch"
      /\ new.status = "active" => new.failure_class = None
  BY <1>1 DEF NewMapping, Row, Statuses, LimboStatuses, FailureClasses, CriticalClasses
<1>3. /\ rows[m] = None
      /\ rows'   = [rows EXCEPT ![m] = new]
      /\ origin' = [origin EXCEPT ![m] = req[h].digest]
  BY DEF CreateInsert
<1> HIDE DEF new
<1>4. /\ \A k \in Mappings : k # m => rows'[k] = rows[k] /\ origin'[k] = origin[k]
      /\ rows'[m] = new
      /\ origin'[m] = req[h].digest
  BY <1>1, <1>3 DEF IInv, TypeOK
<1> HIDE DEF m
<1>5. TypeOK'
  <2>1. req' \in [Handlers -> Request]
    BY IdleType, BecomeType DEF CreateInsert, IInv
  <2>2. /\ rows' \in [Mappings -> Row \cup {None}]
        /\ origin' \in [Mappings -> SchemaDigest \cup {None}]
    BY <1>1, <1>2, <1>3 DEF IInv, TypeOK
  <2> QED
    BY <2>1, <2>2 DEF CreateInsert, IInv, TypeOK
<1>6. LimboHasClass'
  BY <1>2, <1>4, NoneIsNull DEF IInv, LimboHasClass, FailureClasses, CriticalClasses
<1>7. LimboLeftByApproval'
  BY <1>2, <1>4 DEF CreateInsert, IInv, LimboLeftByApproval
<1>8. DigestOnRecord'
  BY <1>2, <1>4 DEF CreateInsert, IInv, DigestOnRecord
<1>9. Sessions'
  <2> SUFFICES ASSUME NEW g \in Handlers PROVE SessionOK(req[g])'
    BY DEF Sessions
  <2>1. CASE req'[g] = Idle
    BY <2>1 DEF SessionOK, Idle
  <2>2. CASE req'[g] = req[g]
    <3>1. SessionOK(req[g]) /\ req[g] \in Request
      BY DEF IInv, Sessions, TypeOK
    <3>2. \A k \in Mappings : rows[k] # None => rows'[k] = rows[k]
      BY <1>3, <1>4
    <3>3. req[g].op \in {"approve_loaded", "review_decided"} =>
            req[g].mapping \in Mappings
      BY <3>1, RequestFields
    <3> QED
      BY <2>2, <3>1, <3>2, <3>3 DEF SessionOK, Behind
  <2> QED
    BY <2>1, <2>2 DEF CreateInsert, Become, IInv, TypeOK
<1>10. RowLocks'
  BY LocksStep DEF CreateInsert
<1> QED
  BY <1>5, <1>6, <1>7, <1>8, <1>9, <1>10 DEF IInv

----------------------------------------------------------------------------
(* The invariant                                                           *)

LEMMA InitIInv == Init => IInv
<1> SUFFICES ASSUME Init PROVE IInv
  OBVIOUS
<1>1. TypeOK
  BY InitTypeOK
<1>2. LimboHasClass /\ LimboLeftByApproval /\ DigestOnRecord
  BY DEF Init, LimboHasClass, LimboLeftByApproval, DigestOnRecord
<1>3. Sessions /\ RowLocks
  BY DEF Init, Idle, Sessions, SessionOK, RowLocks
<1> QED
  BY <1>1, <1>2, <1>3 DEF IInv

LEMMA NextIInv == IInv /\ [Next]_vars => IInv'
<1> SUFFICES ASSUME IInv, [Next]_vars PROVE IInv'
  OBVIOUS
<1>1. CASE UNCHANGED vars
  <2>1. TypeOK'
    BY <1>1 DEF vars, IInv, TypeOK
  <2>2. LimboHasClass' /\ LimboLeftByApproval' /\ DigestOnRecord'
    BY <1>1 DEF vars, IInv, LimboHasClass, LimboLeftByApproval, DigestOnRecord
  <2>3. Sessions'
    BY <1>1 DEF vars, IInv, Sessions, SessionOK, Behind
  <2>4. RowLocks'
    BY <1>1 DEF vars, IInv, RowLocks, Blocked, FlushFails, StillThere
  <2> QED
    BY <2>1, <2>2, <2>3, <2>4 DEF IInv
<1>2. ASSUME NEW h \in Handlers, Inspect(h) PROVE IInv'
  BY <1>2, InspectLoadStep, InspectUnreachableStep, InspectFailCommitStep,
     InspectFlushStep, BackToIdleStep, InspectCommitStep DEF Inspect
<1>3. ASSUME NEW h \in Handlers, Create(h) PROVE IInv'
  BY <1>3, CreateReadStep, CreateCheckStep, CreateInsertStep, BackToIdleStep
     DEF Create
<1>4. ASSUME NEW h \in Handlers, Administer(h) PROVE IInv'
  <2>1. CASE \E m \in Mappings : ReviewReject(h, m) \/ ReviewApprove(h, m)
    BY <2>1, ReviewRejectStep, ReviewApproveStep
  <2>2. CASE \E class \in FailureClasses \cup {None}, ids \in SUBSET Mappings :
               RetireSelect(h, class, ids)
    BY <2>2, RetireSelectStep
  <2>3. CASE ReviewReadTool(h) \/ ReviewCommit(h) \/ RetireCommit(h)
    BY <2>3, ReviewReadToolStep, ReviewCommitStep, RetireCommitStep
  <2> QED
    BY <1>4, <2>1, <2>2, <2>3 DEF Administer
<1> QED
  BY <1>1, <1>2, <1>3, <1>4 DEF Next

\* The inductive invariant holds in every reachable state.
THEOREM Inductive == Spec => []IInv
<1>1. Init => IInv
  BY InitIInv
<1>2. IInv /\ [Next]_vars => IInv'
  BY NextIInv
<1> QED
  BY <1>1, <1>2, PTL DEF Spec

\* Every table, session and audit record of the registry keeps its type
\* (models/server.py, inspect, create_mapping, review_mapping, bulk_retire).
THEOREM TypeCorrect == Spec => []TypeOK
<1>1. IInv => TypeOK
  BY DEF IInv
<1> QED
  BY <1>1, Inductive, PTL

\* However many inspections, reviews and bulk retirements overlap, no mapping
\* sits in the review queue without a failure class (models/server.py:227).
THEOREM QueueIsTyped == Spec => []LimboHasClass
<1>1. IInv => LimboHasClass
  BY DEF IInv
<1> QED
  BY <1>1, Inductive, PTL

\* However many requests overlap, a mapping that was ever in limbo is active only
\* after an approval that the audit trail records (models/server.py:261-271).
THEOREM NoSilentReactivation == Spec => []LimboLeftByApproval
<1>1. IInv => LimboLeftByApproval
  BY DEF IInv
<1> QED
  BY <1>1, Inductive, PTL

\* However many requests overlap, the schema a mapping stands for is the one it
\* was created with or one that an approving review names (review_mapping).
THEOREM DigestAccepted == Spec => []DigestOnRecord
<1>1. IInv => DigestOnRecord
  BY DEF IInv
<1> QED
  BY <1>1, Inductive, PTL
------------------------------------------------------------------------------
(***************************************************************************)
(* MappingLifecycle implements ReviewGate.                                 *)
(***************************************************************************)
gates == [m \in Mappings |-> GateOf(m)]

AbstractVars == <<gates, ApprovedMappings>>

\* Where a mapping stands, now and after a step, by its status.
LEMMA GateByStatus ==
  ASSUME NEW m \in Mappings, rows[m] \in Row \cup {None}
  PROVE  /\ rows[m] = None <=> GateOf(m) = "absent"
         /\ rows[m] # None =>
              /\ rows[m].status = "active" => GateOf(m) = "routed"
              /\ rows[m].status = "rejected" => GateOf(m) = "retired"
              /\ rows[m].status \in LimboStatuses => GateOf(m) = "held"
  BY NoneIsNull DEF GateOf, Row, Statuses, LimboStatuses

LEMMA GateByNewStatus ==
  ASSUME NEW m \in Mappings, rows'[m] \in Row \cup {None}
  PROVE  /\ rows'[m] = None <=> GateOf(m)' = "absent"
         /\ rows'[m] # None =>
              /\ rows'[m].status = "active" => GateOf(m)' = "routed"
              /\ rows'[m].status = "rejected" => GateOf(m)' = "retired"
              /\ rows'[m].status \in LimboStatuses => GateOf(m)' = "held"
  BY NoneIsNull DEF GateOf, Row, Statuses, LimboStatuses

LEMMA GateStutters ==
  ASSUME UNCHANGED <<rows, reviews>>
  PROVE  UNCHANGED AbstractVars
  BY DEF AbstractVars, gates, GateOf, ApprovedMappings

\* A step that moves some mappings to one place and leaves the others alone.
LEMMA MoveStep ==
  ASSUME IInv, NEW moved \in SUBSET Mappings, NEW where,
         \A m \in moved : rows[m] # None /\ GateOf(m)' = where,
         \A m \in Mappings \ moved : rows'[m] = rows[m]
  PROVE  moved \subseteq Gate!Present /\ gates' = Gate!Move(moved, where)
<1>1. moved \subseteq Gate!Present
  BY GateByStatus DEF Gate!Present, IInv, TypeOK
<1>2. \A m \in Mappings : GateOf(m)' = IF m \in moved THEN where ELSE GateOf(m)
  BY DEF GateOf
<1> QED
  BY <1>1, <1>2 DEF gates, Gate!Move

\* A save that changes the status changes it whatever is stored.
LEMMA SavedStatus ==
  ASSUME IInv, NEW m \in Mappings, rows[m] # None, NEW l \in Row, NEW n \in Row,
         n.status # l.status, rows'[m] = SaveMapping(l, n, rows[m])
  PROVE  rows'[m] # None /\ rows'[m].status = n.status
<1>1. rows'[m] \in Row
  BY SaveMappingType DEF IInv, TypeOK
<1>2. SaveMapping(l, n, rows[m]).status = n.status
  BY DEF SaveMapping, Column
<1> QED
  BY <1>1, <1>2, NoneIsNull

LEMMA StatusOfSaves ==
  ASSUME NEW row \in Row, NEW class
  PROVE  /\ \A status \in Statuses : MarkStale(row, status, class).status = status
         /\ Retired(row).status = "rejected"
  BY DEF MarkStale, Retired, Row

LEMMA InspectFailGate ==
  ASSUME IInv, IInv', NEW h \in Handlers, InspectFailCommit(h)
  PROVE  \E moved \in SUBSET Mappings : Gate!Hold(moved)
<1> DEFINE held  == req[h].held
           moved == {m \in Mappings : held[m] # None}
<1>1. rows' = [m \in Mappings |-> IF held[m] = None THEN rows[m]
                 ELSE SaveMapping(held[m],
                        MarkStale(held[m], "stale-unverified", req[h].failure), rows[m])]
  BY DEF InspectFailCommit, SaveHeld
<1>2. \A m \in moved : /\ held[m] \in Row
                       /\ rows[m] # None
                       /\ held[m].status = "active"
  BY HeldByInspection DEF InspectFailCommit, Behind
<1> HIDE DEF held
<1>3. \A m \in moved : rows'[m] # None /\ rows'[m].status = "stale-unverified"
  <2>1. req[h].failure \in FailureClasses
    BY RequestFields DEF InspectFailCommit, IInv, TypeOK, FailureClasses
  <2>2. "stale-unverified" \in Statuses \ {"active"}
    BY DEF Statuses, LimboStatuses
  <2> QED
    BY <1>1, <1>2, <2>1, <2>2, MarkStaleType, StatusOfSaves, SavedStatus
<1>4. \A m \in moved : GateOf(m)' = "held"
  BY <1>3, GateByNewStatus DEF IInv, TypeOK, LimboStatuses
<1>5. moved \subseteq Gate!Present /\ gates' = Gate!Move(moved, "held")
  BY <1>1, <1>2, <1>4, MoveStep
<1>6. UNCHANGED ApprovedMappings
  BY DEF InspectFailCommit, ApprovedMappings
<1> QED
  BY <1>5, <1>6 DEF Gate!Hold, gates

LEMMA InspectCommitGate ==
  ASSUME IInv, IInv', NEW h \in Handlers, InspectCommit(h)
  PROVE  \E moved \in SUBSET Mappings : Gate!Hold(moved)
<1> DEFINE held  == req[h].held
           moved == {m \in Mappings : held[m] # None}
<1>1. rows' = [m \in Mappings |-> IF held[m] = None THEN rows[m]
                 ELSE SaveMapping(held[m],
                        MarkStale(held[m], "stale", "drifted"), rows[m])]
  BY DEF InspectCommit, SaveHeld
<1>2. \A m \in moved : /\ held[m] \in Row
                       /\ rows[m] # None
                       /\ held[m].status = "active"
  BY HeldByInspection DEF InspectCommit, Behind
<1> HIDE DEF held
<1>3. \A m \in moved : rows'[m] # None /\ rows'[m].status = "stale"
  <2>1. "drifted" \in FailureClasses
    BY DEF FailureClasses, CriticalClasses
  <2>2. "stale" \in Statuses \ {"active"}
    BY DEF Statuses, LimboStatuses
  <2> QED
    BY <1>1, <1>2, <2>1, <2>2, MarkStaleType, StatusOfSaves, SavedStatus
<1>4. \A m \in moved : GateOf(m)' = "held"
  BY <1>3, GateByNewStatus DEF IInv, TypeOK, LimboStatuses
<1>5. moved \subseteq Gate!Present /\ gates' = Gate!Move(moved, "held")
  BY <1>1, <1>2, <1>4, MoveStep
<1>6. UNCHANGED ApprovedMappings
  BY DEF InspectCommit, ApprovedMappings
<1> QED
  BY <1>5, <1>6 DEF Gate!Hold, gates

LEMMA RetireGate ==
  ASSUME IInv, IInv', NEW h \in Handlers, RetireCommit(h)
  PROVE  \E moved \in SUBSET Mappings : Gate!Retire(moved)
<1> DEFINE held  == req[h].held
           moved == {m \in Mappings : held[m] # None}
<1>1. rows' = [m \in Mappings |-> IF held[m] = None THEN rows[m]
                 ELSE SaveMapping(held[m], Retired(held[m]), rows[m])]
  BY DEF RetireCommit, SaveHeld
<1>2. \A m \in moved : /\ held[m] \in Row
                       /\ rows[m] # None
                       /\ held[m].status \in LimboStatuses
  BY HeldByInspection DEF RetireCommit, Behind
<1>3. UNCHANGED ApprovedMappings
  BY DEF RetireCommit, ApprovedMappings
<1> HIDE DEF held
<1>4. \A m \in moved : rows'[m] # None /\ rows'[m].status = "rejected"
  BY <1>1, <1>2, RetiredType, StatusOfSaves, SavedStatus DEF LimboStatuses
<1>5. \A m \in moved : GateOf(m)' = "retired"
  BY <1>4, GateByNewStatus DEF IInv, TypeOK
<1>6. moved \subseteq Gate!Present /\ gates' = Gate!Move(moved, "retired")
  BY <1>1, <1>2, <1>5, MoveStep
<1> QED
  BY <1>3, <1>6 DEF Gate!Retire, gates

LEMMA ReviewGateStep ==
  ASSUME IInv, IInv', NEW h \in Handlers, ReviewCommit(h)
  PROVE  \/ \E m \in Mappings : Gate!Approve(m)
         \/ \E moved \in SUBSET Mappings : Gate!Retire(moved)
         \/ UNCHANGED AbstractVars
<1> DEFINE r == req[h]
<1> PICK m \in Mappings : m = r.mapping
  BY RequestFields DEF ReviewCommit, IInv, TypeOK
<1>1. r.row \in Row /\ r.new \in Row
  BY RequestFields DEF ReviewCommit, IInv, TypeOK
<1>2. /\ rows[m] # None
      /\ \/ r.decision = "approved" /\ r.new.status = "active"
         \/ r.decision = "rejected" /\ r.new.status = "rejected"
  BY DEF ReviewCommit, IInv, Sessions, SessionOK, Behind
<1>3. /\ rows' = [rows EXCEPT ![m] = SaveMapping(r.row, r.new, rows[m])]
      /\ reviews' = reviews \cup {ReviewOf(r)}
      /\ ReviewOf(r).mapping = m
      /\ ReviewOf(r).decision = r.decision
  BY DEF ReviewCommit, ReviewOf
<1> HIDE DEF r
<1>4. /\ rows'[m].status = Column(r.row.status, r.new.status, rows[m].status)
      /\ \A k \in Mappings \ {m} : rows'[k] = rows[k]
  BY <1>1, <1>3 DEF SaveMapping, IInv, TypeOK
<1>5. rows'[m] # None
  BY <1>1, <1>2, <1>3, SaveMappingType, NoneIsNull DEF IInv, TypeOK
<1>6. \/ rows'[m].status = rows[m].status /\ UNCHANGED gates
      \/ rows'[m].status = r.new.status
  <2>1. CASE rows'[m].status = rows[m].status
    <3>1. GateOf(m)' = GateOf(m)
      BY <1>2, <1>5, <2>1 DEF GateOf
    <3>2. \A k \in Mappings : GateOf(k)' = GateOf(k)
      BY <1>4, <3>1 DEF GateOf
    <3> QED
      BY <2>1, <3>2 DEF gates
  <2> QED
    BY <1>4, <2>1 DEF Column
<1>7. rows'[m].status = r.new.status =>
        /\ r.decision = "approved" => gates' = Gate!Move({m}, "routed")
        /\ r.decision = "rejected" => gates' = Gate!Move({m}, "retired")
  <2> SUFFICES ASSUME rows'[m].status = r.new.status PROVE <1>7!2
    OBVIOUS
  <2>1. GateOf(m)' = IF r.decision = "approved" THEN "routed" ELSE "retired"
    BY <1>1, <1>2, <1>5, GateByNewStatus DEF IInv, TypeOK
  <2> QED
    BY <1>1, <1>2, <1>4, <2>1, MoveStep
<1>8. m \in Gate!Present
  BY <1>1, <1>2, GateByStatus DEF Gate!Present, IInv, TypeOK
<1>9. CASE r.decision = "approved"
  <2>1. ApprovedMappings' = ApprovedMappings \cup {m}
    BY <1>3, <1>9 DEF ApprovedMappings
  <2>2. gates' = Gate!Move({m}, "routed") \/ UNCHANGED gates
    BY <1>6, <1>7, <1>9
  <2>3. Gate!Approve(m)
    BY <1>8, <2>1, <2>2 DEF Gate!Approve, gates
  <2> QED
    BY <1>1, <2>3
<1>10. CASE r.decision = "rejected"
  <2>1. UNCHANGED ApprovedMappings
    BY <1>3, <1>10 DEF ApprovedMappings
  <2>2. CASE gates' = Gate!Move({m}, "retired")
    BY <1>1, <1>8, <2>1, <2>2 DEF Gate!Retire, gates
  <2>3. CASE UNCHANGED gates
    BY <2>1, <2>3 DEF AbstractVars
  <2> QED
    BY <1>6, <1>7, <1>10, <2>2, <2>3
<1> QED
  BY <1>2, <1>9, <1>10

LEMMA CreateGate ==
  ASSUME IInv, IInv', NEW h \in Handlers, CreateInsert(h)
  PROVE  \E m \in Mappings : Gate!Admit(m)
<1> PICK m \in Mappings : m = req[h].mapping
  BY RequestFields DEF CreateInsert, IInv, TypeOK
<1>1. rows[m] = None
  BY DEF CreateInsert
<1>2. rows' = [rows EXCEPT ![m] = NewMapping(req[h].collides, req[h].digest)]
  BY DEF CreateInsert
<1>3. UNCHANGED ApprovedMappings
  BY DEF CreateInsert, ApprovedMappings
<1>4. /\ \A k \in Mappings \ {m} : rows'[k] = rows[k]
      /\ rows'[m] = NewMapping(req[h].collides, req[h].digest)
  BY <1>1, <1>2 DEF IInv, TypeOK
<1>5. rows'[m].status \in {"active", "pending_review"}
  BY <1>4 DEF NewMapping
<1>6. rows'[m] # None
  <2>1. req[h].collides \in BOOLEAN /\ req[h].digest \in SchemaDigest
    BY RequestFields DEF CreateInsert, IInv, TypeOK
  <2> QED
    BY <1>4, <2>1, NoneIsNull
       DEF NewMapping, Row, Statuses, LimboStatuses, FailureClasses, CriticalClasses
<1>7. GateOf(m)' \in {"routed", "held"}
  BY <1>1, <1>5, <1>6, GateByNewStatus DEF IInv, TypeOK, LimboStatuses
<1>8. m \notin Gate!Present
  BY <1>1, GateByStatus DEF Gate!Present, IInv, TypeOK
<1>9. \A k \in Mappings : GateOf(k)' = IF k \in {m} THEN GateOf(m)' ELSE GateOf(k)
  BY <1>4 DEF GateOf
<1>10. gates' = Gate!Move({m}, GateOf(m)')
  BY <1>9 DEF gates, Gate!Move
<1> QED
  BY <1>1, <1>3, <1>7, <1>8, <1>10 DEF Gate!Admit, gates

----------------------------------------------------------------------------
LEMMA InitGate == Init => Gate!Init
  BY DEF Init, Gate!Init, GateOf, ApprovedMappings

LEMMA StepGate ==
  ASSUME IInv, IInv', [Next]_vars
  PROVE  Gate!Next \/ UNCHANGED AbstractVars
<1>1. CASE UNCHANGED vars
  BY <1>1, GateStutters DEF vars
<1>2. ASSUME NEW h \in Handlers, Inspect(h)
      PROVE  Gate!Next \/ UNCHANGED AbstractVars
  <2>1. CASE InspectFailCommit(h)
    BY <2>1, InspectFailGate DEF Gate!Next
  <2>2. CASE InspectCommit(h)
    BY <2>2, InspectCommitGate DEF Gate!Next
  <2>3. CASE ~(InspectFailCommit(h) \/ InspectCommit(h))
    BY <1>2, <2>3, GateStutters
       DEF Inspect, InspectLoad, InspectUnreachable, InspectAbort, InspectFlush,
           InspectRollback
  <2> QED
    BY <2>1, <2>2, <2>3
<1>3. ASSUME NEW h \in Handlers, Create(h)
      PROVE  Gate!Next \/ UNCHANGED AbstractVars
  <2>1. CASE CreateInsert(h)
    BY <2>1, CreateGate DEF Gate!Next
  <2>2. CASE ~CreateInsert(h)
    BY <1>3, <2>2, GateStutters DEF Create, CreateRead, CreateCheck, CreateConflict
  <2> QED
    BY <2>1, <2>2
<1>4. ASSUME NEW h \in Handlers, Administer(h)
      PROVE  Gate!Next \/ UNCHANGED AbstractVars
  <2>1. CASE ReviewCommit(h)
    BY <2>1, ReviewGateStep DEF Gate!Next
  <2>2. CASE RetireCommit(h)
    BY <2>2, RetireGate DEF Gate!Next
  <2>3. CASE ~(ReviewCommit(h) \/ RetireCommit(h))
    BY <1>4, <2>3, GateStutters
       DEF Administer, ReviewReject, ReviewApprove, ReviewReadTool, RetireSelect
  <2> QED
    BY <2>1, <2>2, <2>3
<1> QED
  BY <1>1, <1>2, <1>3, <1>4 DEF Next

\* However many requests overlap, the registry's mappings behave as ReviewGate
\* says: nothing returns to routing but by an approval recorded with it
\* (inspect, create_mapping, review_mapping, bulk_retire).
THEOREM GateImplemented == Spec => ImplementsGate
<1>1. Init => Gate!Init
  BY InitGate
<1>2. IInv /\ IInv' /\ [Next]_vars => [Gate!Next]_AbstractVars
  BY StepGate
<1>3. Spec => []IInv
  BY Inductive
<1> QED
  BY <1>1, <1>2, <1>3, PTL DEF Spec, ImplementsGate, Gate!Spec, AbstractVars, gates
==============================================================================
