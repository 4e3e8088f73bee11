----------------------------- MODULE SerialProofs -----------------------------
(***************************************************************************)
(* What holds of MappingLifecycle when requests do not overlap, for every  *)
(* number of servers, tools, capabilities and listings, and without the    *)
(* bound on reviews that TLC needs.                                        *)
(***************************************************************************)
EXTENDS MappingLifecycleProofs

\* One request at a time.
OneAtATime == \A g, h \in Handlers : g = h

\* The two notions of a change agree on what servers publish: a definition with
\* another digest is one that compare_tool_definitions reports.  The code does
\* not see to it: a parameter that changes only its type breaks this.
ComparisonSeesDigests ==
  \A l, k \in Listings, t \in ToolNames :
    /\ l[t] # None /\ k[t] # None
    /\ ToolDigest(t, l[t]) # ToolDigest(t, k[t])
    => IsChanged(l[t], k[t])

----------------------------------------------------------------------------
(* What a request that is alone knows: everything it has read is still so.  *)

ExactTools(r) ==
  r.op \in {"inspect_loaded", "inspect_flushed"} => r.tools = tools[r.server]

ExactHeld(r) ==
  /\ r.op \in {"inspect_failed", "inspect_flushed", "retire_selected"} =>
       \A m \in Mappings : r.held[m] \in {None, rows[m]}
  /\ r.op = "inspect_failed" =>
       \A m \in Mappings : /\ rows[m] # None
                           /\ ActiveOn(m, r.server)
                           => r.held[m] = rows[m]

ExactReview(r) ==
  /\ r.op \in {"approve_loaded", "review_decided"} => r.row = rows[r.mapping]
  /\ r.op = "review_decided" =>
       \/ r.decision = "rejected" /\ r.new = Retired(r.row)
       \/ r.decision = "approved" /\ r.new = Approved(r.row, r.mapping)

ExactCreate(r) ==
  LET m == r.mapping IN
  /\ r.op \in {"create_read", "create_checked"} =>
       /\ tools[m.server][m.tool] # None
       /\ r.digest = ToolDigest(m.tool, tools[m.server][m.tool])
  /\ r.op = "create_checked" => r.collides = Collides(m)

Exact(r) == ExactTools(r) /\ ExactHeld(r) /\ ExactReview(r) /\ ExactCreate(r)

Undisturbed == \A h \in Handlers : Exact(req[h])

\* What is stored about a tool is what some listing said of it.
SameDefinition(row, def) ==
  /\ row.description = def.description
  /\ row.input = def.input
  /\ row.output = def.output

ToolsListed ==
  /\ \A s \in Servers, t \in ToolNames : tools[s][t] # None =>
       \E l \in Listings : l[t] # None /\ SameDefinition(tools[s][t], l[t])
  /\ \A h \in Handlers : req[h].op = "inspect_flushed" => req[h].found \in Listings

\* Inductive when requests do not overlap.
SerialInv ==
  /\ OneAtATime
  /\ IInv
  /\ Undisturbed
  /\ LimboTimeBoxed
  /\ CollisionGate
  /\ SchemaOnRecord
  /\ ToolsListed

----------------------------------------------------------------------------
(* A save of what is stored stores exactly what the request made of it.     *)

LEMMA SaveExact ==
  ASSUME NEW l \in Row, NEW n \in Row
  PROVE  SaveMapping(l, n, l) = n
  BY DEF SaveMapping, Column, Row

LEMMA SaveToolExact ==
  ASSUME NEW row \in ToolRow, NEW def \in ToolDef
  PROVE  SameDefinition(SaveTool(row, def, row), def)
  BY DEF SaveTool, Column, ToolRow, SameDefinition

\* The only request in progress is over: nothing is held any more.
LEMMA AloneAgain ==
  ASSUME SerialInv, NEW h \in Handlers, Become(h, Idle)
  PROVE  Undisturbed'
<1>1. \A g \in Handlers : req'[g] = Idle
  BY DEF Become, SerialInv, OneAtATime, IInv, TypeOK
<1> QED
  BY <1>1 DEF Undisturbed, Exact, ExactTools, ExactHeld, ExactReview, ExactCreate, Idle

LEMMA NothingFound ==
  ASSUME SerialInv, NEW h \in Handlers, Become(h, Idle), UNCHANGED tools
  PROVE  ToolsListed'
<1>1. \A g \in Handlers : req'[g].op # "inspect_flushed"
  BY DEF Become, SerialInv, OneAtATime, IInv, TypeOK, Idle
<1> QED
  BY <1>1 DEF SerialInv, ToolsListed

----------------------------------------------------------------------------
(* Steps that only load                                                    *)

LEMMA SerialReadStep ==
  ASSUME SerialInv, IInv', NEW h \in Handlers, NEW r, Become(h, r),
         Exact(r), r.op = "inspect_flushed" => r.found \in Listings,
         UNCHANGED <<tools, health, rows, reviews, versions, origin>>
  PROVE  SerialInv'
<1>1. \A g \in Handlers : req'[g] = r
  BY DEF Become, SerialInv, OneAtATime, IInv, TypeOK
<1>2. Undisturbed'
  <2> SUFFICES ASSUME NEW g \in Handlers PROVE Exact(req[g])'
    BY DEF Undisturbed
  <2>1. req'[g] = r
    BY <1>1
  <2>2. ExactTools(req[g])'
    BY <2>1 DEF Exact, ExactTools
  <2>3. ExactHeld(req[g])'
    BY <2>1 DEF Exact, ExactHeld, ActiveOn
  <2>4. ExactReview(req[g])'
    BY <2>1 DEF Exact, ExactReview, Approved
  <2>5. ExactCreate(req[g])'
    BY <2>1 DEF Exact, ExactCreate, Collides
  <2> QED
    BY <2>2, <2>3, <2>4, <2>5 DEF Exact
<1>3. LimboTimeBoxed' /\ CollisionGate'
  BY DEF SerialInv, LimboTimeBoxed, CollisionGate
<1>4. SchemaOnRecord'
  BY DEF SerialInv, SchemaOnRecord
<1>5. ToolsListed'
  BY <1>1 DEF SerialInv, ToolsListed
<1>6. OneAtATime'
  BY DEF SerialInv, OneAtATime
<1> QED
  BY <1>2, <1>3, <1>4, <1>5, <1>6 DEF SerialInv

LEMMA SerialInspectLoad ==
  ASSUME SerialInv, IInv', NEW h \in Handlers, NEW srv \in Servers, InspectLoad(h, srv)
  PROVE  SerialInv'
<1> DEFINE r == [op |-> "inspect_loaded", server |-> srv, tools |-> tools[srv],
                 health |-> health[srv]]
<1>1. Exact(r)
  BY DEF Exact, ExactTools, ExactHeld, ExactReview, ExactCreate
<1>2. r.op # "inspect_flushed"
  OBVIOUS
<1>3. Become(h, r)
  BY DEF InspectLoad
<1> HIDE DEF r
<1> QED
  BY <1>1, <1>2, <1>3, SerialReadStep DEF InspectLoad

LEMMA SerialInspectUnreachable ==
  ASSUME SerialInv, IInv', NEW h \in Handlers, InspectUnreachable(h)
  PROVE  SerialInv'
<1> DEFINE held == Select(LAMBDA m : ActiveOn(m, req[h].server))
<1> PICK failure \in UnreachableClasses :
      Become(h, [op |-> "inspect_failed", server |-> req[h].server,
                 health |-> req[h].health, failure |-> failure, held |-> held])
  BY DEF InspectUnreachable
<1> DEFINE r == [op |-> "inspect_failed", server |-> req[h].server,
                 health |-> req[h].health, failure |-> failure, held |-> held]
<1>1. \A m \in Mappings :
        /\ held[m] \in {None, rows[m]}
        /\ rows[m] # None /\ ActiveOn(m, req[h].server) => held[m] = rows[m]
  BY DEF Select
<1> HIDE DEF held
<1>2. Exact(r)
  BY <1>1 DEF Exact, ExactTools, ExactHeld, ExactReview, ExactCreate
<1>3. r.op # "inspect_flushed" /\ Become(h, r)
  OBVIOUS
<1> HIDE DEF r
<1> QED
  BY <1>2, <1>3, SerialReadStep DEF InspectUnreachable

LEMMA SerialInspectFlush ==
  ASSUME SerialInv, IInv', NEW h \in Handlers, InspectFlush(h)
  PROVE  SerialInv'
<1> PICK found \in Listings :
      Become(h, [Answered(h, found) EXCEPT !.held =
                   Select(LAMBDA m : /\ ActiveOn(m, Answered(h, found).server)
                                     /\ m.tool \in Affected(Answered(h, found)))])
  BY DEF InspectFlush
<1> DEFINE held == Select(LAMBDA m : /\ ActiveOn(m, Answered(h, found).server)
                                     /\ m.tool \in Affected(Answered(h, found)))
           r    == [op |-> "inspect_flushed", server |-> req[h].server,
                    tools |-> req[h].tools, health |-> req[h].health,
                    found |-> found, held |-> held]
<1>1. \A m \in Mappings : held[m] \in {None, rows[m]}
  BY DEF Select
<1>2. Become(h, r)
  BY DEF Answered, held
<1> HIDE DEF held
<1>3. req[h].tools = tools[req[h].server]
  BY DEF InspectFlush, SerialInv, Undisturbed, Exact, ExactTools
<1>4. Exact(r)
  BY <1>1, <1>3 DEF Exact, ExactTools, ExactHeld, ExactReview, ExactCreate
<1>5. r.found \in Listings
  OBVIOUS
<1> HIDE DEF r
<1> QED
  BY <1>2, <1>4, <1>5, SerialReadStep DEF InspectFlush

LEMMA SerialBackToIdle ==
  ASSUME SerialInv, IInv', NEW h \in Handlers,
         InspectAbort(h) \/ InspectRollback(h) \/ CreateConflict(h)
  PROVE  SerialInv'
<1>1. Exact(Idle) /\ Idle.op # "inspect_flushed"
  BY DEF Exact, ExactTools, ExactHeld, ExactReview, ExactCreate, Idle
<1> QED
  BY <1>1, SerialReadStep DEF InspectAbort, InspectRollback, CreateConflict

LEMMA SerialCreateRead ==
  ASSUME SerialInv, IInv', NEW h \in Handlers, NEW m \in Mappings, CreateRead(h, m)
  PROVE  SerialInv'
<1> DEFINE r == [op |-> "create_read", mapping |-> m,
                 digest |-> ToolDigest(m.tool, tools[m.server][m.tool])]
<1>1. Exact(r)
  BY DEF Exact, ExactTools, ExactHeld, ExactReview, ExactCreate, CreateRead
<1>2. r.op # "inspect_flushed" /\ Become(h, r)
  BY DEF CreateRead
<1> HIDE DEF r
<1> QED
  BY <1>1, <1>2, SerialReadStep DEF CreateRead

LEMMA SerialCreateCheck ==
  ASSUME SerialInv, IInv', NEW h \in Handlers, CreateCheck(h)
  PROVE  SerialInv'
<1> DEFINE r == [op |-> "create_checked", mapping |-> req[h].mapping,
                 digest |-> req[h].digest, collides |-> Collides(req[h].mapping)]
<1>1. ExactCreate(req[h])
  BY DEF SerialInv, Undisturbed, Exact
<1>2. Exact(r)
  BY <1>1 DEF Exact, ExactTools, ExactHeld, ExactReview, ExactCreate, CreateCheck
<1>3. r.op # "inspect_flushed" /\ Become(h, r)
  BY DEF CreateCheck
<1> HIDE DEF r
<1> QED
  BY <1>2, <1>3, SerialReadStep DEF CreateCheck

LEMMA SerialReviewReject ==
  ASSUME SerialInv, IInv', NEW h \in Handlers, NEW m \in Mappings, ReviewReject(h, m)
  PROVE  SerialInv'
<1> DEFINE r == [op |-> "review_decided", mapping |-> m, row |-> rows[m],
                 new |-> Retired(rows[m]), decision |-> "rejected"]
<1>1. Exact(r)
  BY DEF Exact, ExactTools, ExactHeld, ExactReview, ExactCreate
<1>2. r.op # "inspect_flushed" /\ Become(h, r)
  BY DEF ReviewReject
<1> HIDE DEF r
<1> QED
  BY <1>1, <1>2, SerialReadStep DEF ReviewReject

LEMMA SerialReviewApprove ==
  ASSUME SerialInv, IInv', NEW h \in Handlers, NEW m \in Mappings, ReviewApprove(h, m)
  PROVE  SerialInv'
<1> DEFINE r == [op |-> "approve_loaded", mapping |-> m, row |-> rows[m]]
<1>1. Exact(r)
  BY DEF Exact, ExactTools, ExactHeld, ExactReview, ExactCreate
<1>2. r.op # "inspect_flushed" /\ Become(h, r)
  BY DEF ReviewApprove
<1> HIDE DEF r
<1> QED
  BY <1>1, <1>2, SerialReadStep DEF ReviewApprove

LEMMA SerialReviewReadTool ==
  ASSUME SerialInv, IInv', NEW h \in Handlers, ReviewReadTool(h)
  PROVE  SerialInv'
<1> DEFINE r == [op |-> "review_decided", mapping |-> req[h].mapping,
                 row |-> req[h].row,
                 new |-> Approved(req[h].row, req[h].mapping),
                 decision |-> "approved"]
<1>1. req[h].row = rows[req[h].mapping]
  BY DEF ReviewReadTool, SerialInv, Undisturbed, Exact, ExactReview
<1>2. Exact(r)
  BY <1>1 DEF Exact, ExactTools, ExactHeld, ExactReview, ExactCreate
<1>3. r.op # "inspect_flushed" /\ Become(h, r)
  BY DEF ReviewReadTool
<1> HIDE DEF r
<1> QED
  BY <1>2, <1>3, SerialReadStep DEF ReviewReadTool

LEMMA SerialRetireSelect ==
  ASSUME SerialInv, IInv', NEW h \in Handlers,
         NEW class \in FailureClasses \cup {None}, NEW ids \in SUBSET Mappings,
         RetireSelect(h, class, ids)
  PROVE  SerialInv'
<1> DEFINE Matches(m) == /\ rows[m].status \in LimboStatuses
                         /\ class # None => rows[m].failure_class = class
                         /\ ids # {} => m \in ids
           held == Select(Matches)
           r    == [op |-> "retire_selected", held |-> held]
<1>1. \A m \in Mappings : held[m] \in {None, rows[m]}
  BY DEF Select
<1>2. r.op # "inspect_flushed" /\ Become(h, r)
  BY DEF RetireSelect
<1> HIDE DEF held
<1>3. Exact(r)
  BY <1>1 DEF Exact, ExactTools, ExactHeld, ExactReview, ExactCreate
<1> HIDE DEF r
<1> QED
  BY <1>2, <1>3, SerialReadStep DEF RetireSelect

----------------------------------------------------------------------------
(* Steps that save                                                         *)

Boxed(row) == row.pending <=> row.status \in LimboStatuses

\* The schema with this digest can be looked up on the mapping's server.
OnRecord(m, d) ==
  \/ /\ tools[m.server][m.tool] # None
     /\ ToolDigest(m.tool, tools[m.server][m.tool]) = d
  \/ \E v \in versions : v.server = m.server /\ v.digest = d

\* The schema a mapping stands for was accepted, so it is on record as well.
LEMMA RowOnRecord ==
  ASSUME SerialInv, NEW m \in Mappings, rows[m] # None, rows[m].digest # None
  PROVE  OnRecord(m, rows[m].digest)
<1>1. \A d : /\ d \in {origin[m]} \cup {r.new_digest : r \in {x \in reviews : x.mapping = m}}
             /\ d # None
             => OnRecord(m, d)
  BY DEF SerialInv, SchemaOnRecord, OnRecord
<1>2. CASE rows[m].digest = origin[m]
  BY <1>1, <1>2
<1>3. CASE \E r \in reviews : /\ r.mapping = m
                              /\ r.decision = "approved"
                              /\ r.new_digest = rows[m].digest
  <2> PICK r \in reviews : r.mapping = m /\ r.new_digest = rows[m].digest
    BY <1>3
  <2>1. r \in {x \in reviews : x.mapping = m}
    OBVIOUS
  <2>2. r.new_digest \in {y.new_digest : y \in {x \in reviews : x.mapping = m}}
    BY <2>1
  <2> QED
    BY <1>1, <2>2
<1> QED
  BY <1>2, <1>3 DEF SerialInv, IInv, DigestOnRecord

\* A request that ends with saves that leave the clock and the status of each
\* mapping together, approve what they make active, and cite digests on record.
LEMMA SerialSaveStep ==
  ASSUME SerialInv, IInv', NEW h \in Handlers, Become(h, Idle),
         reviews \subseteq reviews', UNCHANGED origin, ToolsListed',
         \A m \in Mappings :
           \/ rows'[m] = rows[m]
           \/ /\ rows[m] # None
              /\ Boxed(rows'[m])
              /\ rows'[m].status = "active" =>
                   \E r \in reviews' : r.mapping = m /\ r.decision = "approved",
         \A m \in Mappings : \A d : OnRecord(m, d) => OnRecord(m, d)',
         \A r \in reviews' : r \in reviews \/ r.new_digest = None
                               \/ OnRecord(r.mapping, r.new_digest)
  PROVE  SerialInv'
<1>1. LimboTimeBoxed'
  <2> SUFFICES ASSUME NEW m \in Mappings, rows'[m] # None PROVE Boxed(rows'[m])
    BY DEF LimboTimeBoxed, Boxed
  <2> QED
    BY DEF SerialInv, LimboTimeBoxed, Boxed
<1>2. CollisionGate'
  <2> SUFFICES ASSUME NEW m \in Mappings, NEW n \in Mappings,
                      m.capability = n.capability, m.tool # n.tool,
                      rows'[m] # None, rows'[m].status = "active",
                      rows'[n] # None, rows'[n].status = "active"
               PROVE  \E r \in reviews' : r.mapping \in {m, n} /\ r.decision = "approved"
    BY DEF CollisionGate
  <2>1. CASE rows'[m] = rows[m] /\ rows'[n] = rows[n]
    BY <2>1 DEF SerialInv, CollisionGate
  <2>2. CASE rows'[m] # rows[m] \/ rows'[n] # rows[n]
    <3> PICK k \in {m, n} : rows'[k] # rows[k]
      BY <2>2
    <3>1. \E r \in reviews' : r.mapping = k /\ r.decision = "approved"
      OBVIOUS
    <3> QED
      BY <3>1
  <2> QED
    BY <2>1, <2>2
<1>3. SchemaOnRecord'
  <2> SUFFICES ASSUME NEW m \in Mappings, NEW d, d # None,
                      d \in {origin[m]} \cup
                              {r.new_digest : r \in {x \in reviews' : x.mapping = m}}
               PROVE  OnRecord(m, d)'
    <3>1. origin' = origin
      OBVIOUS
    <3> QED
      BY <3>1 DEF SchemaOnRecord, OnRecord
  <2>0. \/ d = origin[m]
        \/ \E r \in reviews' : r.mapping = m /\ r.new_digest = d
    OBVIOUS
  <2>1. \A e : /\ e \in {origin[m]} \cup {r.new_digest : r \in {x \in reviews : x.mapping = m}}
               /\ e # None
               => OnRecord(m, e)
    BY DEF SerialInv, SchemaOnRecord, OnRecord
  <2>2. CASE d = origin[m]
    BY <2>1, <2>2
  <2>3. CASE \E r \in reviews' : r.mapping = m /\ r.new_digest = d
    <3> PICK r \in reviews' : r.mapping = m /\ r.new_digest = d
      BY <2>3
    <3>1. CASE r \in reviews
      <4>1. r \in {x \in reviews : x.mapping = m}
        BY <3>1
      <4>2. d \in {y.new_digest : y \in {x \in reviews : x.mapping = m}}
        BY <4>1
      <4> QED
        BY <2>1, <4>2
    <3>2. CASE OnRecord(r.mapping, r.new_digest)
      BY <3>2
    <3> QED
      BY <3>1, <3>2
  <2> QED
    BY <2>0, <2>2, <2>3
<1>4. Undisturbed'
  BY AloneAgain
<1>5. OneAtATime'
  BY DEF SerialInv, OneAtATime
<1> QED
  BY <1>1, <1>2, <1>3, <1>4, <1>5 DEF SerialInv

\* With no change to the tools, what is on record stays there.
LEMMA RecordStays ==
  ASSUME UNCHANGED <<tools, versions>>, NEW m \in Mappings, NEW d, OnRecord(m, d)
  PROVE  OnRecord(m, d)'
  BY DEF OnRecord

LEMMA MarkStaleBoxed ==
  ASSUME NEW row \in Row, NEW status \in {"stale", "stale-unverified"},
         NEW class \in FailureClasses
  PROVE  Boxed(MarkStale(row, status, class)) /\ MarkStale(row, status, class).status = status
  BY DEF MarkStale, Boxed, Row, LimboStatuses

LEMMA RetiredBoxed ==
  ASSUME NEW row \in Row
  PROVE  Boxed(Retired(row)) /\ Retired(row).status = "rejected"
  BY DEF Retired, Boxed, Row, LimboStatuses

\* What a request that holds mappings saves when it is alone.
LEMMA SavedExactly ==
  ASSUME SerialInv, NEW h \in Handlers,
         req[h].op \in {"inspect_failed", "inspect_flushed", "retire_selected"},
         NEW m \in Mappings, req[h].held[m] # None
  PROVE  /\ req[h].held[m] = rows[m]
         /\ rows[m] \in Row
<1>1. req[h].held[m] \in {None, rows[m]}
  BY DEF SerialInv, Undisturbed, Exact, ExactHeld
<1> QED
  BY <1>1 DEF SerialInv, IInv, TypeOK

LEMMA SerialInspectFailCommit ==
  ASSUME SerialInv, IInv', NEW h \in Handlers, InspectFailCommit(h)
  PROVE  SerialInv'
<1> DEFINE held    == req[h].held
           failure == req[h].failure
<1>1. failure \in FailureClasses
  BY RequestFields DEF InspectFailCommit, SerialInv, IInv, TypeOK, FailureClasses
<1>2. rows' = [m \in Mappings |-> IF held[m] = None THEN rows[m]
                 ELSE SaveMapping(held[m],
                        MarkStale(held[m], "stale-unverified", failure), rows[m])]
  BY DEF InspectFailCommit, SaveHeld
<1>3. \A m \in Mappings : held[m] # None => held[m] = rows[m] /\ rows[m] \in Row
  BY SavedExactly DEF InspectFailCommit
<1> HIDE DEF held, failure
<1>4. \A m \in Mappings :
        \/ rows'[m] = rows[m]
        \/ /\ rows[m] # None
           /\ Boxed(rows'[m])
           /\ rows'[m].status # "active"
  <2> SUFFICES ASSUME NEW m \in Mappings, held[m] # None
               PROVE  rows[m] # None /\ Boxed(rows'[m]) /\ rows'[m].status # "active"
    BY <1>2
  <2> DEFINE new == MarkStale(rows[m], "stale-unverified", failure)
  <2>1. new \in Row
    BY <1>1, <1>3, MarkStaleType DEF Statuses, LimboStatuses
  <2>2. rows'[m] = SaveMapping(rows[m], new, rows[m])
    BY <1>2, <1>3
  <2>3. Boxed(new) /\ new.status = "stale-unverified"
    BY <1>1, <1>3, MarkStaleBoxed
  <2> HIDE DEF new
  <2>4. rows'[m] = new
    BY <1>3, <2>1, <2>2, SaveExact
  <2> QED
    BY <1>3, <2>3, <2>4
<1>5. ToolsListed'
  BY NothingFound DEF InspectFailCommit
<1>6. \A m \in Mappings : \A d : OnRecord(m, d) => OnRecord(m, d)'
  BY RecordStays DEF InspectFailCommit
<1> QED
  BY <1>4, <1>5, <1>6, SerialSaveStep DEF InspectFailCommit

LEMMA SerialRetireCommit ==
  ASSUME SerialInv, IInv', NEW h \in Handlers, RetireCommit(h)
  PROVE  SerialInv'
<1> DEFINE held == req[h].held
           new  == {[mapping |-> m, decision |-> "rejected",
                     new_digest |-> held[m].digest] :
                       m \in {n \in Mappings : held[n] # None}}
<1>1. rows' = [m \in Mappings |-> IF held[m] = None THEN rows[m]
                 ELSE SaveMapping(held[m], Retired(held[m]), rows[m])]
  BY DEF RetireCommit, SaveHeld
<1>2. reviews' = reviews \cup new
  BY DEF RetireCommit
<1>3. \A m \in Mappings : held[m] # None => held[m] = rows[m] /\ rows[m] \in Row
  BY SavedExactly DEF RetireCommit
<1> HIDE DEF held
<1>4. \A m \in Mappings :
        \/ rows'[m] = rows[m]
        \/ /\ rows[m] # None
           /\ Boxed(rows'[m])
           /\ rows'[m].status # "active"
  <2> SUFFICES ASSUME NEW m \in Mappings, held[m] # None
               PROVE  rows[m] # None /\ Boxed(rows'[m]) /\ rows'[m].status # "active"
    BY <1>1
  <2>1. Retired(rows[m]) \in Row
    BY <1>3, RetiredType
  <2>2. rows'[m] = Retired(rows[m])
    BY <1>1, <1>3, <2>1, SaveExact
  <2> QED
    BY <1>3, <2>2, RetiredBoxed
<1>5. \A r \in new : r.new_digest = None \/ OnRecord(r.mapping, r.new_digest)
  <2> SUFFICES ASSUME NEW m \in Mappings, held[m] # None
               PROVE  held[m].digest = None \/ OnRecord(m, held[m].digest)
    OBVIOUS
  <2> QED
    BY <1>3, RowOnRecord
<1> HIDE DEF new
<1>6. ToolsListed'
  BY NothingFound DEF RetireCommit
<1>7. \A m \in Mappings : \A d : OnRecord(m, d) => OnRecord(m, d)'
  BY RecordStays DEF RetireCommit
<1> QED
  BY <1>2, <1>4, <1>5, <1>6, <1>7, SerialSaveStep DEF RetireCommit

\* What an approval makes of the row it loaded: live, with no clock, and with the
\* digest of the tool as it is, or the old digest when the tool is gone.
LEMMA ApprovedFields ==
  ASSUME SerialInv, NEW m \in Mappings, NEW row \in Row, Approved(row, m) \in Row
  PROVE  /\ Approved(row, m).status = "active"
         /\ Boxed(Approved(row, m))
         /\ Approved(row, m).digest =
              IF tools[m.server][m.tool] = None THEN row.digest
              ELSE ToolDigest(m.tool, tools[m.server][m.tool])
  BY DEF Approved, Boxed, Row, LimboStatuses

LEMMA SerialReviewCommit ==
  ASSUME SerialInv, IInv', NEW h \in Handlers, ReviewCommit(h)
  PROVE  SerialInv'
<1> DEFINE r == req[h]
           m == r.mapping
<1>1. /\ m \in Mappings /\ r.row \in Row /\ r.new \in Row
      /\ r.decision \in {"approved", "rejected"}
  BY RequestFields DEF ReviewCommit, SerialInv, IInv, TypeOK
<1>2. /\ r.row = rows[m]
      /\ \/ r.decision = "rejected" /\ r.new = Retired(r.row)
         \/ r.decision = "approved" /\ r.new = Approved(r.row, m)
  BY DEF ReviewCommit, SerialInv, Undisturbed, Exact, ExactReview
<1>3. /\ rows' = [rows EXCEPT ![m] = SaveMapping(r.row, r.new, rows[m])]
      /\ reviews' = reviews \cup {ReviewOf(r)}
  BY DEF ReviewCommit
<1> HIDE DEF r, m
<1>4. /\ rows'[m] = r.new
      /\ \A k \in Mappings : k # m => rows'[k] = rows[k]
  BY <1>1, <1>2, <1>3, SaveExact DEF SerialInv, IInv, TypeOK
<1>5. rows[m] # None
  BY <1>1, <1>2, NoneIsNull
<1>6. /\ Boxed(r.new)
      /\ r.new.status = "active" => r.decision = "approved"
  BY <1>1, <1>2, RetiredBoxed, ApprovedFields
<1>7. r.new.digest = None \/ OnRecord(m, r.new.digest)
  <2>1. CASE r.new.digest = r.row.digest
    BY <1>1, <1>2, <1>5, <2>1, RowOnRecord
  <2>2. CASE r.new.digest # r.row.digest
    <3>1. Retired(r.row).digest = r.row.digest
      BY <1>1 DEF Retired, Row
    <3>2. r.new = Approved(r.row, m)
      BY <1>2, <2>2, <3>1
    <3> QED
      BY <1>1, <2>2, <3>2, ApprovedFields DEF OnRecord
  <2> QED
    BY <2>1, <2>2
<1>8. /\ ReviewOf(r) \in reviews'
      /\ ReviewOf(r).mapping = m
      /\ ReviewOf(r).decision = r.decision
      /\ ReviewOf(r).new_digest = r.new.digest
  BY <1>3 DEF ReviewOf, m
<1>9. \A k \in Mappings :
        \/ rows'[k] = rows[k]
        \/ /\ rows[k] # None
           /\ Boxed(rows'[k])
           /\ rows'[k].status = "active" =>
                \E x \in reviews' : x.mapping = k /\ x.decision = "approved"
  BY <1>4, <1>5, <1>6, <1>8
<1>10. \A x \in reviews' : x \in reviews \/ x.new_digest = None
                            \/ OnRecord(x.mapping, x.new_digest)
  BY <1>3, <1>7, <1>8
<1>11. ToolsListed'
  BY NothingFound DEF ReviewCommit
<1>12. \A k \in Mappings : \A d : OnRecord(k, d) => OnRecord(k, d)'
  BY RecordStays DEF ReviewCommit
<1> QED
  BY <1>3, <1>9, <1>10, <1>11, <1>12, SerialSaveStep DEF ReviewCommit

\* What an inspection that is alone makes of each tool of its server: it stores
\* what it found, deletes what is gone, and leaves alone what it takes to be the
\* same.
LEMMA CommittedTools ==
  ASSUME SerialInv, NEW h \in Handlers, InspectCommit(h), NEW t \in ToolNames
  PROVE  LET r   == req[h]
             old == tools[r.server][t]
             new == tools'[r.server][t]
         IN  /\ r.tools[t] = old
             /\ t \in Added(r) \cup Changed(r) =>
                  /\ new # None
                  /\ r.found[t] # None
                  /\ SameDefinition(new, r.found[t])
             /\ t \in Removed(r) => new = None
             /\ t \notin Written(r) => new = old
<1> DEFINE r   == req[h]
           old == tools[r.server][t]
           new == tools'[r.server][t]
<1> PICK id \in RowIds : tools' = [tools EXCEPT ![r.server] = SavedTools(r, id)]
  BY DEF InspectCommit
<1>1. r.server \in Servers /\ r.found \in Listing
  BY RequestFields DEF InspectCommit, SerialInv, IInv, TypeOK
<1>2. r.tools = tools[r.server]
  BY DEF InspectCommit, SerialInv, Undisturbed, Exact, ExactTools
<1>3. new = SavedTools(r, id)[t]
  BY <1>1 DEF SerialInv, IInv, TypeOK
<1>4. old \in ToolRow \cup {None}
  BY <1>1 DEF SerialInv, IInv, TypeOK, ToolTable
<1> HIDE DEF r
<1>5. CASE t \in Added(r)
  <2>1. new = NewToolRow(id, r.found[t])
    BY <1>3, <1>5 DEF SavedTools, Added, Changed, Removed
  <2>2. r.found[t] \in ToolDef /\ r.found[t] # None
    BY <1>1, <1>5 DEF Added, Listing
  <2>3. new \in ToolRow /\ SameDefinition(new, r.found[t])
    BY <2>1, <2>2 DEF NewToolRow, SameDefinition, ToolRow, ToolDef
  <2>4. t \notin Removed(r) /\ t \in Written(r)
    BY <1>5 DEF Added, Removed, Written
  <2> QED
    BY <1>2, <2>2, <2>3, <2>4, NoneIsNull DEF r
<1>6. CASE t \in Changed(r)
  <2>1. new = SaveTool(old, r.found[t], old)
    BY <1>2, <1>3, <1>6 DEF SavedTools, Added, Changed, Removed
  <2>2. r.found[t] \in ToolDef /\ old \in ToolRow
    BY <1>1, <1>2, <1>4, <1>6 DEF Changed, Listing
  <2>3. SameDefinition(new, r.found[t])
    BY <2>1, <2>2, SaveToolExact
  <2>4. new \in ToolRow
    BY <2>1, <2>2 DEF SaveTool, Column, ToolRow, ToolDef
  <2>5. t \notin Removed(r) /\ t \in Written(r) /\ r.found[t] # None
    BY <1>6 DEF Changed, Removed, Written, Affected
  <2> QED
    BY <1>2, <2>3, <2>4, <2>5, NoneIsNull DEF r
<1>7. CASE t \in Removed(r)
  <2>1. StillThere(r, t)
    BY <1>2, <1>7 DEF StillThere, Removed
  <2>2. new = None
    BY <1>3, <1>7, <2>1 DEF SavedTools, Added, Changed, Removed
  <2>3. t \notin Added(r) \cup Changed(r) /\ t \in Written(r)
    BY <1>7 DEF Added, Changed, Removed, Written, Affected
  <2> QED
    BY <1>2, <2>2, <2>3 DEF r
<1>8. CASE t \notin Written(r)
  <2>1. new = old
    BY <1>3, <1>8 DEF SavedTools, Written, Affected
  <2> QED
    BY <1>2, <1>8, <2>1 DEF Written, Affected, r
<1> QED
  BY <1>5, <1>6, <1>7, <1>8 DEF Written, Affected

\* The schema that an inspection overwrites or deletes goes on record.
LEMMA RecordMoves ==
  ASSUME SerialInv, NEW h \in Handlers, InspectCommit(h),
         NEW m \in Mappings, NEW d, OnRecord(m, d)
  PROVE  OnRecord(m, d)'
<1> DEFINE r == req[h]
<1>1. versions' = versions \cup NewVersions(r)
  BY DEF InspectCommit
<1>2. CASE \E v \in versions : v.server = m.server /\ v.digest = d
  BY <1>1, <1>2 DEF OnRecord
<1>3. CASE /\ tools[m.server][m.tool] # None
           /\ ToolDigest(m.tool, tools[m.server][m.tool]) = d
  <2>1. m.server \in Servers /\ m.tool \in ToolNames
    BY MappingFields
  <2>2. CASE m.server # r.server
    <3>1. tools'[m.server] = tools[m.server]
      BY <2>1, <2>2 DEF InspectCommit, SerialInv, IInv, TypeOK
    <3> QED
      BY <1>3, <3>1 DEF OnRecord
  <2>3. CASE m.server = r.server /\ m.tool \notin Written(r)
    <3>1. tools'[m.server][m.tool] = tools[m.server][m.tool]
      BY <2>1, <2>3, CommittedTools
    <3> QED
      BY <1>3, <3>1 DEF OnRecord
  <2>4. CASE m.server = r.server /\ m.tool \in Written(r)
    <3>1. r.tools[m.tool] = tools[m.server][m.tool]
      BY <2>1, <2>4, CommittedTools
    <3>2. m.tool \in Affected(r)
      BY <1>3, <2>4, <3>1 DEF Written, Added
    <3> DEFINE v == [server   |-> r.server,
                     tool     |-> m.tool,
                     digest   |-> ToolDigest(m.tool, r.tools[m.tool]),
                     breaking |-> \/ m.tool \in Removed(r)
                                  \/ IsBreaking(r.tools[m.tool], r.found[m.tool])]
    <3>3. v \in NewVersions(r)
      BY <3>2 DEF NewVersions
    <3>4. v.server = m.server /\ v.digest = d
      BY <1>3, <2>4, <3>1
    <3> HIDE DEF v
    <3> QED
      BY <1>1, <3>3, <3>4 DEF OnRecord
  <2> QED
    BY <2>2, <2>3, <2>4
<1> QED
  BY <1>2, <1>3 DEF OnRecord

LEMMA ToolsStayListed ==
  ASSUME SerialInv, NEW h \in Handlers, InspectCommit(h)
  PROVE  ToolsListed'
<1> DEFINE r == req[h]
<1>1. \A g \in Handlers : req'[g].op # "inspect_flushed"
  BY DEF InspectCommit, Become, SerialInv, OneAtATime, IInv, TypeOK, Idle
<1>2. r.found \in Listings
  BY DEF InspectCommit, SerialInv, ToolsListed
<1>3. ASSUME NEW s \in Servers, NEW t \in ToolNames, tools'[s][t] # None
      PROVE  \E l \in Listings : l[t] # None /\ SameDefinition(tools'[s][t], l[t])
  <2>1. CASE s = r.server /\ t \in Added(r) \cup Changed(r)
    BY <1>2, <2>1, CommittedTools
  <2>2. CASE s = r.server /\ t \in Removed(r)
    BY <1>3, <2>2, CommittedTools
  <2>3. CASE s # r.server \/ t \notin Written(r)
    <3>1. tools'[s][t] = tools[s][t]
      <4>1. CASE s # r.server
        BY <4>1 DEF InspectCommit, SerialInv, IInv, TypeOK
      <4>2. CASE s = r.server /\ t \notin Written(r)
        BY <4>2, CommittedTools
      <4> QED
        BY <2>3, <4>1, <4>2
    <3> QED
      BY <1>3, <3>1 DEF SerialInv, ToolsListed
  <2> QED
    BY <2>1, <2>2, <2>3 DEF Written, Affected
<1> QED
  BY <1>1, <1>3 DEF ToolsListed, SameDefinition

LEMMA SerialInspectCommit ==
  ASSUME SerialInv, IInv', NEW h \in Handlers, InspectCommit(h)
  PROVE  SerialInv'
<1> DEFINE held == req[h].held
           new(m) == MarkStale(rows[m], "stale", "drifted")
<1>1. rows' = [m \in Mappings |-> IF held[m] = None THEN rows[m]
                 ELSE SaveMapping(held[m],
                        MarkStale(held[m], "stale", "drifted"), rows[m])]
  BY DEF InspectCommit, SaveHeld
<1>2. \A m \in Mappings : held[m] # None => held[m] = rows[m] /\ rows[m] \in Row
  BY SavedExactly DEF InspectCommit
<1> HIDE DEF held
<1>3. \A m \in Mappings :
        \/ rows'[m] = rows[m]
        \/ /\ rows[m] # None
           /\ Boxed(rows'[m])
           /\ rows'[m].status # "active"
  <2> SUFFICES ASSUME NEW m \in Mappings, held[m] # None
               PROVE  rows[m] # None /\ Boxed(rows'[m]) /\ rows'[m].status # "active"
    BY <1>1
  <2>1. "drifted" \in FailureClasses
    BY DEF FailureClasses, CriticalClasses
  <2>2. new(m) \in Row
    BY <1>2, <2>1, MarkStaleType DEF Statuses, LimboStatuses
  <2>3. Boxed(new(m)) /\ new(m).status = "stale"
    BY <1>2, <2>1, MarkStaleBoxed
  <2>4. rows'[m] = SaveMapping(rows[m], new(m), rows[m])
    BY <1>1, <1>2
  <2> HIDE DEF new
  <2>5. rows'[m] = new(m)
    BY <1>2, <2>2, <2>4, SaveExact
  <2> QED
    BY <1>2, <2>3, <2>5
<1>4. ToolsListed'
  BY ToolsStayListed
<1>5. \A m \in Mappings : \A d : OnRecord(m, d) => OnRecord(m, d)'
  BY RecordMoves
<1> QED
  BY <1>3, <1>4, <1>5, SerialSaveStep DEF InspectCommit

\* A mapping that is created: live only when nothing collides with it, and with
\* the digest of the tool as it is.
LEMMA SerialCreateInsert ==
  ASSUME SerialInv, IInv', NEW h \in Handlers, CreateInsert(h)
  PROVE  SerialInv'
<1> DEFINE m   == req[h].mapping
           d   == req[h].digest
           new == NewMapping(req[h].collides, d)
<1>1. m \in Mappings /\ d \in SchemaDigest /\ req[h].collides \in BOOLEAN
  BY RequestFields DEF CreateInsert, SerialInv, IInv, TypeOK
<1>2. /\ tools[m.server][m.tool] # None
      /\ d = ToolDigest(m.tool, tools[m.server][m.tool])
      /\ req[h].collides = Collides(m)
  BY DEF CreateInsert, SerialInv, Undisturbed, Exact, ExactCreate
<1>3. /\ Boxed(new)
      /\ new.status = "active" => ~Collides(m)
  BY <1>1, <1>2 DEF NewMapping, Boxed, LimboStatuses
<1>4. /\ rows[m] = None
      /\ rows'   = [rows EXCEPT ![m] = new]
      /\ origin' = [origin EXCEPT ![m] = d]
  BY DEF CreateInsert
<1> HIDE DEF new, d
<1>5. /\ \A k \in Mappings : k # m => rows'[k] = rows[k] /\ origin'[k] = origin[k]
      /\ rows'[m] = new
      /\ origin'[m] = d
  BY <1>1, <1>4 DEF SerialInv, IInv, TypeOK
<1> HIDE DEF m
<1>6. LimboTimeBoxed'
  BY <1>3, <1>5 DEF SerialInv, LimboTimeBoxed, Boxed
<1>7. CollisionGate'
  <2> SUFFICES ASSUME NEW j \in Mappings, NEW k \in Mappings,
                      j.capability = k.capability, j.tool # k.tool,
                      rows'[j] # None, rows'[j].status = "active",
                      rows'[k] # None, rows'[k].status = "active"
               PROVE  \E r \in reviews : r.mapping \in {j, k} /\ r.decision = "approved"
    BY DEF CollisionGate, CreateInsert
  <2>1. CASE j # m /\ k # m
    BY <1>5, <2>1 DEF SerialInv, CollisionGate
  <2>2. CASE j = m
    BY <1>3, <1>5, <2>2 DEF Collides
  <2>3. CASE k = m
    BY <1>3, <1>5, <2>3 DEF Collides
  <2> QED
    BY <2>1, <2>2, <2>3
<1>8. SchemaOnRecord'
  <2>1. UNCHANGED <<tools, versions, reviews>>
    BY DEF CreateInsert
  <2> SUFFICES ASSUME NEW k \in Mappings, NEW e, e # None,
                      e \in {origin'[k]} \cup
                              {r.new_digest : r \in {x \in reviews : x.mapping = k}}
               PROVE  OnRecord(k, e)
    BY <2>1 DEF SchemaOnRecord, OnRecord
  <2>2. CASE k = m /\ e = d
    BY <1>2, <2>2 DEF OnRecord
  <2>3. CASE e \in {origin[k]} \cup {r.new_digest : r \in {x \in reviews : x.mapping = k}}
    BY <2>3 DEF SerialInv, SchemaOnRecord, OnRecord
  <2> QED
    BY <1>5, <2>2, <2>3
<1>9. Undisturbed' /\ ToolsListed'
  BY AloneAgain, NothingFound DEF CreateInsert
<1> QED
  BY <1>6, <1>7, <1>8, <1>9 DEF SerialInv, OneAtATime

----------------------------------------------------------------------------
(* The invariant                                                           *)

LEMMA InitSerialInv == OneAtATime /\ Init => SerialInv
<1> SUFFICES ASSUME OneAtATime, Init PROVE SerialInv
  OBVIOUS
<1>1. Undisturbed
  BY DEF Init, Idle, Undisturbed, Exact, ExactTools, ExactHeld, ExactReview, ExactCreate
<1>2. LimboTimeBoxed /\ CollisionGate
  BY DEF Init, LimboTimeBoxed, CollisionGate
<1>3. SchemaOnRecord
  BY DEF Init, SchemaOnRecord
<1>4. ToolsListed
  <2> PICK listing \in [Servers -> Listings] :
        tools = [s \in Servers |-> [t \in ToolNames |->
                   IF listing[s][t] = None THEN None
                   ELSE NewToolRow(FirstId, listing[s][t])]]
    BY DEF Init
  <2>1. ASSUME NEW s \in Servers, NEW t \in ToolNames, tools[s][t] # None
        PROVE  \E l \in Listings : l[t] # None /\ SameDefinition(tools[s][t], l[t])
    <3>1. listing[s][t] # None /\ tools[s][t] = NewToolRow(FirstId, listing[s][t])
      BY <2>1
    <3>2. SameDefinition(tools[s][t], listing[s][t])
      BY <3>1 DEF NewToolRow, SameDefinition
    <3> QED
      BY <3>1, <3>2
  <2>2. \A h \in Handlers : req[h].op # "inspect_flushed"
    BY DEF Init, Idle
  <2> QED
    BY <2>1, <2>2 DEF ToolsListed
<1> QED
  BY <1>1, <1>2, <1>3, <1>4, InitIInv DEF SerialInv

LEMMA NextSerialInv == SerialInv /\ [Next]_vars => SerialInv'
<1> SUFFICES ASSUME SerialInv, [Next]_vars PROVE SerialInv'
  OBVIOUS
<1>1. IInv'
  BY NextIInv DEF SerialInv
<1>2. CASE UNCHANGED vars
  <2>1. Undisturbed'
    BY <1>2 DEF vars, SerialInv, Undisturbed, Exact, ExactTools, ExactHeld,
                ExactReview, ExactCreate, ActiveOn, Approved, Collides
  <2>2. LimboTimeBoxed' /\ CollisionGate' /\ SchemaOnRecord' /\ ToolsListed'
    BY <1>2 DEF vars, SerialInv, LimboTimeBoxed, CollisionGate, SchemaOnRecord, ToolsListed
  <2> QED
    BY <1>1, <2>1, <2>2 DEF SerialInv, OneAtATime
<1>3. ASSUME NEW h \in Handlers, Inspect(h) PROVE SerialInv'
  BY <1>1, <1>3, SerialInspectLoad, SerialInspectUnreachable, SerialBackToIdle,
     SerialInspectFailCommit, SerialInspectFlush, SerialInspectCommit DEF Inspect
<1>4. ASSUME NEW h \in Handlers, Create(h) PROVE SerialInv'
  BY <1>1, <1>4, SerialCreateRead, SerialCreateCheck, SerialCreateInsert,
     SerialBackToIdle DEF Create
<1>5. ASSUME NEW h \in Handlers, Administer(h) PROVE SerialInv'
  <2>1. CASE \E m \in Mappings : ReviewReject(h, m) \/ ReviewApprove(h, m)
    BY <1>1, <2>1, SerialReviewReject, SerialReviewApprove
  <2>2. CASE \E class \in FailureClasses \cup {None}, ids \in SUBSET Mappings :
               RetireSelect(h, class, ids)
    BY <1>1, <2>2, SerialRetireSelect
  <2>3. CASE ReviewReadTool(h) \/ ReviewCommit(h) \/ RetireCommit(h)
    BY <1>1, <2>3, SerialReviewReadTool, SerialReviewCommit, SerialRetireCommit
  <2> QED
    BY <1>5, <2>1, <2>2, <2>3 DEF Administer
<1> QED
  BY <1>2, <1>3, <1>4, <1>5 DEF Next

----------------------------------------------------------------------------
(* The steps by which an inspection ends                                   *)

LEMMA OnlyItself ==
  ASSUME SerialInv, Next, NEW h \in Handlers,
         req[h].op \in {"inspect_failed", "inspect_flushed"}, req'[h] = Idle
  PROVE  InspectFailCommit(h) \/ InspectCommit(h)
<1>1. \A g \in Handlers : g = h
  BY DEF SerialInv, OneAtATime
<1>2. Inspect(h) \/ Create(h) \/ Administer(h)
  BY <1>1 DEF Next
<1>3. req[h] # Idle
  BY DEF Idle
<1>4. CASE Inspect(h)
  BY <1>3, <1>4 DEF Inspect, InspectLoad, InspectUnreachable, InspectAbort,
     InspectFlush, InspectRollback
<1>5. CASE Create(h)
  BY <1>3, <1>5 DEF Create, CreateRead, CreateCheck, CreateInsert, CreateConflict
<1>6. CASE Administer(h)
  BY <1>3, <1>6 DEF Administer, ReviewReject, ReviewApprove, ReviewReadTool,
     ReviewCommit, RetireSelect, RetireCommit
<1> QED
  BY <1>2, <1>4, <1>5, <1>6

LEMMA FailsClosed ==
  ASSUME SerialInv, [Next]_vars, NEW h \in Handlers, InspectFails(h),
         NEW m \in Mappings, m.server = req[h].server, rows[m] # None
  PROVE  rows'[m].status # "active"
<1> DEFINE held == req[h].held
<1>1. Next
  <2>1. Idle.op # "inspect_failed"
    BY DEF Idle
  <2> QED
    BY <2>1 DEF InspectFails, vars
<1>2. InspectFailCommit(h)
  BY <1>1, OnlyItself DEF InspectFails, InspectCommit
<1>3. rows'[m] = IF held[m] = None THEN rows[m]
                 ELSE SaveMapping(held[m],
                        MarkStale(held[m], "stale-unverified", req[h].failure), rows[m])
  BY <1>2 DEF InspectFailCommit, SaveHeld
<1>4. CASE rows[m].status = "active"
  <2>1. held[m] = rows[m] /\ rows[m] \in Row
    BY <1>4, SavedExactly DEF InspectFails, SerialInv, Undisturbed, Exact, ExactHeld,
       ActiveOn, IInv, TypeOK
  <2>2. req[h].failure \in FailureClasses
    BY RequestFields DEF InspectFails, SerialInv, IInv, TypeOK, FailureClasses
  <2> DEFINE new == MarkStale(rows[m], "stale-unverified", req[h].failure)
  <2>3. new \in Row
    BY <2>1, <2>2, MarkStaleType DEF Statuses, LimboStatuses
  <2>4. new.status = "stale-unverified"
    BY <2>1, <2>2, MarkStaleBoxed
  <2>5. rows'[m] = SaveMapping(rows[m], new, rows[m])
    BY <1>3, <2>1
  <2> HIDE DEF new
  <2> QED
    BY <2>1, <2>3, <2>4, <2>5, SaveExact
<1>5. CASE rows[m].status # "active"
  <2>1. held[m] = None
    <3>1. held[m] # None => held[m] = rows[m] /\ held[m].status = "active"
      BY SavedExactly, HeldByInspection DEF InspectFails, SerialInv
    <3> QED
      BY <1>5, <3>1
  <2> QED
    BY <1>3, <1>5, <2>1
<1> QED
  BY <1>4, <1>5

\* Where the two notions of a change agree, what the comparison takes for the
\* same tool has the same digest.
LEMMA DriftShows ==
  ASSUME SerialInv, ComparisonSeesDigests, [Next]_vars,
         NEW h \in Handlers, InspectSucceeds(h),
         NEW m \in Mappings, m.server = req[h].server, Routable(m)'
  PROVE  /\ req[h].found[m.tool] # None
         /\ rows'[m].digest = ToolDigest(m.tool, req[h].found[m.tool])
<1> DEFINE r   == req[h]
           t   == m.tool
           old == tools[m.server][t]
           new == tools'[m.server][t]
<1>1. InspectCommit(h)
  <2>1. Idle.op # "inspect_flushed"
    BY DEF Idle
  <2>2. Next
    BY <2>1 DEF InspectSucceeds, vars
  <2> QED
    BY <2>2, OnlyItself DEF InspectSucceeds, InspectFailCommit
<1>2. new # None /\ rows'[m].digest = ToolDigest(t, new)
  BY DEF Routable
<1>3. m.server \in Servers /\ t \in ToolNames
  BY MappingFields
<1>4. CASE t \in Added(r) \cup Changed(r)
  <2>1. r.found[t] # None /\ SameDefinition(new, r.found[t])
    BY <1>1, <1>3, <1>4, CommittedTools
  <2>2. ToolDigest(t, new) = ToolDigest(t, r.found[t])
    BY <2>1 DEF SameDefinition, ToolDigest
  <2> QED
    BY <1>2, <2>1, <2>2
<1>5. CASE t \in Removed(r)
  BY <1>1, <1>2, <1>3, <1>5, CommittedTools
<1>6. CASE t \notin Written(r)
  <2>1. r.tools[t] = old /\ new = old
    BY <1>1, <1>3, <1>6, CommittedTools
  <2>2. r.found[t] # None /\ ~IsChanged(old, r.found[t])
    BY <1>2, <1>3, <1>6, <2>1 DEF Written, Affected, Removed, Changed
  <2>3. r.found \in Listings
    BY <1>1 DEF InspectCommit, SerialInv, ToolsListed
  <2> PICK l \in Listings : l[t] # None /\ SameDefinition(old, l[t])
    BY <1>2, <1>3, <2>1 DEF SerialInv, ToolsListed
  <2>4. ~IsChanged(l[t], r.found[t])
    BY <2>2 DEF SameDefinition, IsChanged, ParamsAdded, ParamsRemoved, NowRequired
  <2>5. ToolDigest(t, l[t]) = ToolDigest(t, r.found[t])
    BY <1>3, <2>2, <2>3, <2>4 DEF ComparisonSeesDigests
  <2>6. ToolDigest(t, old) = ToolDigest(t, l[t])
    BY DEF SameDefinition, ToolDigest
  <2> QED
    BY <1>2, <2>1, <2>2, <2>5, <2>6
<1> QED
  BY <1>4, <1>5, <1>6 DEF Written, Affected

----------------------------------------------------------------------------
(* Theorems                                                                *)

\* The inductive invariant holds in every reachable state, whatever the number of
\* servers, tools, capabilities and listings, when requests do not overlap.
THEOREM SerialInductive == OneAtATime /\ Spec => []SerialInv
<1>1. OneAtATime /\ Init => SerialInv
  BY InitSerialInv
<1>2. SerialInv /\ [Next]_vars => SerialInv'
  BY NextSerialInv
<1> QED
  BY <1>1, <1>2, PTL DEF Spec

\* When requests do not overlap, a clock runs exactly while a mapping waits for
\* review, through any sequence of inspections, approvals and retirements
\* (registry_service.inspect, capability_service.review_mapping, bulk_retire).
THEOREM ClocksAreRight == OneAtATime /\ Spec => []LimboTimeBoxed
<1>1. SerialInv => LimboTimeBoxed
  BY DEF SerialInv
<1> QED
  BY <1>1, SerialInductive, PTL

\* When requests do not overlap, two tools serve one capability only after an
\* administrator approved one of them (create_mapping, #441).
THEOREM CollisionsWait == OneAtATime /\ Spec => []CollisionGate
<1>1. SerialInv => CollisionGate
  BY DEF SerialInv
<1> QED
  BY <1>1, SerialInductive, PTL

\* When requests do not overlap, every schema that was ever accepted is the tool's
\* present one or in tool_versions (registry_service.inspect, review_mapping).
THEOREM SchemasKept == OneAtATime /\ Spec => []SchemaOnRecord
<1>1. SerialInv => SchemaOnRecord
  BY DEF SerialInv
<1> QED
  BY <1>1, SerialInductive, PTL

\* When requests do not overlap, no mapping to a server is live after an inspection
\* that could not reach it (registry_service.inspect, #444).
THEOREM FailsClosedAlways == OneAtATime /\ Spec => FailClosed
<1>1. SerialInv /\ [Next]_vars =>
        [\A h \in Handlers : InspectFails(h) =>
           \A m \in Mappings :
             m.server = req[h].server /\ rows[m] # None =>
               rows'[m].status # "active"]_vars
  BY FailsClosed
<1> QED
  BY <1>1, SerialInductive, PTL DEF FailClosed, Spec

\* When requests do not overlap, and whatever changes a digest is something that
\* compare_tool_definitions looks at, an inspection leaves nothing routable under
\* a schema other than the one it just saw (registry_service.inspect).
THEOREM DriftIsDetected ==
  OneAtATime /\ ComparisonSeesDigests /\ Spec => DriftDetected
<1>1. ComparisonSeesDigests => ComparisonSeesDigests'
  OBVIOUS
<1>2. ComparisonSeesDigests /\ SerialInv /\ [Next]_vars =>
        [\A h \in Handlers : InspectSucceeds(h) =>
           \A m \in Mappings :
             m.server = req[h].server /\ Routable(m)' =>
               /\ req[h].found[m.tool] # None
               /\ rows'[m].digest = ToolDigest(m.tool, req[h].found[m.tool])]_vars
  BY DriftShows
<1> QED
  BY <1>1, <1>2, SerialInductive, PTL DEF DriftDetected, Spec
=============================================================================
