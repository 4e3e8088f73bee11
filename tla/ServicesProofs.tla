--------------------------- MODULE ServicesProofs ----------------------------
(***************************************************************************)
(* What holds of Routing, AuditTrail and ResourceBindings for every number *)
(* of mappings, tools, events, rules, owners and overlapping requests, and *)
(* of all the services together.                                           *)
(***************************************************************************)
EXTENDS MCServices, AccessProofs, FiniteSetTheorems, SequenceTheorems, TLAPS

(***************************************************************************)
(* Routing.                                                                *)
(***************************************************************************)
CallStates == {"waiting", "refused", "resolved", "alias", "walk", "selected", "no server", "called", "allowed"}

\* A walk reads the candidates as they were, heaviest first.  A mapping that has been routable
\* all the time is still before it, and neither its digest nor its tool's has changed.
WalksWell(c, mappings, tools) ==
    /\ c = [at |-> "walk", left |-> c.left, rows |-> c.rows, kept |-> c.kept]
    /\ c.left \in Seq(DOMAIN c.rows)
    /\ DOMAIN c.rows \subseteq RouteMappings /\ \A m \in DOMAIN c.rows : c.rows[m] \in Mapping
    /\ \A i, j \in DOMAIN c.left : i < j => c.rows[c.left[i]].weight >= c.rows[c.left[j]].weight
    /\ c.kept \subseteq Routable(mappings, tools) \cap DOMAIN c.rows
    /\ \A m \in c.kept : /\ tools[ToolOf[m]] = c.rows[m].digest
                         /\ \E i \in DOMAIN c.left : c.left[i] = m
CallHolds(c, mappings, tools) ==
    /\ c.at \in CallStates
    /\ c.at = "walk" => WalksWell(c, mappings, tools)
    /\ c.at \in {"selected", "no server"} => c.best
RoutingInv ==
    /\ RoutingTypeOK
    /\ call = [r \in Calls |-> call[r]]
    /\ \A r \in Calls : CallHolds(call[r], mapping, tool)

LEMMA RoutingInitInv == RoutingInit => RoutingInv
<1> SUFFICES ASSUME RoutingInit PROVE RoutingInv OBVIOUS
<1>1. RoutingTypeOK BY RoutingAssumption DEF RoutingInit, RoutingTypeOK, Mapping, CapabilityStatuses
<1>2. \A r \in Calls : call[r] = Waiting BY DEF RoutingInit
<1>3. CallHolds(Waiting, mapping, tool) BY DEF CallHolds, Waiting, CallStates
<1> QED BY <1>1, <1>2, <1>3 DEF RoutingInv, RoutingInit

\* A walk that goes on while a mapping or a tool changes.
LEMMA WalkGoesOn ==
    ASSUME NEW c, NEW ms, NEW ts, NEW ms2, NEW ts2, WalksWell(c, ms, ts), ms2 = ms \/ ts2 = ts,
           NEW n, n = [at |-> "walk", left |-> c.left, rows |-> c.rows, kept |-> c.kept \cap Routable(ms2, ts2)]
    PROVE  n.at = "walk" /\ WalksWell(n, ms2, ts2)
<1>1. PICK left, rows, kept : c = [at |-> "walk", left |-> left, rows |-> rows, kept |-> kept]
  BY DEF WalksWell
<1>2. n = [at |-> "walk", left |-> left, rows |-> rows, kept |-> kept \cap Routable(ms2, ts2)] BY <1>1
<1>3. /\ c.left = left /\ c.rows = rows /\ c.kept = kept
      /\ n.at = "walk" /\ n.left = left /\ n.rows = rows /\ n.kept = kept \cap Routable(ms2, ts2)
  BY <1>1, <1>2
<1>4. n = [at |-> "walk", left |-> n.left, rows |-> n.rows, kept |-> n.kept] BY <1>2, <1>3
<1>5. ASSUME NEW m \in n.kept PROVE ts2[ToolOf[m]] = n.rows[m].digest
  <2>1. m \in Routable(ms, ts) /\ m \in Routable(ms2, ts2) /\ ts[ToolOf[m]] = c.rows[m].digest
    BY <1>3 DEF WalksWell
  <2>2. ts[ToolOf[m]] = ms[m].digest /\ ts2[ToolOf[m]] = ms2[m].digest BY <2>1 DEF Routable
  <2> QED BY <1>3, <2>1, <2>2
<1>6. n.kept \subseteq Routable(ms2, ts2) \cap DOMAIN n.rows BY <1>3 DEF WalksWell
<1>7. \A m \in n.kept : \E i \in DOMAIN n.left : n.left[i] = m BY <1>3 DEF WalksWell
<1>8. /\ n.left \in Seq(DOMAIN n.rows)
      /\ DOMAIN n.rows \subseteq RouteMappings /\ \A m \in DOMAIN n.rows : n.rows[m] \in Mapping
      /\ \A i, j \in DOMAIN n.left : i < j => n.rows[n.left[i]].weight >= n.rows[n.left[j]].weight
  BY <1>3 DEF WalksWell
<1>9. WalksWell(n, ms2, ts2) BY <1>4, <1>5, <1>6, <1>7, <1>8 DEF WalksWell
<1> QED BY <1>3, <1>9
LEMMA ChangeKeepsCalls ==
    ASSUME NEW c, NEW ms, NEW ts, NEW ms2, NEW ts2, CallHolds(c, ms, ts), ms2 = ms \/ ts2 = ts
    PROVE  CallHolds(IF c.at = "walk" THEN [c EXCEPT !.kept = @ \cap Routable(ms2, ts2)] ELSE c, ms2, ts2)
<1>1. CASE c.at # "walk" BY <1>1 DEF CallHolds
<1>2. CASE c.at = "walk"
  <2>1. PICK n : n = [c EXCEPT !.kept = @ \cap Routable(ms2, ts2)] OBVIOUS
  <2>2. WalksWell(c, ms, ts) BY <1>2 DEF CallHolds
  <2>3. n = [at |-> "walk", left |-> c.left, rows |-> c.rows, kept |-> c.kept \cap Routable(ms2, ts2)]
    <3>1. PICK left, rows, kept : c = [at |-> "walk", left |-> left, rows |-> rows, kept |-> kept]
      BY <2>2 DEF WalksWell
    <3> QED BY <2>1, <3>1
  <2>b. n.at = "walk" /\ WalksWell(n, ms2, ts2) BY <2>2, <2>3, WalkGoesOn
  <2>4. CallHolds(n, ms2, ts2) BY <2>b DEF CallHolds, CallStates
  <2> QED BY <1>2, <2>1, <2>4
<1> QED BY <1>1, <1>2

\* A step of one request leaves the others' walks as they are.
LEMMA CallKeepsInv ==
    ASSUME RoutingInv, NEW r \in Calls, NEW c, Calling(r, c), Elsewhere, CallHolds(c, mapping, tool)
    PROVE  RoutingInv'
<1>1. RoutingTypeOK' BY DEF RoutingInv, RoutingTypeOK, Elsewhere
<1>2. call' = [call EXCEPT ![r] = c] /\ UNCHANGED <<mapping, tool>> BY DEF Calling, Elsewhere
<1>3. call' = [q \in Calls |-> call'[q]] BY <1>2 DEF RoutingInv
<1>4. ASSUME NEW q \in Calls PROVE CallHolds(call'[q], mapping', tool')
  <2>1. call'[q] = IF q = r THEN c ELSE call[q] BY <1>2 DEF RoutingInv
  <2> QED BY <1>2, <2>1 DEF RoutingInv
<1> QED BY <1>1, <1>3, <1>4 DEF RoutingInv

LEMMA CandidatesHold ==
    ASSUME RoutingInv, NEW r \in Calls, Candidates(r) PROVE RoutingInv'
<1> DEFINE active == {m \in RouteMappings : mapping[m].status = "active"}
<1>1. PICK s \in [1..Cardinality(active) -> active] :
         /\ \A m \in active : \E i \in DOMAIN s : s[i] = m
         /\ Ordered(s)
         /\ Calling(r, [at |-> "walk", left |-> s, rows |-> [m \in active |-> mapping[m]],
                        kept |-> Routable(mapping, tool)])
  BY DEF Candidates
<1>2. PICK c : c = [at |-> "walk", left |-> s, rows |-> [m \in active |-> mapping[m]],
                    kept |-> Routable(mapping, tool)]
  OBVIOUS
<1>3. Cardinality(active) \in Nat BY RoutingAssumption, FS_Subset, FS_CardinalityType
<1>4. s \in Seq(active) /\ DOMAIN s = 1..Cardinality(active) BY <1>3, SeqDef
<1>5. /\ c.at = "walk" /\ c.left = s /\ c.kept = Routable(mapping, tool)
      /\ c.rows = [m \in active |-> mapping[m]] /\ DOMAIN c.rows = active
  BY <1>2
<1>6. mapping \in [RouteMappings -> Mapping] BY DEF RoutingInv, RoutingTypeOK
<1>7. WalksWell(c, mapping, tool)
  <2>1. c = [at |-> "walk", left |-> c.left, rows |-> c.rows, kept |-> c.kept] BY <1>2, <1>5
  <2>2. c.left \in Seq(DOMAIN c.rows) BY <1>4, <1>5
  <2>3. DOMAIN c.rows \subseteq RouteMappings /\ \A m \in DOMAIN c.rows : c.rows[m] \in Mapping
    BY <1>5, <1>6
  <2>4. \A i, j \in DOMAIN c.left : i < j => c.rows[c.left[i]].weight >= c.rows[c.left[j]].weight
    BY <1>1, <1>4, <1>5 DEF Ordered, Heaviest
  <2>5. c.kept \subseteq Routable(mapping, tool) \cap DOMAIN c.rows BY <1>5 DEF Routable
  <2>6. ASSUME NEW m \in c.kept
        PROVE tool[ToolOf[m]] = c.rows[m].digest /\ \E i \in DOMAIN c.left : c.left[i] = m
    BY <1>1, <1>5, <2>6 DEF Routable
  <2> QED BY <2>1, <2>2, <2>3, <2>4, <2>5, <2>6 DEF WalksWell
<1>8. CallHolds(c, mapping, tool) BY <1>5, <1>7 DEF CallHolds, CallStates
<1>9. Calling(r, c) /\ Elsewhere BY <1>1, <1>2 DEF Candidates
<1> QED BY <1>8, <1>9, CallKeepsInv

LEMMA CheckToolHolds ==
    ASSUME RoutingInv, NEW r \in Calls, CheckTool(r) PROVE RoutingInv'
<1> PICK c : c = call[r] OBVIOUS
<1> DEFINE m == Head(c.left)
           class == IF ToolOf[m] \in Mutating THEN "mutating" ELSE "read_only"
<1>1. /\ c.left # <<>> /\ WalksWell(c, mapping, tool) /\ c.at = "walk" /\ Elsewhere
      /\ Calling(r, IF tool[ToolOf[m]] = c.rows[m].digest
                    THEN [at |-> "selected", mapping |-> m, status |-> c.rows[m].status, class |-> class,
                          best |-> \A k \in c.kept : c.rows[k].weight <= c.rows[m].weight]
                    ELSE [c EXCEPT !.left = Tail(@)])
  BY DEF CheckTool, RoutingInv, CallHolds
<1>2. /\ c.left \in Seq(DOMAIN c.rows) /\ m = c.left[1] /\ m \in DOMAIN c.rows
      /\ Len(c.left) \in Nat /\ Len(c.left) >= 1 /\ DOMAIN c.left = 1..Len(c.left)
  BY <1>1 DEF WalksWell
<1>3. CASE tool[ToolOf[m]] = c.rows[m].digest
  <2>1. ASSUME NEW k \in c.kept PROVE c.rows[k].weight <= c.rows[m].weight
    <3>1. PICK i \in DOMAIN c.left : c.left[i] = k BY <1>1 DEF WalksWell
    <3>2. c.rows[k].weight \in Int /\ c.rows[m].weight \in Int
      BY <1>1, <1>2, RoutingAssumption DEF WalksWell, Mapping
    <3>3. CASE i = 1 BY <1>2, <3>1, <3>2, <3>3
    <3>4. CASE i # 1
      <4>1. 1 \in DOMAIN c.left /\ 1 < i BY <1>2, <3>4
      <4> QED BY <1>1, <1>2, <3>1, <3>2, <4>1 DEF WalksWell
    <3> QED BY <3>3, <3>4
  <2>2. PICK n : n = [at |-> "selected", mapping |-> m, status |-> c.rows[m].status, class |-> class,
                      best |-> \A k \in c.kept : c.rows[k].weight <= c.rows[m].weight]
    OBVIOUS
  <2>3. CallHolds(n, mapping, tool) BY <2>1, <2>2 DEF CallHolds, CallStates
  <2>4. Calling(r, n) BY <1>1, <1>3, <2>2
  <2> QED BY <1>1, <2>3, <2>4, CallKeepsInv
<1>4. CASE tool[ToolOf[m]] # c.rows[m].digest
  <2>1. PICK n : n = [c EXCEPT !.left = Tail(@)] OBVIOUS
  <2>2. /\ n = [at |-> "walk", left |-> n.left, rows |-> n.rows, kept |-> n.kept]
        /\ n.at = "walk" /\ n.left = Tail(c.left) /\ n.rows = c.rows /\ n.kept = c.kept
    BY <1>1, <2>1 DEF WalksWell
  <2>a. /\ Tail(c.left) \in Seq(DOMAIN c.rows) /\ Len(Tail(c.left)) = Len(c.left) - 1
        /\ \A i \in 1..Len(Tail(c.left)) : Tail(c.left)[i] = c.left[i + 1]
    BY <1>1, <1>2, HeadTailProperties
  <2>b. DOMAIN n.left = 1..(Len(c.left) - 1) BY <2>2, <2>a
  <2>3. /\ n.left \in Seq(DOMAIN n.rows)
        /\ DOMAIN n.left = 1..(Len(c.left) - 1)
        /\ \A i \in DOMAIN n.left : n.left[i] = c.left[i + 1] /\ i + 1 \in DOMAIN c.left
    BY <1>2, <2>2, <2>a, <2>b
  <2>4. \A i, j \in DOMAIN n.left : i < j => n.rows[n.left[i]].weight >= n.rows[n.left[j]].weight
    <3> SUFFICES ASSUME NEW i \in DOMAIN n.left, NEW j \in DOMAIN n.left, i < j
                 PROVE  n.rows[n.left[i]].weight >= n.rows[n.left[j]].weight
      OBVIOUS
    <3>1. i + 1 < j + 1 /\ i + 1 \in DOMAIN c.left /\ j + 1 \in DOMAIN c.left
      BY <1>2, <2>3
    <3> QED BY <1>1, <2>2, <2>3, <3>1 DEF WalksWell
  <2>5. ASSUME NEW k \in n.kept PROVE \E i \in DOMAIN n.left : n.left[i] = k
    <3>1. PICK j \in DOMAIN c.left : c.left[j] = k BY <1>1, <2>2 DEF WalksWell
    <3>2. k # m BY <1>1, <1>4, <2>2 DEF WalksWell
    <3>3. j # 1 BY <1>2, <3>1, <3>2
    <3>4. j - 1 \in DOMAIN n.left /\ (j - 1) + 1 = j BY <1>2, <2>3, <3>1, <3>3
    <3> QED BY <2>3, <3>1, <3>4
  <2>6. WalksWell(n, mapping, tool) BY <1>1, <2>2, <2>3, <2>4, <2>5 DEF WalksWell
  <2>7. CallHolds(n, mapping, tool) BY <2>2, <2>6 DEF CallHolds, CallStates
  <2>8. Calling(r, n) BY <1>1, <1>4, <2>1
  <2> QED BY <1>1, <2>7, <2>8, CallKeepsInv
<1> QED BY <1>3, <1>4

LEMMA NoServerHolds ==
    ASSUME RoutingInv, NEW r \in Calls, NoServerFound(r) PROVE RoutingInv'
<1>1. PICK n : n = [at |-> "no server", best |-> call[r].kept = {}] OBVIOUS
<1>2. WalksWell(call[r], mapping, tool) /\ call[r].left = <<>> BY DEF NoServerFound, RoutingInv, CallHolds
<1>3. call[r].kept = {} BY <1>2 DEF WalksWell
<1>4. CallHolds(n, mapping, tool) BY <1>1, <1>3 DEF CallHolds, CallStates
<1>5. Calling(r, n) /\ Elsewhere BY <1>1 DEF NoServerFound
<1> QED BY <1>4, <1>5, CallKeepsInv

\* The steps after which nothing more is promised of a request.
LEMMA OtherStepsHold ==
    ASSUME RoutingInv, NEW r \in Calls, NEW c, Calling(r, c), Elsewhere,
           c.at \in CallStates \ {"walk", "selected", "no server"}
    PROVE  RoutingInv'
<1>1. CallHolds(c, mapping, tool) BY DEF CallHolds
<1> QED BY <1>1, CallKeepsInv

LEMMA RequestHolds ==
    ASSUME RoutingInv, NEW r \in Calls, Request(r) PROVE RoutingInv'
<1>1. CASE \E n \in Aliases \cup {CapName} : ResolveName(r, n)
  <2>1. PICK n : ResolveName(r, n) BY <1>1
  <2>2. PICK c : c = IF n = CapName /\ capability # Absent THEN [at |-> "resolved"] ELSE [at |-> "alias", name |-> n]
    OBVIOUS
  <2>3. Calling(r, c) /\ Elsewhere BY <2>1, <2>2 DEF ResolveName
  <2>4. c.at \in {"resolved", "alias"} BY <2>2
  <2> QED BY <2>3, <2>4, OtherStepsHold DEF CallStates
<1>2. CASE ResolveAlias(r)
  <2>1. PICK c : c = IF call[r].name \in alias THEN [at |-> "resolved"] ELSE Refused OBVIOUS
  <2>2. Calling(r, c) /\ Elsewhere BY <1>2, <2>1 DEF ResolveAlias
  <2>3. c.at \in {"resolved", "refused"} BY <2>1 DEF Refused
  <2> QED BY <2>2, <2>3, OtherStepsHold DEF CallStates
<1>3. CASE Candidates(r) BY <1>3, CandidatesHold
<1>4. CASE CheckTool(r) BY <1>4, CheckToolHolds
<1>5. CASE NoServerFound(r) BY <1>5, NoServerHolds
<1>6. CASE Anonymous(r)
  <2>1. PICK c : c = [at |-> "called", readOnly |-> FALSE, class |-> call[r].class] OBVIOUS
  <2>2. Calling(r, c) /\ Elsewhere BY <1>6, <2>1 DEF Anonymous
  <2>3. c.at = "called" BY <2>1
  <2> QED BY <2>2, <2>3, OtherStepsHold DEF CallStates
<1>7. CASE \E readOnly \in BOOLEAN : Evaluate(r, readOnly)
  <2>1. PICK readOnly \in BOOLEAN : Evaluate(r, readOnly) BY <1>7
  <2>2. PICK c : c = IF Denies(Decide(PolicyInput(call[r], readOnly, <<>>, <<>>))) THEN Refused
                     ELSE [at |-> "allowed", readOnly |-> readOnly, class |-> call[r].class, status |-> call[r].status]
    OBVIOUS
  <2>3. Calling(r, c) /\ Elsewhere BY <2>1, <2>2 DEF Evaluate
  <2>4. c.at \in {"refused", "allowed"} BY <2>2 DEF Refused
  <2> QED BY <2>3, <2>4, OtherStepsHold DEF CallStates
<1>8. CASE \E requested \in Requested, own, ofPacks \in Bindings : Resources(r, requested, own, ofPacks)
  <2>1. PICK requested \in Requested, own \in Bindings, ofPacks \in Bindings : Resources(r, requested, own, ofPacks)
    BY <1>8
  <2>2. PICK c : /\ Calling(r, c) /\ Elsewhere
                 /\ \/ c = Refused
                    \/ c = [at |-> "called", readOnly |-> call[r].readOnly, class |-> call[r].class]
    <3> DEFINE denied == /\ DOMAIN requested # {} /\ DOMAIN Merge(own, ofPacks) # {}
                         /\ ~Decide(PolicyInput(call[r], call[r].readOnly, Merge(own, ofPacks), requested)).resource_allowed
    <3>1. /\ Elsewhere
          /\ Calling(r, IF denied THEN Refused
                        ELSE [at |-> "called", readOnly |-> call[r].readOnly, class |-> call[r].class])
      BY <2>1 DEF Resources
    <3> HIDE DEF denied
    <3> QED BY <3>1
  <2>3. c.at \in {"refused", "called"} BY <2>2 DEF Refused
  <2> QED BY <2>2, <2>3, OtherStepsHold DEF CallStates
<1>9. CASE CallEnds(r)
  <2>1. Calling(r, Waiting) /\ Elsewhere /\ Waiting.at = "waiting" BY <1>9 DEF CallEnds, Waiting
  <2> QED BY <2>1, OtherStepsHold DEF CallStates
<1> QED BY <1>1, <1>2, <1>3, <1>4, <1>5, <1>6, <1>7, <1>8, <1>9 DEF Request

LEMMA RoutingNextInv == RoutingInv /\ [RoutingNext]_routingVars => RoutingInv'
<1> SUFFICES ASSUME RoutingInv, [RoutingNext]_routingVars PROVE RoutingInv' OBVIOUS
<1>0. RoutingTypeOK /\ call = [r \in Calls |-> call[r]] BY DEF RoutingInv
<1>s. ASSUME UNCHANGED <<mapping, tool, call>>, RoutingTypeOK' PROVE RoutingInv'
  <2>1. RoutingTypeOK' /\ call' = call /\ mapping' = mapping /\ tool' = tool BY <1>s
  <2> QED BY <2>1 DEF RoutingInv
<1>1. CASE UNCHANGED routingVars
  BY <1>0, <1>1, <1>s DEF routingVars, RoutingTypeOK
<1>2. CASE CreateCapability
  BY <1>0, <1>2, <1>s, RoutingAssumption DEF CreateCapability, RoutingTypeOK, CapabilityStatuses
<1>3. CASE Deprecate
  BY <1>0, <1>3, <1>s, RoutingAssumption DEF Deprecate, RoutingTypeOK, CapabilityStatuses
<1>4. ASSUME NEW n \in Aliases, AddAlias(n) PROVE RoutingInv'
  BY <1>0, <1>4, <1>s DEF AddAlias, RoutingTypeOK
<1>5. ASSUME NEW m \in RouteMappings, NEW s \in {"active", "stale"}, NEW d \in Digests, MappingChanges(m, s, d)
      PROVE RoutingInv'
  <2>1. mapping' = [mapping EXCEPT ![m] = [mapping[m] EXCEPT !.status = s, !.digest = d]]
    BY <1>0, <1>5 DEF MappingChanges, RoutingTypeOK
  <2>2. [mapping[m] EXCEPT !.status = s, !.digest = d] \in Mapping
    BY <1>0 DEF RoutingTypeOK, Mapping
  <2>3. mapping' \in [RouteMappings -> Mapping] BY <1>0, <2>1, <2>2 DEF RoutingTypeOK
  <2>4. RoutingTypeOK' BY <1>0, <1>5, <2>3 DEF MappingChanges, RoutingTypeOK
  <2>5. tool' = tool /\ call' = [q \in Calls |->
              IF call[q].at = "walk" THEN [call[q] EXCEPT !.kept = @ \cap Routable(mapping', tool')] ELSE call[q]]
    BY <1>5 DEF MappingChanges, StillRoutable
  <2>6. ASSUME NEW r \in Calls PROVE CallHolds(call'[r], mapping', tool')
    BY <2>5, ChangeKeepsCalls DEF RoutingInv
  <2> QED BY <2>4, <2>5, <2>6 DEF RoutingInv
<1>6. ASSUME NEW t \in RouteTools, NEW d \in Digests \cup {Absent}, ToolChanges(t, d) PROVE RoutingInv'
  <2>1. RoutingTypeOK' BY <1>0, <1>6 DEF ToolChanges, RoutingTypeOK
  <2>2. mapping' = mapping /\ call' = [q \in Calls |->
              IF call[q].at = "walk" THEN [call[q] EXCEPT !.kept = @ \cap Routable(mapping', tool')] ELSE call[q]]
    BY <1>6 DEF ToolChanges, StillRoutable
  <2>3. ASSUME NEW r \in Calls PROVE CallHolds(call'[r], mapping', tool')
    BY <2>2, ChangeKeepsCalls DEF RoutingInv
  <2> QED BY <2>1, <2>2, <2>3 DEF RoutingInv
<1>7. ASSUME NEW r \in Calls, Request(r) PROVE RoutingInv' BY <1>7, RequestHolds
<1> QED BY <1>1, <1>2, <1>3, <1>4, <1>5, <1>6, <1>7 DEF RoutingNext

\* However mappings and tools change while a request walks over its candidates, it selects a
\* mapping only if none heavier was routable all the time, and gives up only if none was.
THEOREM SelectsTheBest == RoutingSpec => []CallsBestRoutable
<1>1. RoutingInv => CallsBestRoutable BY DEF RoutingInv, CallHolds, CallsBestRoutable
<1> QED BY <1>1, RoutingInitInv, RoutingNextInv, PTL DEF RoutingSpec

THEOREM RoutingTypesHold == RoutingSpec => []RoutingTypeOK
<1>1. RoutingInv => RoutingTypeOK BY DEF RoutingInv
<1> QED BY <1>1, RoutingInitInv, RoutingNextInv, PTL DEF RoutingSpec
------------------------------------------------------------------------------
(***************************************************************************)
(* The audit log and the alerts.                                           *)
(***************************************************************************)
AlertRow == [rule: AlertRules, by: Admins \cup {None}]
\* An alert that is being fired names a rule; an evaluation has read rules that were there.
AlertTaskHolds(t) ==
    /\ t.op = "fire" => t.rule \in AlertRules
    /\ t.op = "evaluate" =>
          /\ t = [op |-> "evaluate", verdict |-> t.verdict, left |-> t.left, rules |-> t.rules]
          /\ t.left \subseteq AlertRules /\ \A u \in t.left : t.rules[u] \in Rule
AuditInv ==
    /\ AuditTypeOK
    /\ alert \in [Alerts -> AlertRow \cup {None}]
    /\ doing = [r \in AlertRequests |-> doing[r]]
    /\ \A r \in AlertRequests : doing[r] # None => AlertTaskHolds(doing[r])

LEMMA AuditInitInv == AuditInit => AuditInv
BY DEF AuditInit, AuditInv, AuditTypeOK

\* The log: events come, age and go, and nothing else changes.
LEMMA LogChanges ==
    ASSUME AuditInv, event' \in [Events -> Event \cup {None}], UNCHANGED <<rule, alert, doing>>
    PROVE  AuditInv'
<1>1. AuditTypeOK' BY DEF AuditInv, AuditTypeOK
<1> QED BY <1>1 DEF AuditInv

LEMMA EventsChange ==
    ASSUME AuditInv,
           (\E e \in Events, m \in Metrics : LogEvent(e, m)) \/ TimePasses \/ CleanUp \/ CleanUpTask
    PROVE  AuditInv'
<1>0. event \in [Events -> Event \cup {None}] BY DEF AuditInv, AuditTypeOK
<1>r. Retention \in Nat /\ 0 \in EventAges /\ \A n \in EventAges : n \in Nat BY AuditAssumption DEF EventAges
<1>d. ASSUME NEW S, Deleting(S), S \subseteq Logged, UNCHANGED <<rule, alert, doing>> PROVE AuditInv'
  <2>1. ASSUME NEW e \in S PROVE [event[e] EXCEPT !.there = FALSE] \in Event
    <3>1. event[e] \in Event BY <1>0, <1>d, <2>1 DEF Logged
    <3> QED BY <3>1 DEF Event
  <2>2. event' \in [Events -> Event \cup {None}] BY <1>0, <1>d, <2>1 DEF Deleting
  <2> QED BY <1>d, <2>2, LogChanges
<1>1. ASSUME NEW e \in Events, NEW m \in Metrics, LogEvent(e, m) PROVE AuditInv'
  <2>1. [metric |-> m, age |-> 0, there |-> TRUE] \in Event BY <1>r DEF Event
  <2>2. event' \in [Events -> Event \cup {None}] BY <1>0, <1>1, <2>1 DEF LogEvent
  <2> QED BY <1>1, <2>2, LogChanges DEF LogEvent
<1>2. CASE TimePasses
  <2>1. ASSUME NEW e \in Logged, event[e].age <= Retention PROVE [event[e] EXCEPT !.age = @ + 1] \in Event
    <3>1. event[e] \in Event BY <1>0 DEF Logged
    <3>2. event[e].age \in EventAges BY <3>1 DEF Event
    <3>3. event[e].age + 1 \in EventAges BY <1>r, <2>1, <3>2 DEF EventAges
    <3> QED BY <3>1, <3>3 DEF Event
  <2>2. event' \in [Events -> Event \cup {None}] BY <1>0, <1>2, <2>1 DEF TimePasses
  <2> QED BY <1>2, <2>2, LogChanges DEF TimePasses
<1>3. CASE CleanUp BY <1>3, <1>d DEF CleanUp
<1>4. CASE CleanUpTask BY <1>4, <1>d DEF CleanUpTask
<1> QED BY <1>1, <1>2, <1>3, <1>4

\* The rules: a rule that an alert belongs to is not deleted.
LEMMA RulesChange ==
    ASSUME AuditInv, NEW u \in AlertRules, NEW x \in Rule \cup {None}, rule' = [rule EXCEPT ![u] = x],
           UNCHANGED <<event, alert, doing>>,
           x = None => ~\E a \in Alerts : alert[a] # None /\ alert[a].rule = u
    PROVE  AuditInv'
<1>1. rule \in [AlertRules -> Rule \cup {None}] BY DEF AuditInv, AuditTypeOK
<1>2. rule' \in [AlertRules -> Rule \cup {None}] BY <1>1
<1>3. ASSUME NEW a \in Alerts, alert'[a] # None
      PROVE  rule'[alert'[a].rule] # None /\ alert'[a].by \in Admins \cup {None}
  <2>1. alert[a] # None /\ alert'[a] = alert[a] BY <1>3
  <2>2. alert[a] \in AlertRow BY <2>1 DEF AuditInv
  <2>3. alert[a].rule \in AlertRules BY <2>2 DEF AlertRow
  <2>4. rule[alert[a].rule] # None /\ alert[a].by \in Admins \cup {None} BY <2>1 DEF AuditInv, AuditTypeOK
  <2> QED BY <1>1, <2>1, <2>3, <2>4
<1>4. AuditTypeOK' BY <1>2, <1>3 DEF AuditInv, AuditTypeOK
<1> QED BY <1>4 DEF AuditInv

LEMMA RuleStepHolds ==
    ASSUME AuditInv, NEW u \in AlertRules,
           \/ \E m \in Metrics, n \in 1..MaxThreshold : CreateAlertRule(u, m, n) \/ UpdateAlertRule(u, m, n)
           \/ ToggleRule(u) \/ DeleteAlertRule(u)
    PROVE  AuditInv'
<1>1. rule[u] # None => rule[u] \in Rule BY DEF AuditInv, AuditTypeOK
<1>2. rule \in [AlertRules -> Rule \cup {None}] BY DEF AuditInv, AuditTypeOK
<1>3. ASSUME NEW m \in Metrics, NEW n \in 1..MaxThreshold, CreateAlertRule(u, m, n) PROVE AuditInv'
  <2>1. PICK x : x = [metric |-> m, threshold |-> n, enabled |-> TRUE] OBVIOUS
  <2>2. x \in Rule BY <2>1 DEF Rule
  <2> QED BY <1>3, <2>1, <2>2, RulesChange, NoRowAssumption DEF CreateAlertRule
<1>4. ASSUME NEW m \in Metrics, NEW n \in 1..MaxThreshold, UpdateAlertRule(u, m, n) PROVE AuditInv'
  <2>1. PICK x : x = [[rule[u] EXCEPT !.metric = m] EXCEPT !.threshold = n] OBVIOUS
  <2>2. x \in Rule BY <1>1, <1>4, <2>1 DEF Rule, UpdateAlertRule
  <2>3. rule' = [rule EXCEPT ![u] = x] BY <1>2, <1>4, <2>1 DEF UpdateAlertRule
  <2>4. UNCHANGED <<event, alert, doing>> BY <1>4 DEF UpdateAlertRule
  <2> QED BY <2>2, <2>3, <2>4, RulesChange, NoRowAssumption
<1>5. CASE ToggleRule(u)
  <2>1. PICK x : x = [rule[u] EXCEPT !.enabled = ~@] OBVIOUS
  <2>2. x \in Rule
    <3>1. rule[u] \in Rule BY <1>1, <1>5 DEF ToggleRule
    <3>2. (~rule[u].enabled) \in BOOLEAN OBVIOUS
    <3> QED BY <2>1, <3>1, <3>2 DEF Rule
  <2>3. rule' = [rule EXCEPT ![u] = x] BY <1>2, <1>5, <2>1 DEF ToggleRule
  <2>4. UNCHANGED <<event, alert, doing>> BY <1>5 DEF ToggleRule
  <2> QED BY <2>2, <2>3, <2>4, RulesChange, NoRowAssumption
<1>6. CASE DeleteAlertRule(u) BY <1>6, RulesChange DEF DeleteAlertRule
<1> QED BY <1>3, <1>4, <1>5, <1>6

\* One step of an alert request that leaves the tables alone.
LEMMA AlertRequestGoesOn ==
    ASSUME AuditInv, NEW r \in AlertRequests, NEW t, Do(r, t), t # None => AlertTaskHolds(t),
           UNCHANGED <<event, rule, alert>>
    PROVE  AuditInv'
<1>1. AuditTypeOK' BY DEF AuditInv, AuditTypeOK
<1>2. \A q \in AlertRequests : doing'[q] = IF q = r THEN t ELSE doing[q] BY DEF AuditInv, Do
<1> QED BY <1>1, <1>2 DEF AuditInv, Do

\* The answer of one evaluated rule.
LEMMA EvaluatedRule ==
    ASSUME AuditInv, NEW r \in AlertRequests, EvaluateRule(r)
    PROVE  \E c, t :
              /\ c \in Rule
              /\ t.op = "evaluate" /\ AlertTaskHolds(t) /\ Do(r, t)
              /\ t.verdict = [metric |-> c.metric, threshold |-> c.threshold,
                              triggered |-> Cardinality(Counted(c.metric)) >= c.threshold]
<1>1. PICK u \in doing[r].left :
         Do(r, [doing[r] EXCEPT !.left = @ \ {u},
                                !.verdict = [metric |-> doing[r].rules[u].metric, threshold |-> doing[r].rules[u].threshold,
                                   triggered |-> Cardinality(Counted(doing[r].rules[u].metric)) >= doing[r].rules[u].threshold]])
  BY DEF EvaluateRule
<1>2. PICK o : o = doing[r] OBVIOUS
<1>3. o.op = "evaluate" /\ AlertTaskHolds(o) BY <1>2 DEF EvaluateRule, Busy, AuditInv
<1>4. PICK c : c = o.rules[u] OBVIOUS
<1>5. c \in Rule BY <1>1, <1>2, <1>3, <1>4 DEF AlertTaskHolds
<1>6. PICK v : v = [metric |-> c.metric, threshold |-> c.threshold,
                    triggered |-> Cardinality(Counted(c.metric)) >= c.threshold]
  OBVIOUS
<1>7. PICK t : t = [op |-> "evaluate", verdict |-> v, left |-> o.left \ {u}, rules |-> o.rules] OBVIOUS
<1>8. t = [o EXCEPT !.left = @ \ {u}, !.verdict = v]
  <2>1. PICK verdict, left, rules : o = [op |-> "evaluate", verdict |-> verdict, left |-> left, rules |-> rules]
    BY <1>3 DEF AlertTaskHolds
  <2>2. o.left = left /\ o.rules = rules BY <2>1
  <2>3. PICK x : x = left \ {u} OBVIOUS
  <2>4. t = [op |-> "evaluate", verdict |-> v, left |-> x, rules |-> rules] BY <1>7, <2>2, <2>3
  <2>5. [o EXCEPT !.left = x, !.verdict = v] = [op |-> "evaluate", verdict |-> v, left |-> x, rules |-> rules]
    <3>1. PICK o1 : o1 = [o EXCEPT !.left = x] OBVIOUS
    <3>2. o1 = [op |-> "evaluate", verdict |-> verdict, left |-> x, rules |-> rules] BY <2>1, <3>1
    <3>3. [o1 EXCEPT !.verdict = v] = [op |-> "evaluate", verdict |-> v, left |-> x, rules |-> rules] BY <3>2
    <3>4. [o EXCEPT !.left = x, !.verdict = v] = [o1 EXCEPT !.verdict = v] BY <3>1
    <3> QED BY <3>3, <3>4
  <2> QED BY <2>2, <2>3, <2>4, <2>5
<1>9. Do(r, t) BY <1>1, <1>2, <1>4, <1>6, <1>8
<1>10. t.op = "evaluate" /\ t.left = o.left \ {u} /\ t.rules = o.rules /\ t.verdict = v BY <1>7
<1>11. AlertTaskHolds(t) BY <1>3, <1>7, <1>10 DEF AlertTaskHolds
<1> QED BY <1>5, <1>6, <1>9, <1>10, <1>11

LEMMA AlertStepHolds ==
    ASSUME AuditInv, NEW r \in AlertRequests,
           \/ \E u \in AlertRules : FireLoad(r, u)
           \/ \E a \in Alerts : FireCommit(r, a)
           \/ EvaluateRules(r) \/ EvaluateRule(r) \/ AlertRequestEnds(r)
    PROVE  AuditInv'
<1>0. rule \in [AlertRules -> Rule \cup {None}] BY DEF AuditInv, AuditTypeOK
<1>1. ASSUME NEW u \in AlertRules, FireLoad(r, u) PROVE AuditInv'
  <2>1. PICK t : t = [op |-> "fire", rule |-> u] OBVIOUS
  <2>2. AlertTaskHolds(t) BY <2>1 DEF AlertTaskHolds
  <2> QED BY <1>1, <2>1, <2>2, AlertRequestGoesOn DEF FireLoad
<1>2. ASSUME NEW a \in Alerts, FireCommit(r, a) PROVE AuditInv'
  <2>1. CASE rule[doing[r].rule] = None
    BY <1>2, <2>1, AlertRequestGoesOn DEF FireCommit
  <2>2. CASE rule[doing[r].rule] # None
    <3>1. PICK n : n = [rule |-> doing[r].rule, by |-> None] OBVIOUS
    <3>2. alert' = [alert EXCEPT ![a] = n] /\ rule' = rule /\ event' = event /\ Do(r, None)
      BY <1>2, <2>2, <3>1 DEF FireCommit
    <3>3. doing[r].rule \in AlertRules BY <1>2 DEF FireCommit, Busy, AuditInv, AlertTaskHolds
    <3>4. n \in AlertRow /\ n.rule = doing[r].rule /\ n.by = None BY <3>1, <3>3 DEF AlertRow
    <3>5. alert' \in [Alerts -> AlertRow \cup {None}] BY <3>2, <3>4 DEF AuditInv
    <3>6. ASSUME NEW b \in Alerts, alert'[b] # None
          PROVE  rule'[alert'[b].rule] # None /\ alert'[b].by \in Admins \cup {None}
      BY <2>2, <3>2, <3>4, <3>6 DEF AuditInv, AuditTypeOK
    <3>7. AuditTypeOK' BY <3>2, <3>6 DEF AuditInv, AuditTypeOK
    <3>8. \A q \in AlertRequests : doing'[q] = IF q = r THEN None ELSE doing[q] BY <3>2 DEF AuditInv, Do
    <3> QED BY <3>2, <3>5, <3>7, <3>8 DEF AuditInv, Do
  <2> QED BY <2>1, <2>2
<1>3. CASE EvaluateRules(r)
  <2>1. PICK t : t = [op |-> "evaluate", verdict |-> None,
                      left |-> {u \in AlertRules : rule[u] # None /\ rule[u].enabled}, rules |-> rule]
    OBVIOUS
  <2>2. /\ t = [op |-> "evaluate", verdict |-> t.verdict, left |-> t.left, rules |-> t.rules]
        /\ t.op = "evaluate" /\ t.rules = rule /\ t.left \subseteq {u \in AlertRules : rule[u] # None}
    BY <2>1
  <2>3. AlertTaskHolds(t) BY <1>0, <2>2 DEF AlertTaskHolds
  <2> QED BY <1>3, <2>1, <2>3, AlertRequestGoesOn DEF EvaluateRules
<1>4. CASE EvaluateRule(r)
  <2>1. PICK t : AlertTaskHolds(t) /\ Do(r, t) BY <1>4, EvaluatedRule
  <2> QED BY <1>4, <2>1, AlertRequestGoesOn DEF EvaluateRule
<1>5. CASE AlertRequestEnds(r) BY <1>5, AlertRequestGoesOn DEF AlertRequestEnds
<1> QED BY <1>1, <1>2, <1>3, <1>4, <1>5

LEMMA AuditNextInv == AuditInv /\ [AuditNext]_auditVars => AuditInv'
<1> SUFFICES ASSUME AuditInv, [AuditNext]_auditVars PROVE AuditInv' OBVIOUS
<1>1. CASE UNCHANGED auditVars
  <2>1. event' = event /\ rule' = rule /\ alert' = alert /\ doing' = doing BY <1>1 DEF auditVars
  <2>2. event \in [Events -> Event \cup {None}] BY DEF AuditInv, AuditTypeOK
  <2> QED BY <2>1, <2>2, LogChanges
<1>2. CASE (\E e \in Events, m \in Metrics : LogEvent(e, m)) \/ TimePasses \/ CleanUp \/ CleanUpTask
  BY <1>2, EventsChange
<1>3. ASSUME NEW u \in AlertRules,
             \/ \E m \in Metrics, n \in 1..MaxThreshold : CreateAlertRule(u, m, n) \/ UpdateAlertRule(u, m, n)
             \/ ToggleRule(u) \/ DeleteAlertRule(u)
      PROVE  AuditInv'
  BY <1>3, RuleStepHolds
<1>4. ASSUME NEW a \in Alerts, NEW admin \in Admins, Acknowledge(a, admin) PROVE AuditInv'
  <2>1. alert[a] \in AlertRow BY <1>4 DEF AuditInv, Acknowledge
  <2>2. PICK n : n = [alert[a] EXCEPT !.by = admin] OBVIOUS
  <2>3. n \in AlertRow /\ n.rule = alert[a].rule /\ n.by = admin BY <2>1, <2>2 DEF AlertRow
  <2>4. alert' = [alert EXCEPT ![a] = n] /\ rule' = rule /\ event' = event /\ doing' = doing
    BY <1>4, <2>2 DEF Acknowledge, AuditInv
  <2>5. alert' \in [Alerts -> AlertRow \cup {None}] BY <2>3, <2>4 DEF AuditInv
  <2>6. ASSUME NEW b \in Alerts, alert'[b] # None
        PROVE  rule'[alert'[b].rule] # None /\ alert'[b].by \in Admins \cup {None}
    BY <1>4, <2>3, <2>4, <2>6 DEF AuditInv, AuditTypeOK, Acknowledge
  <2>7. AuditTypeOK' BY <2>4, <2>6 DEF AuditInv, AuditTypeOK
  <2> QED BY <2>4, <2>5, <2>7 DEF AuditInv
<1>5. ASSUME NEW r \in AlertRequests,
             \/ \E u \in AlertRules : FireLoad(r, u)
             \/ \E a \in Alerts : FireCommit(r, a)
             \/ EvaluateRules(r) \/ EvaluateRule(r) \/ AlertRequestEnds(r)
      PROVE  AuditInv'
  BY <1>5, AlertStepHolds
<1> QED BY <1>1, <1>2, <1>3, <1>4, <1>5 DEF AuditNext

\* Only the evaluation of a rule comes to a verdict.
LEMMA VerdictsAreEvaluations ==
    ASSUME AuditInv, [AuditNext]_auditVars, NEW r \in AlertRequests, Verdict(r) PROVE EvaluateRule(r)
<1>1. doing'[r] # doing[r] /\ doing'[r].op = "evaluate" /\ doing'[r].verdict # None /\ doing'[r] # None
  BY DEF Verdict
<1>2. ASSUME NEW q \in AlertRequests, NEW t, Do(q, t) PROVE q = r /\ doing'[r] = t
  BY <1>1, <1>2 DEF AuditInv, Do
<1>3. doing' # doing BY <1>1
<1>4. PICK q \in AlertRequests :
         \/ \E u \in AlertRules : FireLoad(q, u)
         \/ \E a \in Alerts : FireCommit(q, a)
         \/ EvaluateRules(q) \/ EvaluateRule(q) \/ AlertRequestEnds(q)
  BY <1>3 DEF AuditNext, auditVars, LogEvent, TimePasses, CleanUp, CleanUpTask, CreateAlertRule,
              UpdateAlertRule, ToggleRule, DeleteAlertRule, Acknowledge
<1>5. ASSUME NEW u \in AlertRules, FireLoad(q, u) PROVE FALSE
  <2>1. PICK t : t = [op |-> "fire", rule |-> u] OBVIOUS
  <2>2. Do(q, t) /\ t.op = "fire" BY <1>5, <2>1 DEF FireLoad
  <2> QED BY <1>1, <1>2, <2>2
<1>6. ASSUME NEW a \in Alerts, FireCommit(q, a) PROVE FALSE BY <1>1, <1>2, <1>6 DEF FireCommit
<1>7. ASSUME EvaluateRules(q) PROVE FALSE
  <2>1. PICK t : t = [op |-> "evaluate", verdict |-> None,
                      left |-> {u \in AlertRules : rule[u] # None /\ rule[u].enabled}, rules |-> rule]
    OBVIOUS
  <2>2. Do(q, t) /\ t.verdict = None BY <1>7, <2>1 DEF EvaluateRules
  <2> QED BY <1>1, <1>2, <2>2
<1>8. ASSUME AlertRequestEnds(q) PROVE FALSE BY <1>1, <1>2, <1>8 DEF AlertRequestEnds
<1>9. EvaluateRule(q) BY <1>4, <1>5, <1>6, <1>7, <1>8
<1>10. q = r BY <1>2, <1>9, EvaluatedRule
<1> QED BY <1>9, <1>10

\* Each verdict is about the events of the window, however the log, the rules and the clean-ups
\* change between reading the rules and counting: it is never triggered by too few, and what it
\* misses a clean-up has deleted.
THEOREM VerdictsSeeEvents == AuditSpec => AlertsSeeEvents
<1>1. ASSUME AuditInv, [AuditNext]_auditVars, NEW r \in AlertRequests, Verdict(r)
      PROVE  LET v == doing'[r].verdict
                 recent == Recent(v.metric) IN
             /\ v.triggered => Cardinality(recent) >= v.threshold
             /\ ~v.triggered /\ Cardinality(recent) >= v.threshold => \E e \in recent : ~event[e].there
  <2>1. EvaluateRule(r) BY <1>1, VerdictsAreEvaluations
  <2>2. PICK c, t :
           /\ c \in Rule
           /\ Do(r, t)
           /\ t.verdict = [metric |-> c.metric, threshold |-> c.threshold,
                           triggered |-> Cardinality(Counted(c.metric)) >= c.threshold]
    BY <1>1, <2>1, EvaluatedRule
  <2>3. doing'[r] = t BY <1>1, <2>2 DEF AuditInv, Do
  <2> DEFINE v == doing'[r].verdict
             m == c.metric
  <2>4. /\ v.metric = m /\ v.threshold = c.threshold
        /\ v.triggered = (Cardinality(Counted(m)) >= c.threshold)
    BY <2>2, <2>3
  <2>5. Counted(m) \subseteq Recent(m) BY DEF Counted, Recent, InWindow
  <2>6. IsFiniteSet(Recent(m)) BY AuditAssumption, FS_Subset DEF Recent, Logged
  <2>7. IsFiniteSet(Counted(m)) /\ Cardinality(Counted(m)) <= Cardinality(Recent(m)) BY <2>5, <2>6, FS_Subset
  <2>8. Cardinality(Counted(m)) \in Nat /\ Cardinality(Recent(m)) \in Nat BY <2>6, <2>7, FS_CardinalityType
  <2>9. c.threshold \in Nat BY <2>2, AuditAssumption DEF Rule
  <2>10. (\A e \in Recent(m) : event[e].there) => Counted(m) = Recent(m) BY DEF Counted, Recent, InWindow
  <2> HIDE DEF v, m
  <2>11. v.triggered => Cardinality(Recent(m)) >= v.threshold 
    <3>1. Cardinality(Counted(m)) >= c.threshold => Cardinality(Recent(m)) >= c.threshold BY <2>7, <2>8, <2>9
    <3> QED BY <2>4, <3>1
  <2>12. ~v.triggered /\ Cardinality(Recent(m)) >= v.threshold => \E e \in Recent(m) : ~event[e].there
    BY <2>4, <2>10
  <2>13. /\ v.triggered => Cardinality(Recent(v.metric)) >= v.threshold
         /\ ~v.triggered /\ Cardinality(Recent(v.metric)) >= v.threshold => \E e \in Recent(v.metric) : ~event[e].there
    BY <2>4, <2>11, <2>12
  <2> QED BY <2>13 DEF v
<1>2. AuditInv /\ [AuditNext]_auditVars =>
        [\A r \in AlertRequests : Verdict(r) =>
            LET v == doing'[r].verdict
                recent == Recent(v.metric) IN
            /\ v.triggered => Cardinality(recent) >= v.threshold
            /\ ~v.triggered /\ Cardinality(recent) >= v.threshold => \E e \in recent : ~event[e].there]_auditVars
  BY <1>1
<1> QED BY <1>2, AuditInitInv, AuditNextInv, PTL DEF AuditSpec, AlertsSeeEvents

\* An alert belongs to a rule that exists: no overlap of firing and deleting leaves one behind.
THEOREM AuditTypesHold == AuditSpec => []AuditTypeOK
<1>1. AuditInv => AuditTypeOK BY DEF AuditInv
<1> QED BY <1>1, AuditInitInv, AuditNextInv, PTL DEF AuditSpec
------------------------------------------------------------------------------
(***************************************************************************)
(* Resource bindings.                                                      *)
(***************************************************************************)
SettingTask == [op: {"set"}, owner: AllOwners, list: SUBSET AllowedValues, doomed: SUBSET Binding,
                waits: SUBSET SetRequests, since: SUBSET SetRequests]
\* What a request holds: the rows it will delete are of its owner.
SettingFits(t) ==
    t.op = "set" => t \in SettingTask /\ \A l \in t.doomed : l.owner = t.owner
\* Every row of its owner is one that it deletes, or one that was committed since its DELETE.
SeesRows(t, rows) ==
    t.op = "set" => \A l \in rows : l.owner = t.owner => l \in t.doomed \/ l.by \in t.since
BindingsInv ==
    /\ BindingsTypeOK
    /\ setting = [r \in SetRequests |-> setting[r]]
    /\ \A r \in SetRequests : SettingFits(setting[r]) /\ SeesRows(setting[r], bindings)
    /\ \A l \in bindings : l.by = AtFirst \/ l.by \in Setting("done")
    /\ ListsMixOnlyByOverlap

LEMMA BindingsInitInv == BindingsInit => BindingsInv
<1> SUFFICES ASSUME BindingsInit PROVE BindingsInv OBVIOUS
<1>1. PICK list \in [owners -> SUBSET AllowedValues] :
         bindings = {l \in [owner: owners, value: AllowedValues, by: {AtFirst}] : l.value \in list[l.owner]}
  BY DEF BindingsInit
<1>2. owners \subseteq AllOwners BY DEF BindingsInit
<1>3. bindings \subseteq [owner: owners, value: AllowedValues, by: {AtFirst}] BY <1>1
<1>4. \A l \in bindings : l.owner \in owners /\ l.by = AtFirst BY <1>3
<1>5. ASSUME NEW l \in bindings, NEW k \in bindings, k.owner = l.owner, k.value = l.value PROVE k = l
  BY <1>3, <1>5
<1>6. bindings \subseteq Binding BY <1>2, <1>3 DEF Binding
<1>7. BindingsTypeOK BY <1>2, <1>4, <1>5, <1>6 DEF BindingsTypeOK, BindingsOf
<1>8. ListsMixOnlyByOverlap BY <1>4 DEF ListsMixOnlyByOverlap, BindingsOf
<1>9. setting = [r \in SetRequests |-> setting[r]] /\ \A r \in SetRequests : setting[r] = NotServed
  BY DEF BindingsInit
<1>10. SettingFits(NotServed) /\ SeesRows(NotServed, bindings) BY DEF SettingFits, SeesRows, NotServed
<1> QED BY <1>4, <1>7, <1>8, <1>9, <1>10 DEF BindingsInv

\* Rows go, and a request that was served stays as it is: the rest of the invariant stays.
LEMMA RowsOnlyGo ==
    ASSUME BindingsInv, BindingsTypeOK', bindings' \subseteq bindings,
           setting' = [r \in SetRequests |-> setting'[r]],
           \A r \in SetRequests : setting[r].op = "done" => setting'[r] = setting[r],
           \A r \in SetRequests : SettingFits(setting'[r]) /\ SeesRows(setting'[r], bindings')
    PROVE  BindingsInv'
<1>1. \A r \in Setting("done") : r \in Setting("done")' /\ setting'[r] = setting[r] BY DEF Setting
<1>2. \A l \in bindings' : l.by = AtFirst \/ l.by \in Setting("done")' BY <1>1 DEF BindingsInv
<1>3. ListsMixOnlyByOverlap'
  <2> SUFFICES ASSUME NEW l \in bindings', NEW k \in bindings', k.owner = l.owner, l.by # k.by
               PROVE  Overlapped(l.by, k.by)'
    BY DEF ListsMixOnlyByOverlap, BindingsOf
  <2>1. Overlapped(l.by, k.by) BY DEF BindingsInv, ListsMixOnlyByOverlap, BindingsOf
  <2>2. PICK x \in {l.by, k.by}, y \in {l.by, k.by} : x \in Setting("done") /\ y \in setting[x].since
    BY <2>1 DEF Overlapped
  <2>3. x \in Setting("done")' /\ y \in setting'[x].since BY <1>1, <2>2
  <2> QED BY <2>2, <2>3 DEF Overlapped
<1> QED BY <1>2, <1>3 DEF BindingsInv

LEMMA FewerRowsTyped ==
    ASSUME BindingsTypeOK, bindings' \subseteq bindings, owners' \subseteq AllOwners,
           \A l \in bindings' : l.owner \in owners'
    PROVE  BindingsTypeOK'
BY DEF BindingsTypeOK, BindingsOf

\* A request whose rows are no fewer than before sees no row it did not see.
LEMMA SeesFewer ==
    ASSUME NEW t, NEW rows, NEW less, less \subseteq rows, SeesRows(t, rows) PROVE SeesRows(t, less)
BY DEF SeesRows

\* A transaction that is over lets the others go on, with the rows they had before them.
LEMMA ReleasedFits ==
    ASSUME BindingsInv, NEW r \in SetRequests, RolledBack(r), bindings' = bindings, owners' = owners,
           r \in Setting("set")
    PROVE  BindingsInv'
<1>1. setting' = [q \in SetRequests |->
                    IF q \in Setting("set") \ {r} THEN [setting[q] EXCEPT !.waits = @ \ {r}]
                    ELSE IF q = r THEN [op |-> "failed"] ELSE setting[q]]
  BY DEF RolledBack, Released, BindingsInv
<1>2. setting' = [q \in SetRequests |-> setting'[q]] BY <1>1
<1>3. ASSUME NEW q \in SetRequests PROVE SettingFits(setting'[q]) /\ SeesRows(setting'[q], bindings)
  <2>0. SettingFits(setting[q]) /\ SeesRows(setting[q], bindings) BY DEF BindingsInv
  <2>1. CASE q \in Setting("set") \ {r}
    <3>1. PICK t : t = setting'[q] OBVIOUS
    <3>2. setting[q] \in SettingTask BY <2>0, <2>1 DEF Setting, SettingFits
    <3>3. t = [setting[q] EXCEPT !.waits = @ \ {r}] BY <1>1, <2>1, <3>1
    <3>4. /\ t \in SettingTask /\ t.owner = setting[q].owner /\ t.doomed = setting[q].doomed
          /\ t.since = setting[q].since
      BY <3>2, <3>3 DEF SettingTask
    <3>5. setting[q].op = "set" BY <2>1 DEF Setting
    <3> QED BY <2>0, <3>1, <3>4, <3>5 DEF SettingFits, SeesRows
  <2>2. CASE q = r BY <1>1, <2>2 DEF SettingFits, SeesRows
  <2>3. CASE q \notin Setting("set") /\ q # r BY <1>1, <2>0, <2>3
  <2> QED BY <2>1, <2>2, <2>3
<1>4. ASSUME NEW q \in SetRequests, setting[q].op = "done" PROVE setting'[q] = setting[q]
  BY <1>1, <1>4 DEF Setting
<1>5. BindingsTypeOK' BY FewerRowsTyped DEF BindingsInv, BindingsTypeOK
<1> QED BY <1>2, <1>3, <1>4, <1>5, RowsOnlyGo

LEMMA OwnersChange ==
    ASSUME BindingsInv, NEW o \in AllOwners, CreateOwner(o) \/ DeleteOwner(o) PROVE BindingsInv'
<1>1. setting' = setting /\ bindings' \subseteq bindings BY DEF CreateOwner, DeleteOwner
<1>2. owners' \subseteq AllOwners BY DEF CreateOwner, DeleteOwner, BindingsInv, BindingsTypeOK
<1>3. \A l \in bindings' : l.owner \in owners'
  BY DEF CreateOwner, DeleteOwner, BindingsInv, BindingsTypeOK, BindingsOf
<1>4. BindingsTypeOK' BY <1>1, <1>2, <1>3, FewerRowsTyped DEF BindingsInv
<1>5. \A r \in SetRequests : SettingFits(setting'[r]) /\ SeesRows(setting'[r], bindings')
  BY <1>1, SeesFewer DEF BindingsInv
<1>6. setting' = [r \in SetRequests |-> setting'[r]] BY <1>1 DEF BindingsInv
<1> QED BY <1>1, <1>4, <1>5, <1>6, RowsOnlyGo

\* A step of one request that adds no row.
LEMMA OneRequestGoesOn ==
    ASSUME BindingsInv, NEW r \in SetRequests, NEW t, setting' = [setting EXCEPT ![r] = t],
           owners' = owners, bindings' \subseteq bindings, setting[r].op # "done",
           SettingFits(t), SeesRows(t, bindings')
    PROVE  BindingsInv'
<1>1. \A q \in SetRequests : setting'[q] = IF q = r THEN t ELSE setting[q] BY DEF BindingsInv
<1>2. setting' = [q \in SetRequests |-> setting'[q]] BY DEF BindingsInv
<1>3. BindingsTypeOK' BY FewerRowsTyped DEF BindingsInv, BindingsTypeOK
<1>4. \A q \in SetRequests : SettingFits(setting'[q]) /\ SeesRows(setting'[q], bindings')
  BY <1>1, SeesFewer DEF BindingsInv
<1>5. \A q \in SetRequests : setting[q].op = "done" => setting'[q] = setting[q] BY <1>1
<1> QED BY <1>2, <1>3, <1>4, <1>5, RowsOnlyGo

LEMMA SetDeleteHolds ==
    ASSUME BindingsInv, NEW r \in SetRequests, NEW o \in AllOwners, NEW list \in ListsFor(o), SetDelete(r, o, list)
    PROVE  BindingsInv'
<1>1. PICK t : t = [op |-> "set", owner |-> o, list |-> list, doomed |-> BindingsOf(o),
                    waits |-> Holding(BindingsOf(o)), since |-> {}]
  OBVIOUS
<1>2. setting' = [setting EXCEPT ![r] = t] /\ owners' = owners /\ bindings' = bindings /\ setting[r].op = "new"
  BY <1>1 DEF SetDelete, Doomed, NotServed
<1>3. list \subseteq AllowedValues BY DEF ListsFor
<1>4. BindingsOf(o) \subseteq Binding /\ \A l \in BindingsOf(o) : l.owner = o
  BY DEF BindingsOf, BindingsInv, BindingsTypeOK
<1>5. Holding(BindingsOf(o)) \subseteq SetRequests BY DEF Holding, Setting
<1>6. t \in SettingTask BY <1>1, <1>3, <1>4, <1>5 DEF SettingTask
<1>7. t.op = "set" /\ t.owner = o /\ t.doomed = BindingsOf(o) BY <1>1
<1>8. SettingFits(t) BY <1>4, <1>6, <1>7 DEF SettingFits
<1>9. SeesRows(t, bindings) BY <1>7 DEF SeesRows, BindingsOf
<1> QED BY <1>2, <1>8, <1>9, OneRequestGoesOn

LEMMA UnbindHolds ==
    ASSUME BindingsInv, NEW r \in SetRequests, (\E l \in bindings : UnbindLoad(r, l)) \/ UnbindCommit(r)
    PROVE  BindingsInv'
<1>1. PICK t : /\ setting' = [setting EXCEPT ![r] = t] /\ t.op \in {"unbind", "unbound"}
               /\ setting[r].op \in {"new", "unbind"} /\ owners' = owners /\ bindings' \subseteq bindings
  <2>1. CASE \E l \in bindings : UnbindLoad(r, l)
    <3>1. PICK l \in bindings : UnbindLoad(r, l) BY <2>1
    <3>2. PICK t : t = [op |-> "unbind", row |-> l] OBVIOUS
    <3>3. t.op = "unbind" BY <3>2
    <3>4. /\ setting' = [setting EXCEPT ![r] = t] /\ setting[r].op = "new"
          /\ owners' = owners /\ bindings' = bindings
      BY <3>1, <3>2 DEF UnbindLoad, NotServed
    <3> QED BY <3>3, <3>4
  <2>2. CASE UnbindCommit(r)
    <3>1. PICK t : t = [op |-> "unbound"] OBVIOUS
    <3>2. t.op = "unbound" BY <3>1
    <3>3. /\ setting' = [setting EXCEPT ![r] = t] /\ setting[r].op = "unbind"
          /\ owners' = owners /\ bindings' \subseteq bindings
      BY <2>2, <3>1 DEF UnbindCommit, Setting
    <3> QED BY <3>2, <3>3
  <2> QED BY <2>1, <2>2
<1>2. SettingFits(t) /\ SeesRows(t, bindings') BY <1>1 DEF SettingFits, SeesRows
<1> QED BY <1>1, <1>2, OneRequestGoesOn

LEMMA SetCommitHolds ==
    ASSUME BindingsInv, NEW r \in SetRequests, SetCommit(r), Accepted(setting[r])
    PROVE  BindingsInv'
<1>1. PICK t : t = setting[r] OBVIOUS
<1>2. t.op = "set" /\ r \in Setting("set") BY <1>1 DEF SetCommit, Setting
<1>3. t \in SettingTask /\ (\A l \in t.doomed : l.owner = t.owner) /\ SeesRows(t, bindings)
  BY <1>1, <1>2 DEF BindingsInv, SettingFits
<1> DEFINE new == [owner: {t.owner}, value: t.list, by: {r}]
           tasks == [q \in SetRequests |->
                 CASE q = r -> [op |-> "done", since |-> t.since]
                   [] q \in Replacing(t.owner) \ {r} -> [setting[q] EXCEPT !.since = @ \cup {r}, !.doomed = @ \ t.doomed]
                   [] OTHER -> setting[q]]
<1>4. /\ bindings' = (bindings \ t.doomed) \cup new /\ owners' = owners
      /\ setting' = [q \in SetRequests |-> IF q \in Setting("set") \ {r} THEN [tasks[q] EXCEPT !.waits = @ \ {r}] ELSE tasks[q]]
  BY <1>1 DEF SetCommit, Released
<1>5. \A l \in new : l.owner = t.owner /\ l.value \in t.list /\ l.by = r
  OBVIOUS
<1>6. new \subseteq Binding BY <1>3 DEF SettingTask, Binding
<1>7. t.owner \in owners /\ (t.owner \in Bound => ~\E l \in BindingsOf(t.owner) \ t.doomed : l.value \in t.list)
  BY <1>1 DEF Accepted
<1>8. ASSUME NEW l \in new, NEW k \in new, l.value = k.value PROVE l = k BY <1>8
<1> HIDE DEF new
<1>9. BindingsTypeOK'
  <2>0. BindingsTypeOK BY DEF BindingsInv
  <2>1. bindings' \subseteq Binding BY <1>4, <1>6, <2>0 DEF BindingsTypeOK
  <2>2. ASSUME NEW l \in bindings' PROVE l.owner \in owners BY <1>4, <1>5, <1>7, <2>0 DEF BindingsTypeOK
  <2>3. ASSUME NEW l \in bindings', NEW k \in bindings', l.owner \in Bound, k.owner = l.owner, k.value = l.value
        PROVE  k = l
    <3>1. CASE l \in new /\ k \in new BY <1>8, <2>3, <3>1
    <3>2. CASE l \in new /\ k \notin new
      <4>1. k \in BindingsOf(t.owner) \ t.doomed /\ k.value \in t.list BY <1>4, <1>5, <2>3, <3>2 DEF BindingsOf
      <4> QED BY <1>5, <1>7, <2>3, <3>2, <4>1
    <3>3. CASE k \in new /\ l \notin new
      <4>1. l \in BindingsOf(t.owner) \ t.doomed /\ l.value \in t.list BY <1>4, <1>5, <2>3, <3>3 DEF BindingsOf
      <4> QED BY <1>5, <1>7, <2>3, <3>3, <4>1
    <3>4. CASE k \notin new /\ l \notin new
      BY <1>4, <2>0, <2>3, <3>4 DEF BindingsTypeOK, BindingsOf
    <3> QED BY <3>1, <3>2, <3>3, <3>4
  <2>4. owners' \subseteq AllOwners BY <1>4, <2>0 DEF BindingsTypeOK
  <2> QED BY <1>4, <2>1, <2>2, <2>3, <2>4 DEF BindingsTypeOK, BindingsOf
<1>10. setting' = [q \in SetRequests |-> setting'[q]] BY <1>4
<1>11. setting'[r] = [op |-> "done", since |-> t.since] BY <1>4
<1>12. ASSUME NEW q \in SetRequests, q # r, q \notin Setting("set") PROVE setting'[q] = setting[q]
  <2>1. q \notin Replacing(t.owner) BY <1>12 DEF Replacing
  <2> QED BY <1>4, <1>12, <2>1
<1>13. ASSUME NEW q \in Setting("set"), q # r
       PROVE  SettingFits(setting'[q]) /\ SeesRows(setting'[q], bindings')
  <2>0. q \in SetRequests /\ setting[q].op = "set" BY <1>13 DEF Setting
  <2>1. PICK s : s = setting[q] OBVIOUS
  <2>2. s \in SettingTask /\ (\A l \in s.doomed : l.owner = s.owner) /\ SeesRows(s, bindings) /\ s.op = "set"
    BY <2>0, <2>1 DEF BindingsInv, SettingFits
  <2>3. PICK n : n = setting'[q] OBVIOUS
  <2>4. CASE s.owner = t.owner
    <3>1. q \in Replacing(t.owner) \ {r} BY <1>13, <2>0, <2>1, <2>4 DEF Replacing
    <3>2. tasks[q] = [s EXCEPT !.since = @ \cup {r}, !.doomed = @ \ t.doomed] BY <2>0, <2>1, <3>1, <1>13
    <3>3. n = [tasks[q] EXCEPT !.waits = @ \ {r}] BY <1>4, <1>13, <2>0, <2>3
    <3>a. PICK u : u = tasks[q] OBVIOUS
    <3>b. /\ u \in SettingTask /\ u.op = "set" /\ u.owner = t.owner
          /\ u.doomed = s.doomed \ t.doomed /\ u.since = s.since \cup {r}
      <4>1. u = [s EXCEPT !.since = s.since \cup {r}, !.doomed = s.doomed \ t.doomed] BY <3>2, <3>a
      <4> HIDE DEF tasks
      <4>2. s.since \cup {r} \in SUBSET SetRequests /\ s.doomed \ t.doomed \in SUBSET Binding
        BY <2>2 DEF SettingTask
      <4>3. PICK x, y : x = s.since \cup {r} /\ y = s.doomed \ t.doomed OBVIOUS
      <4>4. u = [s EXCEPT !.since = x, !.doomed = y] /\ x \in SUBSET SetRequests /\ y \in SUBSET Binding
        BY <4>1, <4>2, <4>3
      <4>5. u \in SettingTask BY <2>2, <4>4 DEF SettingTask
      <4>6. u.op = "set" /\ u.owner = s.owner /\ u.doomed = y /\ u.since = x BY <2>2, <4>4 DEF SettingTask
      <4> QED BY <2>4, <4>3, <4>5, <4>6
    <3>c. n = [u EXCEPT !.waits = @ \ {r}] BY <3>3, <3>a
    <3> HIDE DEF tasks
    <3>4. /\ n \in SettingTask /\ n.op = "set" /\ n.owner = t.owner
          /\ n.doomed = s.doomed \ t.doomed /\ n.since = s.since \cup {r}
      BY <3>b, <3>c DEF SettingTask
    <3>5. SettingFits(n) BY <2>2, <2>4, <3>4 DEF SettingFits
    <3>6. ASSUME NEW l \in bindings', l.owner = t.owner PROVE l \in n.doomed \/ l.by \in n.since
      <4>1. CASE l \in new BY <1>5, <3>4, <4>1
      <4>2. CASE l \notin new
        <5>1. l \in bindings /\ l \notin t.doomed BY <1>4, <4>2
        <5>2. l \in s.doomed \/ l.by \in s.since BY <2>2, <2>4, <3>6, <5>1 DEF SeesRows
        <5> QED BY <3>4, <5>1, <5>2
      <4> QED BY <4>1, <4>2
    <3> QED BY <2>3, <3>4, <3>5, <3>6 DEF SeesRows
  <2>5. CASE s.owner # t.owner
    <3>1. q \notin Replacing(t.owner) BY <2>1, <2>5 DEF Replacing
    <3>2. tasks[q] = s BY <2>0, <2>1, <3>1, <1>13
    <3>3. n = [s EXCEPT !.waits = @ \ {r}] BY <1>4, <1>13, <2>3, <2>0, <3>2
    <3>4. /\ n \in SettingTask /\ n.op = "set" /\ n.owner = s.owner /\ n.doomed = s.doomed /\ n.since = s.since
      BY <2>2, <3>3 DEF SettingTask
    <3>5. SettingFits(n) BY <2>2, <3>4 DEF SettingFits
    <3>6. ASSUME NEW l \in bindings', l.owner = s.owner PROVE l \in n.doomed \/ l.by \in n.since
      <4>1. l \notin new BY <1>5, <2>5, <3>6
      <4>2. l \in bindings BY <1>4, <4>1
      <4> QED BY <2>2, <3>4, <3>6, <4>2 DEF SeesRows
    <3> QED BY <2>3, <3>4, <3>5, <3>6 DEF SeesRows
  <2> QED BY <2>4, <2>5
<1>14. ASSUME NEW q \in SetRequests PROVE SettingFits(setting'[q]) /\ SeesRows(setting'[q], bindings')
  <2>1. CASE q = r BY <1>11, <2>1 DEF SettingFits, SeesRows
  <2>2. CASE q # r /\ q \in Setting("set") BY <1>13, <2>2
  <2>3. CASE q # r /\ q \notin Setting("set") BY <1>12, <2>3 DEF SettingFits, SeesRows, Setting
  <2> QED BY <2>1, <2>2, <2>3
<1>15. \A q \in Setting("done") : q \in Setting("done")' /\ setting'[q] = setting[q]
  BY <1>2, <1>12 DEF Setting
<1>16. r \in Setting("done")' /\ setting'[r].since = t.since BY <1>11 DEF Setting
<1>17. \A l \in bindings' : l.by = AtFirst \/ l.by \in Setting("done")'
  BY <1>4, <1>5, <1>15, <1>16 DEF BindingsInv
\* An old row that stays was committed since the DELETE, so its request overlapped this one.
<1>18. ASSUME NEW l \in bindings', l \notin new, l.owner = t.owner PROVE l.by \in t.since
  <2>1. l \in bindings /\ l \notin t.doomed BY <1>4, <1>18
  <2> QED BY <1>2, <1>3, <1>18, <2>1 DEF SeesRows
<1>19. ListsMixOnlyByOverlap'
  <2> SUFFICES ASSUME NEW l \in bindings', NEW k \in bindings', k.owner = l.owner, l.by # k.by
               PROVE  Overlapped(l.by, k.by)'
    BY DEF ListsMixOnlyByOverlap, BindingsOf
  <2>1. CASE l \in new /\ k \in new BY <1>5, <2>1
  <2>2. CASE l \in new /\ k \notin new
    <3>1. l.by = r /\ k.by \in t.since BY <1>5, <1>18, <2>2
    <3> QED BY <1>16, <3>1 DEF Overlapped
  <2>3. CASE k \in new /\ l \notin new
    <3>1. k.by = r /\ l.by \in t.since BY <1>5, <1>18, <2>3
    <3> QED BY <1>16, <3>1 DEF Overlapped
  <2>4. CASE k \notin new /\ l \notin new
    <3>1. l \in bindings /\ k \in bindings BY <1>4, <2>4
    <3>2. Overlapped(l.by, k.by) BY <3>1 DEF BindingsInv, ListsMixOnlyByOverlap, BindingsOf
    <3>3. PICK x \in {l.by, k.by}, y \in {l.by, k.by} : x \in Setting("done") /\ y \in setting[x].since
      BY <3>2 DEF Overlapped
    <3>4. x \in Setting("done")' /\ y \in setting'[x].since BY <1>15, <3>3
    <3> QED BY <3>3, <3>4 DEF Overlapped
  <2> QED BY <2>1, <2>2, <2>3, <2>4
<1> QED BY <1>9, <1>10, <1>14, <1>17, <1>19 DEF BindingsInv

LEMMA BindingsNextInv == BindingsInv /\ [BindingsNext]_bindingsVars => BindingsInv'
<1> SUFFICES ASSUME BindingsInv, [BindingsNext]_bindingsVars PROVE BindingsInv' OBVIOUS
<1>1. CASE UNCHANGED bindingsVars
  <2>1. owners' = owners /\ bindings' = bindings /\ setting' = setting BY <1>1 DEF bindingsVars
  <2>2. BindingsTypeOK' BY <2>1, FewerRowsTyped DEF BindingsInv, BindingsTypeOK
  <2> QED BY <2>1, <2>2, RowsOnlyGo DEF BindingsInv
<1>2. ASSUME NEW o \in AllOwners, CreateOwner(o) \/ DeleteOwner(o) PROVE BindingsInv' BY <1>2, OwnersChange
<1>3. ASSUME NEW r \in SetRequests, SetBindings(r) \/ SetValueMap(r) PROVE BindingsInv'
  <2>1. PICK o \in AllOwners : \E list \in ListsFor(o) : SetDelete(r, o, list)
    BY <1>3 DEF SetBindings, SetValueMap, AllOwners
  <2> QED BY <2>1, SetDeleteHolds
<1>4. ASSUME NEW r \in SetRequests, SetCommit(r) PROVE BindingsInv'
  <2>1. CASE Accepted(setting[r]) BY <1>4, <2>1, SetCommitHolds
  <2>2. CASE ~Accepted(setting[r])
    <3>1. r \in Setting("set") /\ RolledBack(r) /\ bindings' = bindings /\ owners' = owners
      BY <1>4, <2>2 DEF SetCommit
    <3> QED BY <3>1, ReleasedFits
  <2> QED BY <2>1, <2>2
<1>5. ASSUME NEW r \in SetRequests, SetAborts(r) PROVE BindingsInv' BY <1>5, ReleasedFits DEF SetAborts
<1>6. ASSUME NEW r \in SetRequests, (\E l \in bindings : UnbindLoad(r, l)) \/ UnbindCommit(r) PROVE BindingsInv'
  BY <1>6, UnbindHolds
<1> QED BY <1>1, <1>2, <1>3, <1>4, <1>5, <1>6 DEF BindingsNext

\* However many requests set, drop and delete bindings, an owner is bound to what one of them
\* asked for unless two that replaced its list overlapped.
THEOREM ListsStayApart == BindingsSpec => []ListsMixOnlyByOverlap
<1>1. BindingsInv => ListsMixOnlyByOverlap BY DEF BindingsInv
<1> QED BY <1>1, BindingsInitInv, BindingsNextInv, PTL DEF BindingsSpec

\* A binding belongs to an owner that exists, and an identity or a pack has a value once.
THEOREM BindingsTypesHold == BindingsSpec => []BindingsTypeOK
<1>1. BindingsInv => BindingsTypeOK BY DEF BindingsInv
<1> QED BY <1>1, BindingsInitInv, BindingsNextInv, PTL DEF BindingsSpec
------------------------------------------------------------------------------
(***************************************************************************)
(* The services together.                                                  *)
(***************************************************************************)
\* What one of the services does leaves the others as they are.
LEMMA OneAtATimeServes ==
    [ServicesNext]_servicesVars =>
        /\ [PacksNext]_packsVars /\ [IdentityNext]_identityVars /\ [RoutingNext]_routingVars
        /\ [AuditNext]_auditVars /\ [BindingsNext]_bindingsVars /\ [PipelineNext]_pipelineVars
BY DEF ServicesNext, servicesVars, Part

\* Every one of the services keeps its types whatever the others do.
THEOREM ServicesTypesHold == ServicesSpec => []ServicesTypeOK
<1> DEFINE Inv == /\ PacksInv /\ IdentityInv /\ RoutingInv
                  /\ AuditInv /\ BindingsInv /\ PipelineInv
<1>1. ServicesInit => Inv
  BY PacksInitInv, IdentityInitInv, RoutingInitInv, AuditInitInv, BindingsInitInv, PipelineInitInv
  DEF ServicesInit, Starts
<1>2. Inv /\ [ServicesNext]_servicesVars => Inv'
  BY OneAtATimeServes, PacksNextInv, IdentityNextInv, RoutingNextInv, AuditNextInv, BindingsNextInv, PipelineNextInv
<1>3. Inv => ServicesTypeOK
  BY PacksInvTypes DEF IdentityInv, RoutingInv, AuditInv, BindingsInv, PipelineInv, ServicesTypeOK
<1> QED BY <1>1, <1>2, <1>3, PTL DEF ServicesSpec
==============================================================================
