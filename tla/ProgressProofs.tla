--------------------------- MODULE ProgressProofs ---------------------------
(***************************************************************************)
(* What holds of PolicyEngine and BackgroundTasks for every number of      *)
(* bundles, cache keys, calls, workers and overlapping requests, and the   *)
(* types of all parts that MCProgress composes.                            *)
(***************************************************************************)
EXTENDS MCProgress, FiniteSetTheorems, TLAPS

(***************************************************************************)
(* PolicyEngine.                                                           *)
(***************************************************************************)
Sweep == [op: {"sweep"}, left: SUBSET Keys]
TrustJob == [op: {"trust"}, pair: AgentClasses \X TrustedServers, level: Levels, found: {"none", "row", "lost"}]

\* What a request in progress holds, by operation; a row of trust that was found is there.
HoldsWell(t, table) ==
    /\ t.op = "sweep" => t \in Sweep
    /\ t.op = "record" => t.bundle \in Bundles
    /\ t.op = "store" => t.key \in Keys /\ t.bundle \in Bundles
    /\ t.op = "trust" => t \in TrustJob /\ (t.found = "row" => table[t.pair] # Nothing)
Held ==
    /\ serving = [r \in PolicyRequests |-> serving[r]]
    /\ \A r \in PolicyRequests : serving[r] # Nothing => HoldsWell(serving[r], trust)

\* A stale decision that nobody excuses is about to be swept: a deployment has not been
\* recorded yet, or a sweep has this very key before it.
Pursued(k) ==
    \/ Serving("record") # {}
    \/ \E r \in Serving("sweep") : k \in serving[r].left
Pursuit == \A k \in Keys : StaleKey(k) /\ ~decided[k].excused => Pursued(k)

IInv == PolicyTypeOK /\ Held /\ Pursuit
------------------------------------------------------------------------------
LEMMA InitInv == PolicyInit => IInv
<1> SUFFICES ASSUME PolicyInit PROVE IInv
  OBVIOUS
<1> USE PolicyAssumption DEF PolicyInit
<1>1. PolicyTypeOK
  BY DEF PolicyTypeOK, Decision
<1>2. Held
  BY DEF Held, Serving
<1>3. Pursuit
  BY DEF Pursuit, StaleKey
<1> QED  BY <1>1, <1>2, <1>3 DEF IInv

\* The steps that leave decisions and bundle alone keep the pursuit if they end no sweep
\* and no deployment.
LEMMA StillPursued ==
  ASSUME Pursuit, UNCHANGED <<bundle, decided>>,
         \A r \in Serving("record") : r \in Serving("record")',
         \A r \in Serving("sweep") : r \in Serving("sweep")' /\ serving[r].left \subseteq serving'[r].left
  PROVE  Pursuit'
<1> SUFFICES ASSUME NEW k \in Keys, StaleKey(k)', ~decided'[k].excused
             PROVE  Pursued(k)'
  BY DEF Pursuit
<1>1. Pursued(k)
  BY DEF Pursuit, StaleKey
<1>2. CASE Serving("record") # {}
  BY <1>2 DEF Pursued
<1>3. CASE \E r \in Serving("sweep") : k \in serving[r].left
  BY <1>3 DEF Pursued
<1> QED  BY <1>1, <1>2, <1>3 DEF Pursued

\* After Excuse no stale decision is left unexcused.
LEMMA ExcuseExcuses ==
  ASSUME PolicyTypeOK, Excuse, bundle' = bundle
  PROVE  /\ decided' \in [Keys -> Decision \cup {Nothing}]
         /\ \A k \in Keys : StaleKey(k)' => decided'[k].excused
<1> SUFFICES ASSUME NEW k \in Keys
             PROVE  /\ decided'[k] \in Decision \cup {Nothing}
                    /\ StaleKey(k)' => decided'[k].excused
  BY DEF Excuse
<1>1. decided[k] \in Decision \cup {Nothing}
  BY DEF PolicyTypeOK
<1>2. CASE StaleKey(k)
  <2>1. decided[k] \in Decision
    BY <1>1, <1>2 DEF StaleKey
  <2>2. decided'[k] = [decided[k] EXCEPT !.excused = TRUE]
    BY <1>2 DEF Excuse
  <2> QED  BY <2>1, <2>2 DEF Decision
<1>3. CASE ~StaleKey(k)
  <2>1. decided'[k] = decided[k]
    BY <1>3 DEF Excuse
  <2> QED  BY <1>1, <1>3, <2>1 DEF StaleKey
<1> QED  BY <1>2, <1>3
------------------------------------------------------------------------------
(***************************************************************************)
(* The steps, by what they touch.                                          *)
(***************************************************************************)
\* One request goes on and no row of trust disappears.
LEMMA ServeHeld ==
  ASSUME Held, NEW r \in PolicyRequests, serving' = [serving EXCEPT ![r] = serving'[r]],
         serving'[r] # Nothing => HoldsWell(serving'[r], trust'),
         \A x \in AgentClasses \X TrustedServers : trust[x] # Nothing => trust'[x] # Nothing
  PROVE  Held'
<1>1. \A q \in PolicyRequests : q # r => serving'[q] = serving[q]
  BY DEF Held
<1>2. serving' = [q \in PolicyRequests |-> serving'[q]]
  BY DEF Held
<1>3. ASSUME NEW q \in PolicyRequests, serving'[q] # Nothing
      PROVE  HoldsWell(serving'[q], trust')
  <2>1. CASE q = r
    BY <1>3, <2>1
  <2>2. CASE q # r
    <3>1. serving'[q] = serving[q] /\ HoldsWell(serving[q], trust)
      BY <1>1, <1>3, <2>2 DEF Held
    <3>2. serving[q] \in TrustJob => serving[q].pair \in AgentClasses \X TrustedServers
      BY DEF TrustJob
    <3> QED  BY <3>1, <3>2 DEF HoldsWell
  <2> QED  BY <2>1, <2>2
<1> QED  BY <1>2, <1>3 DEF Held

\* Only the request that goes on changes.
LEMMA ServeOne ==
  ASSUME Held, NEW r \in PolicyRequests, NEW STATE t, Serve(r, t)
  PROVE  /\ serving'[r] = t /\ serving' = [serving EXCEPT ![r] = serving'[r]]
         /\ \A q \in PolicyRequests : q # r => serving'[q] = serving[q]
  BY DEF Serve, Held

\* A sweep that begins now has every decision before it.
LEMMA ScanSweeps == Scan \in Sweep /\ Scan # Nothing /\ \A k \in Keys : decided[k] # Nothing => k \in Scan.left
<1>1. Scan \in Sweep
  BY DEF Scan, Sweep
<1> QED  BY <1>1, PolicyAssumption DEF Scan, Sweep

LEMMA SweepPageInv ==
  ASSUME IInv, NEW r \in PolicyRequests, SweepPage(r)
  PROVE  IInv'
<1> USE DEF SweepPage
<1>1. PICK page \in SUBSET Keys :
         /\ decided' = [k \in Keys |-> IF k \in page THEN Nothing ELSE decided[k]]
         /\ Serve(r, [serving[r] EXCEPT !.left = @ \ page])
  OBVIOUS
<1> DEFINE t == [serving[r] EXCEPT !.left = @ \ page]
<1>2. PolicyTypeOK /\ Held /\ Pursuit
  BY DEF IInv
<1>3. serving[r] # Nothing /\ serving[r] \in Sweep
  BY <1>2 DEF Held, HoldsWell, Serving
<1>4. t \in Sweep /\ t # Nothing /\ t.op = "sweep" /\ t.left = serving[r].left \ page
  BY <1>3, PolicyAssumption DEF Sweep
<1>5. /\ serving'[r] = t /\ serving' = [serving EXCEPT ![r] = serving'[r]]
      /\ \A q \in PolicyRequests : q # r => serving'[q] = serving[q]
  BY <1>1, <1>2, ServeOne
<1> HIDE DEF t
<1>6. Held'
  BY <1>1, <1>2, <1>4, <1>5, ServeHeld DEF HoldsWell
<1>7. PolicyTypeOK'
  BY <1>1, <1>2 DEF PolicyTypeOK
<1>8. Pursuit'
  <2> SUFFICES ASSUME NEW k \in Keys, StaleKey(k)', ~decided'[k].excused
               PROVE  Pursued(k)'
    BY DEF Pursuit
  <2>1. k \notin page /\ Pursued(k)
    BY <1>1, <1>2 DEF StaleKey, Pursuit
  <2>2. CASE Serving("record") # {}
    BY <1>3, <1>5, <2>2 DEF Pursued, Serving, Sweep
  <2>3. CASE \E q \in Serving("sweep") : k \in serving[q].left
    BY <1>4, <1>5, <2>1, <2>3 DEF Pursued, Serving
  <2> QED  BY <2>1, <2>2, <2>3 DEF Pursued
<1> QED  BY <1>6, <1>7, <1>8 DEF IInv

LEMMA SweepEndsInv ==
  ASSUME IInv, NEW r \in PolicyRequests, SweepEnds(r)
  PROVE  IInv'
<1> USE DEF SweepEnds
<1>1. PolicyTypeOK /\ Held /\ Pursuit
  BY DEF IInv
<1>s. /\ serving'[r] = Nothing /\ serving' = [serving EXCEPT ![r] = serving'[r]]
      /\ \A q \in PolicyRequests : q # r => serving'[q] = serving[q]
  BY <1>1, ServeOne
<1>2. Held'
  BY <1>1, <1>s, ServeHeld
<1>3. PolicyTypeOK'
  BY <1>1 DEF PolicyTypeOK
<1>4. Pursuit'
  <2> SUFFICES ASSUME NEW k \in Keys, StaleKey(k)', ~decided'[k].excused
               PROVE  Pursued(k)'
    BY DEF Pursuit
  <2>1. Pursued(k)
    BY <1>1 DEF StaleKey, Pursuit
  <2> QED  BY <1>s, <2>1 DEF Pursued, Serving
<1> QED  BY <1>2, <1>3, <1>4 DEF IInv

\* A sweep that fails and a deployment that is not recorded leave only excused decisions.
LEMMA FailsInv ==
  ASSUME IInv, NEW r \in PolicyRequests, SweepFails(r) \/ DeployFails(r)
  PROVE  IInv'
<1>1. PolicyTypeOK /\ Held /\ Pursuit /\ Excuse /\ Serve(r, Nothing)
      /\ UNCHANGED <<bundle, recorded, trust, classes>>
  BY DEF IInv, SweepFails, DeployFails
<1>s. serving'[r] = Nothing /\ serving' = [serving EXCEPT ![r] = serving'[r]]
  BY <1>1, ServeOne
<1>2. Held'
  BY <1>1, <1>s, ServeHeld
<1>3. decided' \in [Keys -> Decision \cup {Nothing}] /\ \A k \in Keys : StaleKey(k)' => decided'[k].excused
  BY <1>1, ExcuseExcuses
<1>4. PolicyTypeOK'
  BY <1>1, <1>3 DEF PolicyTypeOK
<1>5. Pursuit'
  BY <1>3 DEF Pursuit
<1> QED  BY <1>2, <1>4, <1>5 DEF IInv

LEMMA DeployPutInv ==
  ASSUME IInv, NEW r \in PolicyRequests, NEW b \in Bundles, DeployPut(r, b)
  PROVE  IInv'
<1> USE DEF DeployPut
<1>1. PolicyTypeOK /\ Held
  BY DEF IInv
<1>2. serving'[r] = [op |-> "record", bundle |-> b] /\ serving' = [serving EXCEPT ![r] = serving'[r]]
  BY <1>1, ServeOne
<1>3. Held'
  BY <1>1, <1>2, ServeHeld DEF HoldsWell
<1>4. r \in Serving("record")'
  BY <1>2, PolicyAssumption DEF Serving
<1>5. PolicyTypeOK'
  BY <1>1 DEF PolicyTypeOK
<1> QED  BY <1>3, <1>4, <1>5 DEF IInv, Pursuit, Pursued

LEMMA DeployRecordInv ==
  ASSUME IInv, NEW r \in PolicyRequests, DeployRecord(r)
  PROVE  IInv'
<1> USE DEF DeployRecord, AfterDeployment
<1>1. PolicyTypeOK /\ Held
  BY DEF IInv
<1>2. serving'[r] = Scan /\ serving' = [serving EXCEPT ![r] = serving'[r]]
  BY <1>1, ServeOne
<1>3. Scan \in Sweep /\ Scan.op = "sweep"
  BY ScanSweeps DEF Sweep
<1>4. Held'
  BY <1>1, <1>2, <1>3, ServeHeld DEF HoldsWell
<1>5. PolicyTypeOK'
  BY <1>1 DEF PolicyTypeOK, Serving, Held, HoldsWell
<1>6. \A k \in Keys : decided'[k] # Nothing => k \in serving'[r].left
  BY <1>2, ScanSweeps
<1>7. r \in Serving("sweep")'
  BY <1>2, <1>3, ScanSweeps DEF Serving
<1> QED  BY <1>4, <1>5, <1>6, <1>7 DEF IInv, Pursuit, Pursued, StaleKey
------------------------------------------------------------------------------
(***************************************************************************)
(* Evaluations, and the expiry of what they keep.                          *)
(***************************************************************************)
LEMMA EvaluateAskInv ==
  ASSUME IInv, NEW r \in PolicyRequests, NEW k \in Keys, EvaluateAsk(r, k)
  PROVE  IInv'
<1> USE DEF EvaluateAsk
<1>1. PolicyTypeOK /\ Held /\ Pursuit
  BY DEF IInv
<1>2. /\ serving'[r] = [op |-> "store", key |-> k, bundle |-> bundle]
      /\ serving' = [serving EXCEPT ![r] = serving'[r]]
      /\ \A q \in PolicyRequests : q # r => serving'[q] = serving[q]
  BY <1>1, ServeOne
<1>3. Held'
  BY <1>1, <1>2, ServeHeld DEF HoldsWell, PolicyTypeOK
<1>4. PolicyTypeOK'
  BY <1>1 DEF PolicyTypeOK
<1>5. Pursuit'
  BY <1>1, <1>2, StillPursued DEF Serving
<1> QED  BY <1>3, <1>4, <1>5 DEF IInv

\* What is stored stale is excused as it is stored.
LEMMA EvaluateStoreInv ==
  ASSUME IInv, NEW r \in PolicyRequests, EvaluateStore(r)
  PROVE  IInv'
<1> USE DEF EvaluateStore
<1>1. PolicyTypeOK /\ Held /\ Pursuit
  BY DEF IInv
<1>2. serving[r].key \in Keys /\ serving[r].bundle \in Bundles
  BY <1>1 DEF Held, HoldsWell, Serving
<1> DEFINE new == [bundle |-> serving[r].bundle, excused |-> serving[r].bundle # bundle]
<1>3. decided' = [decided EXCEPT ![serving[r].key] = new] /\ new \in Decision
  BY <1>2 DEF Decision
<1>4. /\ serving'[r] = Nothing /\ serving' = [serving EXCEPT ![r] = serving'[r]]
      /\ \A q \in PolicyRequests : q # r => serving'[q] = serving[q]
  BY <1>1, ServeOne
<1>5. Held'
  BY <1>1, <1>4, ServeHeld
<1>6. PolicyTypeOK'
  BY <1>1, <1>3 DEF PolicyTypeOK
<1>7. Pursuit'
  <2> SUFFICES ASSUME NEW k \in Keys, StaleKey(k)', ~decided'[k].excused
               PROVE  Pursued(k)'
    BY DEF Pursuit
  <2>1. k # serving[r].key
    <3> SUFFICES ASSUME k = serving[r].key PROVE FALSE
      OBVIOUS
    <3>1. decided'[k] = new /\ bundle' = bundle
      BY <1>1, <1>2, <1>3 DEF PolicyTypeOK
    <3>2. new.bundle = serving[r].bundle /\ new.excused = (serving[r].bundle # bundle)
      OBVIOUS
    <3> HIDE DEF new
    <3>3. serving[r].bundle # bundle
      BY <3>1, <3>2 DEF StaleKey
    <3>4. ~new.excused
      BY <3>1
    <3> QED  BY <3>2, <3>3, <3>4, Zenon
  <2>2. decided'[k] = decided[k]
    BY <1>1, <1>3, <2>1 DEF PolicyTypeOK
  <2>3. Pursued(k)
    BY <1>1, <2>2 DEF StaleKey, Pursuit
  <2> QED  BY <1>4, <2>3 DEF Pursued, Serving
<1> QED  BY <1>5, <1>6, <1>7 DEF IInv

LEMMA EvaluateFailsInv ==
  ASSUME IInv, NEW r \in PolicyRequests, EvaluateFails(r)
  PROVE  IInv'
<1> USE DEF EvaluateFails
<1>1. PolicyTypeOK /\ Held /\ Pursuit
  BY DEF IInv
<1>2. /\ serving'[r] = Nothing /\ serving' = [serving EXCEPT ![r] = serving'[r]]
      /\ \A q \in PolicyRequests : q # r => serving'[q] = serving[q]
  BY <1>1, ServeOne
<1>3. Held'
  BY <1>1, <1>2, ServeHeld
<1>4. PolicyTypeOK'
  BY <1>1 DEF PolicyTypeOK
<1>5. Pursuit'
  BY <1>1, <1>2, StillPursued DEF Serving
<1> QED  BY <1>3, <1>4, <1>5 DEF IInv

LEMMA ExpireInv ==
  ASSUME IInv, NEW k \in Keys, Expire(k)
  PROVE  IInv'
<1> USE DEF Expire
<1>1. PolicyTypeOK /\ Held /\ Pursuit
  BY DEF IInv
<1>2. PolicyTypeOK'
  BY <1>1 DEF PolicyTypeOK
<1>3. Held'
  BY <1>1 DEF Held, HoldsWell
<1>4. Pursuit'
  <2> SUFFICES ASSUME NEW i \in Keys, StaleKey(i)', ~decided'[i].excused
               PROVE  Pursued(i)'
    BY DEF Pursuit
  <2>1. decided'[i] = decided[i]
    BY <1>1 DEF StaleKey, PolicyTypeOK
  <2>2. Pursued(i)
    BY <1>1, <2>1 DEF StaleKey, Pursuit
  <2> QED  BY <2>2 DEF Pursued, Serving
<1> QED  BY <1>2, <1>3, <1>4 DEF IInv
------------------------------------------------------------------------------
(***************************************************************************)
(* Classes and trust.                                                      *)
(***************************************************************************)
LEMMA CreateClassInv ==
  ASSUME IInv, NEW c \in AgentClasses, CreateClass(c)
  PROVE  IInv'
<1> USE DEF CreateClass
<1>1. PolicyTypeOK /\ Held /\ Pursuit
  BY DEF IInv
<1>2. PolicyTypeOK'
  BY <1>1 DEF PolicyTypeOK
<1>3. Held'
  BY <1>1 DEF Held, HoldsWell
<1>4. Pursuit'
  BY <1>1, StillPursued DEF Serving
<1> QED  BY <1>2, <1>3, <1>4 DEF IInv

\* Without its rows a request at trust is still one, and the others do not notice.
LEMMA RowsGone ==
  ASSUME Held, NEW pairs, NEW q \in PolicyRequests
  PROVE  \/ /\ WithoutRows(pairs)[q] = serving[q]
            /\ ~(q \in Serving("trust") /\ serving[q].found = "row" /\ serving[q].pair \in pairs)
         \/ /\ q \in Serving("trust") /\ WithoutRows(pairs)[q] \in TrustJob
            /\ WithoutRows(pairs)[q].found = "lost"
<1>1. CASE q \in Serving("trust") /\ serving[q].found = "row" /\ serving[q].pair \in pairs
  <2>1. serving[q] \in TrustJob
    BY <1>1 DEF Held, HoldsWell, Serving
  <2>2. WithoutRows(pairs)[q] = [serving[q] EXCEPT !.found = "lost"]
    BY <1>1 DEF WithoutRows
  <2> QED  BY <1>1, <2>1, <2>2 DEF TrustJob
<1>2. CASE ~(q \in Serving("trust") /\ serving[q].found = "row" /\ serving[q].pair \in pairs)
  BY <1>2 DEF WithoutRows
<1> QED  BY <1>1, <1>2

\* DeleteClass and RemoveTrust: rows go, r begins to sweep.
LEMMA RowsGoneInv ==
  ASSUME Held, Pursuit, NEW r \in PolicyRequests, serving[r] = Nothing,
         NEW pairs \in SUBSET (AgentClasses \X TrustedServers),
         UNCHANGED <<bundle, decided>>,
         serving' = [WithoutRows(pairs) EXCEPT ![r] = Scan],
         \A x \in AgentClasses \X TrustedServers : x \notin pairs => trust'[x] = trust[x]
  PROVE  Held' /\ Pursuit'
<1>1. serving'[r] = Scan /\ \A q \in PolicyRequests : q # r => serving'[q] = WithoutRows(pairs)[q]
  BY DEF WithoutRows
<1>2. serving' = [q \in PolicyRequests |-> serving'[q]]
  BY DEF WithoutRows
<1>3. ASSUME NEW q \in PolicyRequests, serving'[q] # Nothing
      PROVE  HoldsWell(serving'[q], trust')
  <2>1. CASE q = r
    BY <1>1, <2>1, ScanSweeps DEF HoldsWell, Sweep
  <2>2. CASE q # r /\ serving'[q] = serving[q] /\ ~(q \in Serving("trust") /\ serving[q].found = "row" /\ serving[q].pair \in pairs)
    <3>1. HoldsWell(serving[q], trust)
      BY <1>3, <2>2 DEF Held
    <3>2. ASSUME serving[q].op = "trust", serving[q].found = "row"
          PROVE  trust'[serving[q].pair] # Nothing
      <4>1. serving[q].pair \in (AgentClasses \X TrustedServers) \ pairs
        BY <1>3, <2>2, <3>1, <3>2 DEF HoldsWell, Serving, TrustJob
      <4> QED  BY <3>1, <3>2, <4>1 DEF HoldsWell
    <3> QED  BY <2>2, <3>1, <3>2 DEF HoldsWell
  <2>3. CASE serving'[q] \in TrustJob /\ serving'[q].found = "lost"
    BY <2>3 DEF HoldsWell, TrustJob
  <2> QED  BY <1>1, <2>1, <2>2, <2>3, RowsGone
<1>4. Held'
  BY <1>2, <1>3 DEF Held
<1>5. \A q \in Serving("record") \cup Serving("sweep") : serving'[q] = serving[q]
  BY <1>1, RowsGone DEF Serving
<1>6. Pursuit'
  BY <1>5, StillPursued DEF Serving
<1> QED  BY <1>4, <1>6

LEMMA DeleteClassInv ==
  ASSUME IInv, NEW r \in PolicyRequests, NEW c \in AgentClasses, DeleteClass(r, c)
  PROVE  IInv'
<1> USE DEF DeleteClass
<1>1. PolicyTypeOK /\ Held /\ Pursuit
  BY DEF IInv
<1>2. \A x \in AgentClasses \X TrustedServers : trust'[x] = IF x[1] = c THEN Nothing ELSE trust[x]
  BY <1>1 DEF PolicyTypeOK
<1>3. Held' /\ Pursuit'
  <2>1. \A x \in AgentClasses \X TrustedServers : x \notin {c} \X TrustedServers => x[1] # c
    OBVIOUS
  <2>2. {c} \X TrustedServers \in SUBSET (AgentClasses \X TrustedServers)
    OBVIOUS
  <2>3. \A x \in AgentClasses \X TrustedServers : x \notin {c} \X TrustedServers => trust'[x] = trust[x]
    BY <1>2, <2>1
  <2> QED  BY <1>1, <2>2, <2>3, RowsGoneInv
<1>4. PolicyTypeOK'
  BY <1>1, <1>2 DEF PolicyTypeOK
<1> QED  BY <1>3, <1>4 DEF IInv

LEMMA RemoveTrustInv ==
  ASSUME IInv, NEW r \in PolicyRequests, NEW x \in AgentClasses \X TrustedServers, RemoveTrust(r, x)
  PROVE  IInv'
<1> USE DEF RemoveTrust
<1>1. PolicyTypeOK /\ Held /\ Pursuit
  BY DEF IInv
<1>2. \A y \in AgentClasses \X TrustedServers : trust'[y] = IF y = x THEN Nothing ELSE trust[y]
  BY <1>1 DEF PolicyTypeOK
<1>3. Held' /\ Pursuit'
  BY <1>1, <1>2, RowsGoneInv
<1>4. PolicyTypeOK'
  BY <1>1, <1>2 DEF PolicyTypeOK
<1> QED  BY <1>3, <1>4 DEF IInv

LEMMA TrustLoadInv ==
  ASSUME IInv, NEW r \in PolicyRequests, NEW x \in AgentClasses \X TrustedServers, NEW l \in Levels,
         TrustLoad(r, x, l)
  PROVE  IInv'
<1> USE DEF TrustLoad
<1> DEFINE t == [op |-> "trust", pair |-> x, level |-> l, found |-> IF trust[x] = Nothing THEN "none" ELSE "row"]
<1>1. PolicyTypeOK /\ Held /\ Pursuit
  BY DEF IInv
<1>2. /\ serving'[r] = t /\ serving' = [serving EXCEPT ![r] = serving'[r]]
      /\ \A q \in PolicyRequests : q # r => serving'[q] = serving[q]
  BY <1>1, ServeOne
<1>3. HoldsWell(serving'[r], trust')
  BY <1>2 DEF HoldsWell, TrustJob
<1>4. Held'
  BY <1>1, <1>2, <1>3, ServeHeld
<1>5. PolicyTypeOK'
  BY <1>1 DEF PolicyTypeOK
<1>6. Pursuit'
  BY <1>1, <1>2, StillPursued DEF Serving
<1> QED  BY <1>4, <1>5, <1>6 DEF IInv

\* An update finds its row, and the row its class; an insertion has looked for the class.
LEMMA TrustCommitInv ==
  ASSUME IInv, NEW r \in PolicyRequests, TrustCommit(r)
  PROVE  IInv'
<1> USE DEF TrustCommit
<1>1. PolicyTypeOK /\ Held /\ Pursuit
  BY DEF IInv
<1>2. serving[r] \in TrustJob /\ (serving[r].found = "row" => trust[serving[r].pair] # Nothing)
  BY <1>1 DEF Held, HoldsWell, Serving
<1>3. /\ serving'[r] = Scan /\ serving' = [serving EXCEPT ![r] = serving'[r]]
      /\ \A q \in PolicyRequests : q # r => serving'[q] = serving[q]
  BY <1>1, ServeOne
<1>4. HoldsWell(Scan, trust')
  BY ScanSweeps DEF HoldsWell, Sweep
<1>5. serving[r].level \in Levels /\ serving[r].level # Nothing /\ serving[r].pair \in AgentClasses \X TrustedServers
  BY <1>2, PolicyAssumption DEF TrustJob
<1>6. Held'
  BY <1>1, <1>3, <1>4, <1>5, ServeHeld DEF PolicyTypeOK
<1>7. serving[r].pair[1] \in classes
  BY <1>1, <1>2, <1>5 DEF MayCommitTrust, PolicyTypeOK
<1>8. PolicyTypeOK'
  BY <1>1, <1>5, <1>7 DEF PolicyTypeOK
<1>9. Pursuit'
  BY <1>1, <1>3, StillPursued DEF Serving
<1> QED  BY <1>6, <1>8, <1>9 DEF IInv

LEMMA TrustFailsInv ==
  ASSUME IInv, NEW r \in PolicyRequests, TrustFails(r)
  PROVE  IInv'
<1> USE DEF TrustFails
<1>1. PolicyTypeOK /\ Held /\ Pursuit
  BY DEF IInv
<1>2. /\ serving'[r] = Nothing /\ serving' = [serving EXCEPT ![r] = serving'[r]]
      /\ \A q \in PolicyRequests : q # r => serving'[q] = serving[q]
  BY <1>1, ServeOne
<1>3. Held'
  BY <1>1, <1>2, ServeHeld
<1>4. PolicyTypeOK'
  BY <1>1 DEF PolicyTypeOK
<1>5. Pursuit'
  BY <1>1, <1>2, StillPursued DEF Serving
<1> QED  BY <1>3, <1>4, <1>5 DEF IInv
------------------------------------------------------------------------------
LEMMA NextInv ==
  ASSUME IInv, [PolicyNext]_policyVars
  PROVE  IInv'
<1>1. CASE UNCHANGED policyVars
  BY <1>1 DEF policyVars, IInv, PolicyTypeOK, Held, HoldsWell, Pursuit, Pursued, StaleKey, Serving
<1>2. ASSUME NEW r \in PolicyRequests, InvalidateCache(r) PROVE IInv'
  BY <1>2, SweepPageInv, SweepEndsInv, FailsInv DEF InvalidateCache
<1>3. ASSUME NEW r \in PolicyRequests, DeployBundle(r) PROVE IInv'
  BY <1>3, DeployPutInv, DeployRecordInv, FailsInv DEF DeployBundle
<1>4. ASSUME NEW r \in PolicyRequests, EvaluateCached(r) PROVE IInv'
  BY <1>4, EvaluateAskInv, EvaluateStoreInv, EvaluateFailsInv DEF EvaluateCached
<1>5. ASSUME NEW r \in PolicyRequests, SetTrust(r) PROVE IInv'
  BY <1>5, TrustLoadInv, TrustCommitInv, TrustFailsInv DEF SetTrust
<1> QED  BY <1>1, <1>2, <1>3, <1>4, <1>5, DeleteClassInv, RemoveTrustInv, ExpireInv, CreateClassInv DEF PolicyNext

\* The invariant: whatever requests overlap and whatever calls fail, types are kept, and a
\* stale decision that no failure and no late evaluation explains is still being swept
\* (deploy_bundle, evaluate_cached, _invalidate_policy_cache).
THEOREM Inductive == PolicySpec => []IInv
<1>1. PolicyInit => IInv
  BY InitInv
<1>2. IInv /\ [PolicyNext]_policyVars => IInv'
  BY NextInv
<1> QED  BY <1>1, <1>2, PTL DEF PolicySpec

\* The tables, the cache and OPA's bundle keep their types, and trust is about classes that
\* exist (set_trust, delete_agent_class).
THEOREM TypeCorrect == PolicySpec => []PolicyTypeOK
<1>1. IInv => PolicyTypeOK
  BY DEF IInv
<1> QED  BY <1>1, Inductive, PTL

\* The only stale decisions that a deployment leaves behind are those of evaluations that
\* overlapped it and of calls that failed (deploy_bundle, _invalidate_policy_cache).
THEOREM StaleExplained == PolicySpec => []StaleOnlyByOverlap
<1>1. IInv => StaleOnlyByOverlap
  <2> SUFFICES ASSUME IInv, NEW k \in Keys, StaleKey(k), ~decided[k].excused
               PROVE  Serving("record") \cup Serving("sweep") # {}
    BY DEF StaleOnlyByOverlap
  <2>1. Pursued(k)
    BY DEF IInv, Pursuit
  <2> QED  BY <2>1 DEF Pursued
<1> QED  BY <1>1, Inductive, PTL
------------------------------------------------------------------------------
(***************************************************************************)
(* BackgroundTasks.                                                        *)
(***************************************************************************)
\* Messages of t that can still lead to attempt n: those up to it that wait in q, and those
\* that v's workers run; of those that are through, the ones of attempt n itself.
WaitsIn(q, t, n) ==
    {u \in Nat \X Nat : u[1] <= n /\ <<t, u[1]>> \in Messages /\ u[2] \in 1..q[<<t, u[1]>>]}
LeadsTo(x, t, n) ==
    /\ x # NoMessage /\ x.message[1] = t
    /\ x.message[2] <= n /\ (x.step = "ack" => x.message[2] = n)
RunsIn(v, t, n) == {w \in Workers : LeadsTo(v[w], t, n)}
Runs == [step: {"run", "ack"}, message: Messages]

BoundHolds(t, n) ==
    /\ IsFiniteSet(WaitsIn(queue, t, n))
    /\ Cardinality(WaitsIn(queue, t, n)) + Cardinality(RunsIn(worker, t, n)) <= IF t \in sent THEN deaths + 1 ELSE 0
TasksInv ==
    /\ queue \in [Messages -> Nat] /\ worker \in [Workers -> Runs \cup {NoMessage}]
    /\ sent \subseteq Tasks /\ deaths \in Nat
    /\ outcome \in [Tasks -> {"success", "failure", NoMessage}]
    /\ \A m \in Messages : queue[m] > 0 => m[1] \in sent
    /\ \A w \in Workers : worker[w] # NoMessage => worker[w].message[1] \in sent
    /\ \A t \in Tasks, n \in Nat : BoundHolds(t, n)
------------------------------------------------------------------------------
LEMMA MessagesArePairs ==
    /\ \A t, n : <<t, n>> \in Messages <=> t \in Tasks /\ n \in Retries(t)
    /\ \A m \in Messages : m = <<m[1], m[2]>> /\ m[1] \in Tasks /\ m[2] \in Nat /\ m[2] \in Retries(m[1])
<1>1. \A t \in Tasks : Retries(t) \subseteq Nat BY TasksAssumption DEF Retries
<1> QED BY <1>1 DEF Messages

\* One message more, and one less.
LEMMA PutOne ==
    ASSUME NEW q \in [Messages -> Nat], NEW m \in Messages, NEW t, NEW n \in Nat, IsFiniteSet(WaitsIn(q, t, n))
    PROVE  /\ Plus(q, m) \in [Messages -> Nat] /\ IsFiniteSet(WaitsIn(Plus(q, m), t, n))
           /\ Cardinality(WaitsIn(Plus(q, m), t, n))
                = Cardinality(WaitsIn(q, t, n)) + (IF m[1] = t /\ m[2] <= n THEN 1 ELSE 0)
<1> DEFINE p == Plus(q, m)
           u == <<m[2], q[m] + 1>>
<1>1. p \in [Messages -> Nat] /\ \A k \in Messages : p[k] = IF k = m THEN q[k] + 1 ELSE q[k] BY DEF Plus
<1>2. m = <<m[1], m[2]>> /\ m[2] \in Nat /\ q[m] \in Nat BY MessagesArePairs
<1> HIDE DEF p
<1>0. \A k : <<m[1], k>> = m <=> k = m[2] BY <1>2
<1>3. CASE m[1] = t /\ m[2] <= n
  <2>1. WaitsIn(p, t, n) = WaitsIn(q, t, n) \cup {u}
    <3>1. ASSUME NEW k \in Nat, NEW i \in Nat, <<t, k>> \in Messages
          PROVE  i \in 1..p[<<t, k>>] <=> i \in 1..q[<<t, k>>] \/ <<k, i>> = u
      <4>1. <<t, k>> = m <=> k = m[2] BY <1>0, <1>3
      <4>2. q[<<t, k>>] \in Nat BY <3>1
      <4>3. CASE k = m[2]
        <5>1. p[<<t, k>>] = q[m] + 1 /\ q[<<t, k>>] = q[m] BY <1>1, <3>1, <4>1, <4>3
        <5>2. i \in 1..(q[m] + 1) <=> i \in 1..q[m] \/ i = q[m] + 1 BY <1>2
        <5> QED BY <4>3, <5>1, <5>2
      <4>4. CASE k # m[2]
        BY <1>1, <3>1, <4>1, <4>4
      <4> QED BY <4>3, <4>4
    <3>2. <<t, m[2]>> \in Messages /\ p[<<t, m[2]>>] = q[m] + 1 BY <1>0, <1>1, <1>3
    <3> HIDE DEF u
    <3>3. u \in Nat \X Nat /\ u[1] = m[2] /\ u[2] = q[m] + 1 BY <1>2 DEF u
    <3>4. u \in WaitsIn(p, t, n) BY <1>2, <1>3, <3>2, <3>3 DEF WaitsIn
    <3>5. \A e \in Nat \X Nat : e = <<e[1], e[2]>> /\ e[1] \in Nat /\ e[2] \in Nat OBVIOUS
    <3>6. \A e \in WaitsIn(p, t, n) : e = u \/ e \in WaitsIn(q, t, n) BY <3>1, <3>5 DEF WaitsIn
    <3>7. \A e \in WaitsIn(q, t, n) : e \in WaitsIn(p, t, n) BY <3>1, <3>5 DEF WaitsIn
    <3> QED BY <3>4, <3>6, <3>7
  <2>2. u \notin WaitsIn(q, t, n) BY <1>0, <1>2, <1>3 DEF WaitsIn
  <2> HIDE DEF u
  <2>3. /\ IsFiniteSet(WaitsIn(p, t, n))
        /\ Cardinality(WaitsIn(p, t, n)) = Cardinality(WaitsIn(q, t, n)) + 1
    BY <2>1, <2>2, FS_AddElement
  <2> QED BY <1>1, <1>3, <2>3 DEF p
<1>4. CASE ~(m[1] = t /\ m[2] <= n)
  <2>1. WaitsIn(p, t, n) = WaitsIn(q, t, n) 
    <3>1. ASSUME NEW k \in Nat, <<t, k>> \in Messages, k <= n PROVE p[<<t, k>>] = q[<<t, k>>]
      BY <1>0, <1>1, <1>2, <1>4, <3>1
    <3>2. \A e \in Nat \X Nat : e[1] \in Nat OBVIOUS
    <3>3. \A e : e \in WaitsIn(p, t, n) <=> e \in WaitsIn(q, t, n) BY <3>1, <3>2 DEF WaitsIn
    <3> QED BY <3>3
  <2>2. Cardinality(WaitsIn(q, t, n)) \in Nat BY FS_CardinalityType
  <2> QED BY <1>1, <1>4, <2>1, <2>2 DEF p
<1> QED BY <1>3, <1>4

LEMMA TakeOne ==
    ASSUME NEW q \in [Messages -> Nat], NEW m \in Messages, q[m] > 0
    PROVE  LET p == [q EXCEPT ![m] = @ - 1] IN p \in [Messages -> Nat] /\ q = Plus(p, m)
<1> DEFINE p == [q EXCEPT ![m] = q[m] - 1]
<1>1. q[m] - 1 \in Nat OBVIOUS
<1>2. p \in [Messages -> Nat] /\ p[m] = q[m] - 1 /\ \A k \in Messages : k # m => p[k] = q[k] BY <1>1
<1> HIDE DEF p
<1>3. PICK z : z = Plus(p, m) OBVIOUS
<1>4. z = [p EXCEPT ![m] = p[m] + 1] /\ p[m] + 1 = q[m] BY <1>2, <1>3 DEF Plus
<1>5. z \in [Messages -> Nat] /\ \A k \in Messages : z[k] = q[k] BY <1>2, <1>4
<1>6. z = q
  <2>1. z = [k \in Messages |-> z[k]] /\ q = [k \in Messages |-> q[k]] BY <1>5
  <2> HIDE <1>3, <1>4
  <2> QED BY <1>5, <2>1
<1>7. p = [q EXCEPT ![m] = @ - 1] BY DEF p
<1> QED BY <1>2, <1>3, <1>6, <1>7

LEMMA OneLess ==
    ASSUME NEW q, NEW m \in Messages, NEW p \in [Messages -> Nat], q = Plus(p, m),
           NEW t, NEW n \in Nat, IsFiniteSet(WaitsIn(q, t, n))
    PROVE  /\ IsFiniteSet(WaitsIn(p, t, n))
           /\ Cardinality(WaitsIn(p, t, n))
                = Cardinality(WaitsIn(q, t, n)) - (IF m[1] = t /\ m[2] <= n THEN 1 ELSE 0)
<1>1. WaitsIn(p, t, n) \subseteq WaitsIn(q, t, n)
  <2>1. \A k \in Messages : p[k] \in Nat /\ q[k] \in Nat /\ p[k] <= q[k] BY DEF Plus
  <2> QED BY <2>1 DEF WaitsIn
<1>2. IsFiniteSet(WaitsIn(p, t, n)) BY <1>1, FS_Subset
<1>3. Cardinality(WaitsIn(p, t, n)) \in Nat BY <1>2, FS_CardinalityType
<1>4. Cardinality(WaitsIn(q, t, n))
        = Cardinality(WaitsIn(p, t, n)) + (IF m[1] = t /\ m[2] <= n THEN 1 ELSE 0)
  BY <1>2, PutOne
<1> QED BY <1>2, <1>3, <1>4

\* A worker goes from one thing to another.
LEMMA OneWorker ==
    ASSUME NEW v \in [Workers -> Runs \cup {NoMessage}], NEW w \in Workers, NEW x \in Runs \cup {NoMessage},
           NEW z, z[w] = x, \A u \in Workers : u # w => z[u] = v[u], NEW t, NEW n \in Nat
    PROVE  /\ Cardinality(RunsIn(v, t, n)) \in Nat
           /\ Cardinality(RunsIn(z, t, n))
                = Cardinality(RunsIn(v, t, n)) - (IF LeadsTo(v[w], t, n) THEN 1 ELSE 0)
                                               + (IF LeadsTo(x, t, n) THEN 1 ELSE 0)
<1> DEFINE others == RunsIn(v, t, n) \ {w}
<1>1. RunsIn(v, t, n) = IF LeadsTo(v[w], t, n) THEN others \cup {w} ELSE others BY DEF RunsIn
<1>2. RunsIn(z, t, n) = IF LeadsTo(x, t, n) THEN others \cup {w} ELSE others BY DEF RunsIn
<1>3. IsFiniteSet(others) BY TasksAssumption, FS_Subset DEF RunsIn
<1>4. w \notin others OBVIOUS
<1> HIDE DEF others
<1>5. Cardinality(others) \in Nat /\ Cardinality(others \cup {w}) = Cardinality(others) + 1
  BY <1>3, <1>4, FS_CardinalityType, FS_AddElement
<1> QED BY <1>1, <1>2, <1>5

LEMMA TasksInitInv == TasksInit => TasksInv
<1> SUFFICES ASSUME TasksInit PROVE TasksInv OBVIOUS
<1> USE DEF TasksInit
<1>1. ASSUME NEW t \in Tasks, NEW n \in Nat PROVE BoundHolds(t, n)
  <2>1. WaitsIn(queue, t, n) = {} BY DEF WaitsIn
  <2>2. RunsIn(worker, t, n) = {} BY DEF RunsIn, LeadsTo
  <2> QED BY <2>1, <2>2, FS_EmptySet DEF BoundHolds
<1> QED BY <1>1 DEF TasksInv

LEMMA Budget ==
    ASSUME NEW a \in Int, NEW b \in Int, NEW d \in Int, NEW e \in Int, NEW f \in Int, NEW i \in Int, NEW j \in Int,
           a + b <= e + 1, i + d <= j + (f - e)
    PROVE  (a + d) + (b - j + i) <= f + 1
OBVIOUS

\* The bound is kept when a step adds no more than it takes away and a death allows.
LEMMA StaysBounded ==
    ASSUME TasksInv, NEW t \in Tasks, NEW n \in Nat, NEW d \in Int, NEW i \in Int, NEW j \in Int,
           IsFiniteSet(WaitsIn(queue', t, n)),
           Cardinality(WaitsIn(queue', t, n)) = Cardinality(WaitsIn(queue, t, n)) + d,
           Cardinality(RunsIn(worker', t, n)) = Cardinality(RunsIn(worker, t, n)) - j + i,
           sent' = sent, deaths' \in Nat, i + d <= j + (IF t \in sent THEN deaths' - deaths ELSE 0)
    PROVE  BoundHolds(t, n)'
<1>1. deaths \in Nat /\ IsFiniteSet(WaitsIn(queue, t, n)) BY DEF TasksInv, BoundHolds
<1>2. Cardinality(WaitsIn(queue, t, n)) \in Nat BY <1>1, FS_CardinalityType
<1>3. Cardinality(RunsIn(worker, t, n)) \in Nat
  <2>1. IsFiniteSet(RunsIn(worker, t, n)) BY TasksAssumption, FS_Subset DEF RunsIn
  <2> QED BY <2>1, FS_CardinalityType
<1>4. Cardinality(WaitsIn(queue, t, n)) + Cardinality(RunsIn(worker, t, n)) <= IF t \in sent THEN deaths + 1 ELSE 0
  BY DEF TasksInv, BoundHolds
<1>5. Cardinality(WaitsIn(queue', t, n)) + Cardinality(RunsIn(worker', t, n)) <= IF t \in sent THEN deaths' + 1 ELSE 0
  <2> DEFINE a == Cardinality(WaitsIn(queue, t, n))
             b == Cardinality(RunsIn(worker, t, n))
  <2>1. a \in Int /\ b \in Int BY <1>2, <1>3
  <2> HIDE DEF a, b
  <2>2. CASE t \in sent
    <3>1. a + b <= deaths + 1 BY <1>4, <2>2 DEF a, b
    <3>2. i + d <= j + (deaths' - deaths) BY <2>2
    <3>3. (a + d) + (b - j + i) <= deaths' + 1
      <4>1. deaths \in Int /\ deaths' \in Int BY <1>1
      <4> QED BY <2>1, <3>1, <3>2, <4>1, Budget
    <3> QED BY <2>2, <3>3 DEF a, b
  <2>3. CASE t \notin sent
    <3>1. a + b <= 0 BY <1>4, <2>3 DEF a, b
    <3>2. i + d <= j BY <2>3
    <3>3. (a + d) + (b - j + i) <= 0 BY <2>1, <3>1, <3>2
    <3> QED BY <2>3, <3>3 DEF a, b
  <2> QED BY <2>2, <2>3
<1> QED BY <1>5 DEF BoundHolds

LEMMA CallInv ==
    ASSUME TasksInv, NEW c \in Tasks, Call(c)
    PROVE  TasksInv'
<1> DEFINE m == <<c, 0>>
<1>1. m \in Messages
  <2>1. 0 \in Retries(c) BY TasksAssumption DEF Retries
  <2> QED BY <2>1, MessagesArePairs
<1>2. queue \in [Messages -> Nat] /\ worker \in [Workers -> Runs \cup {NoMessage}] /\ deaths \in Nat BY DEF TasksInv
<1>3. queue' = Plus(queue, m) /\ worker' = worker /\ deaths' = deaths /\ sent' = sent \cup {c} /\ c \notin sent /\ outcome' = outcome
  BY DEF Call
<1>4. ASSUME NEW t \in Tasks, NEW n \in Nat PROVE BoundHolds(t, n)'
  <2>1. IsFiniteSet(WaitsIn(queue, t, n)) BY DEF TasksInv, BoundHolds
  <2>2. Cardinality(WaitsIn(queue, t, n)) \in Nat BY <2>1, FS_CardinalityType
  <2>3. Cardinality(RunsIn(worker, t, n)) \in Nat
    <3>1. IsFiniteSet(RunsIn(worker, t, n)) BY TasksAssumption, FS_Subset DEF RunsIn
    <3> QED BY <3>1, FS_CardinalityType
  <2>4. /\ IsFiniteSet(WaitsIn(queue', t, n))
        /\ Cardinality(WaitsIn(queue', t, n)) = Cardinality(WaitsIn(queue, t, n)) + (IF m[1] = t /\ m[2] <= n THEN 1 ELSE 0)
    BY <1>1, <1>2, <1>3, <2>1, PutOne
  <2>5. m[1] = t => c = t OBVIOUS
  <2>6. Cardinality(WaitsIn(queue, t, n)) + Cardinality(RunsIn(worker, t, n)) <= IF t \in sent THEN deaths + 1 ELSE 0
    BY DEF TasksInv, BoundHolds
  <2> HIDE DEF m
  <2>7. Cardinality(WaitsIn(queue', t, n)) + Cardinality(RunsIn(worker, t, n)) <= IF t \in sent' THEN deaths' + 1 ELSE 0
    BY <1>2, <1>3, <2>2, <2>3, <2>4, <2>5, <2>6
  <2> QED BY <1>3, <2>4, <2>7 DEF BoundHolds
<1>5. queue' \in [Messages -> Nat] /\ \A k \in Messages : k # m => queue'[k] = queue[k]
  BY <1>1, <1>2, <1>3 DEF Plus
<1>6. \A k \in Messages : queue'[k] > 0 => k[1] \in sent'
  BY <1>3, <1>5 DEF TasksInv
<1> QED BY <1>3, <1>4, <1>5, <1>6 DEF TasksInv

LEMMA TakeInv ==
    ASSUME TasksInv, NEW w \in Workers, NEW m \in Messages, Take(w, m)
    PROVE  TasksInv'
<1> DEFINE x == [step |-> "run", message |-> m]
<1>1. queue \in [Messages -> Nat] /\ worker \in [Workers -> Runs \cup {NoMessage}] BY DEF TasksInv
<1>2. x \in Runs /\ worker' = [worker EXCEPT ![w] = x] /\ worker[w] = NoMessage /\ queue[m] > 0
  BY DEF Take, Runs
<1>3. queue' \in [Messages -> Nat] /\ queue = Plus(queue', m) BY <1>1, <1>2, TakeOne DEF Take
<1>4. deaths' = deaths /\ sent' = sent /\ outcome' = outcome /\ deaths \in Nat BY DEF Take, TasksInv
<1>5. LeadsTo(x, m[1], m[2]) => m[1] \in sent BY <1>2 DEF TasksInv
<1>6. ASSUME NEW t \in Tasks, NEW n \in Nat PROVE BoundHolds(t, n)'
  <2>1. IsFiniteSet(WaitsIn(queue, t, n)) BY DEF TasksInv, BoundHolds
  <2>2. Cardinality(WaitsIn(queue, t, n)) \in Nat BY <2>1, FS_CardinalityType
  <2> DEFINE d == -(IF m[1] = t /\ m[2] <= n THEN 1 ELSE 0)
  <2>3. /\ IsFiniteSet(WaitsIn(queue', t, n))
        /\ Cardinality(WaitsIn(queue', t, n)) = Cardinality(WaitsIn(queue, t, n)) + d
    <3>1. /\ IsFiniteSet(WaitsIn(queue', t, n))
          /\ Cardinality(WaitsIn(queue', t, n)) = Cardinality(WaitsIn(queue, t, n)) - (IF m[1] = t /\ m[2] <= n THEN 1 ELSE 0)
      BY <1>3, <2>1, OneLess
    <3> QED BY <2>2, <3>1
  <2>4. ~LeadsTo(worker[w], t, n) BY <1>2 DEF LeadsTo
  <2>5. LeadsTo(x, t, n) => m[1] = t /\ m[2] <= n BY DEF LeadsTo
  <2> DEFINE i == IF LeadsTo(x, t, n) THEN 1 ELSE 0
  <2>6. d \in Int /\ i \in Int /\ i + d <= 0 BY <2>5
  <2>7. Cardinality(RunsIn(worker', t, n)) = Cardinality(RunsIn(worker, t, n)) - 0 + i
    <3>1. x \in Runs \cup {NoMessage} /\ worker'[w] = x /\ \A u \in Workers : u # w => worker'[u] = worker[u] BY <1>1, <1>2
    <3> HIDE DEF x
    <3>2. /\ Cardinality(RunsIn(worker, t, n)) \in Nat
          /\ Cardinality(RunsIn(worker', t, n)) = Cardinality(RunsIn(worker, t, n))
                - (IF LeadsTo(worker[w], t, n) THEN 1 ELSE 0) + (IF LeadsTo(x, t, n) THEN 1 ELSE 0)
      BY <1>1, <3>1, OneWorker
    <3> QED BY <2>4, <3>2
  <2> HIDE DEF d, x, i
  <2> QED BY <1>4, <2>3, <2>6, <2>7, StaysBounded
<1>7. worker' \in [Workers -> Runs \cup {NoMessage}] BY <1>1, <1>2
<1>8. \A k \in Messages : queue'[k] > 0 => k[1] \in sent
  BY <1>1, <1>2 DEF TasksInv, Take
<1>9. \A v \in Workers : worker'[v] # NoMessage => worker'[v].message[1] \in sent
  BY <1>1, <1>2 DEF TasksInv
<1> QED BY <1>3, <1>4, <1>6, <1>7, <1>8, <1>9 DEF TasksInv

\* A worker goes on, and the queue stays.
LEMMA WorkerGoesOn ==
    ASSUME TasksInv, NEW w \in Workers, NEW x \in Runs \cup {NoMessage},
           worker' \in [Workers -> Runs \cup {NoMessage}], worker'[w] = x,
           \A u \in Workers : u # w => worker'[u] = worker[u],
           UNCHANGED <<queue, sent, deaths>>, outcome' \in [Tasks -> {"success", "failure", NoMessage}],
           \A t, n : LeadsTo(x, t, n) => LeadsTo(worker[w], t, n),
           x # NoMessage => x.message[1] \in sent
    PROVE  TasksInv'
<1>1. worker \in [Workers -> Runs \cup {NoMessage}] /\ deaths \in Nat BY DEF TasksInv
<1>2. ASSUME NEW t \in Tasks, NEW n \in Nat PROVE BoundHolds(t, n)'
  <2> DEFINE i == IF LeadsTo(x, t, n) THEN 1 ELSE 0
             j == IF LeadsTo(worker[w], t, n) THEN 1 ELSE 0
  <2>1. IsFiniteSet(WaitsIn(queue, t, n)) BY DEF TasksInv, BoundHolds
  <2>2. Cardinality(WaitsIn(queue, t, n)) \in Nat BY <2>1, FS_CardinalityType
  <2>0. PICK z \in Int : z = 0 OBVIOUS
  <2>3. IsFiniteSet(WaitsIn(queue', t, n)) /\ Cardinality(WaitsIn(queue', t, n)) = Cardinality(WaitsIn(queue, t, n)) + z
    BY <2>0, <2>1, <2>2
  <2>4. Cardinality(RunsIn(worker', t, n)) = Cardinality(RunsIn(worker, t, n)) - j + i
    BY <1>1, OneWorker
  <2>5. i \in Int /\ j \in Int /\ i <= j OBVIOUS
  <2> HIDE DEF i, j
  <2>6. i + z <= j + (IF t \in sent THEN deaths' - deaths ELSE 0) BY <1>1, <2>0, <2>5
  <2> QED BY <1>1, <2>3, <2>4, <2>5, <2>6, StaysBounded
<1>3. \A u \in Workers : worker'[u] # NoMessage => worker'[u].message[1] \in sent' BY DEF TasksInv
<1> QED BY <1>1, <1>2, <1>3 DEF TasksInv

\* What x adds, and a message m that is put, y's end and d deaths make up for.
Covered(x, m, y, t, n, d) ==
    (IF LeadsTo(x, t, n) THEN 1 ELSE 0) + (IF m[1] = t /\ m[2] <= n THEN 1 ELSE 0)
      <= (IF LeadsTo(y, t, n) THEN 1 ELSE 0) + d

\* A worker goes on, and a message is put on the queue.
LEMMA WorkerPuts ==
    ASSUME TasksInv, NEW w \in Workers, NEW x \in Runs \cup {NoMessage}, NEW m \in Messages, m[1] \in sent,
           worker' \in [Workers -> Runs \cup {NoMessage}], worker'[w] = x,
           \A u \in Workers : u # w => worker'[u] = worker[u],
           queue' = Plus(queue, m), UNCHANGED <<sent, outcome>>, deaths' \in Nat,
           x # NoMessage => x.message[1] \in sent,
           \A t \in Tasks, n \in Nat : Covered(x, m, worker[w], t, n, IF t \in sent THEN deaths' - deaths ELSE 0)
    PROVE  TasksInv'
<1>1. queue \in [Messages -> Nat] /\ worker \in [Workers -> Runs \cup {NoMessage}] BY DEF TasksInv
<1>2. ASSUME NEW t \in Tasks, NEW n \in Nat PROVE BoundHolds(t, n)'
  <2> DEFINE i == IF LeadsTo(x, t, n) THEN 1 ELSE 0
             j == IF LeadsTo(worker[w], t, n) THEN 1 ELSE 0
             d == IF m[1] = t /\ m[2] <= n THEN 1 ELSE 0
  <2>1. IsFiniteSet(WaitsIn(queue, t, n)) BY DEF TasksInv, BoundHolds
  <2>2. IsFiniteSet(WaitsIn(queue', t, n)) /\ Cardinality(WaitsIn(queue', t, n)) = Cardinality(WaitsIn(queue, t, n)) + d
    BY <1>1, <2>1, PutOne
  <2>3. Cardinality(RunsIn(worker', t, n)) = Cardinality(RunsIn(worker, t, n)) - j + i
    BY <1>1, OneWorker
  <2>4. i \in Int /\ j \in Int /\ d \in Int OBVIOUS
  <2>5. i + d <= j + (IF t \in sent THEN deaths' - deaths ELSE 0) BY DEF Covered
  <2> HIDE DEF i, j, d
  <2> QED BY <2>2, <2>3, <2>4, <2>5, StaysBounded
<1>3. queue' \in [Messages -> Nat] /\ \A k \in Messages : k # m => queue'[k] = queue[k] BY <1>1 DEF Plus
<1>4. \A k \in Messages : queue'[k] > 0 => k[1] \in sent' BY <1>3 DEF TasksInv
<1>5. \A u \in Workers : worker'[u] # NoMessage => worker'[u].message[1] \in sent' BY DEF TasksInv
<1> QED BY <1>2, <1>3, <1>4, <1>5 DEF TasksInv

\* What a worker at work is at.
LEMMA AtWork ==
    ASSUME TasksInv, NEW w \in Workers, worker[w] # NoMessage
    PROVE  /\ worker[w] \in Runs /\ worker[w].message \in Messages
           /\ worker[w].message[1] \in sent /\ worker[w].message[1] \in Tasks /\ worker[w].message[2] \in Nat
           /\ worker[w] = [step |-> worker[w].step, message |-> worker[w].message]
<1>1. worker[w] \in Runs /\ worker[w].message[1] \in sent BY DEF TasksInv
<1>2. worker[w].message \in Messages BY <1>1 DEF Runs
<1> QED BY <1>1, <1>2, MessagesArePairs DEF Runs

LEMMA GoesThrough ==
    ASSUME TasksInv, NEW w \in Workers, Stands(w, "run"), worker' = [worker EXCEPT ![w].step = "ack"]
    PROVE  \E x \in Runs : /\ x = [step |-> "ack", message |-> worker[w].message]
                           /\ worker' \in [Workers -> Runs \cup {NoMessage}] /\ worker'[w] = x
                           /\ \A u \in Workers : u # w => worker'[u] = worker[u]
                           /\ x.message[1] \in sent
<1>1. worker \in [Workers -> Runs \cup {NoMessage}] BY DEF TasksInv
<1>2. worker[w] \in Runs /\ worker[w].message \in Messages /\ worker[w].message[1] \in sent BY AtWork DEF Stands
<1>3. PICK x : x = [step |-> "ack", message |-> worker[w].message] OBVIOUS
<1>4. x \in Runs /\ x = [worker[w] EXCEPT !.step = "ack"] /\ x.message = worker[w].message BY <1>2, <1>3 DEF Runs
<1>5. worker' = [worker EXCEPT ![w] = x] BY <1>4
<1> QED BY <1>1, <1>2, <1>3, <1>4, <1>5

LEMMA ThroughInv ==
    ASSUME TasksInv, NEW w \in Workers, Succeeds(w) \/ FailsForGood(w)
    PROVE  TasksInv'
<1>1. Stands(w, "run") /\ worker' = [worker EXCEPT ![w].step = "ack"] /\ UNCHANGED <<queue, sent, deaths>>
  BY DEF Succeeds, FailsForGood
<1>2. PICK x \in Runs : /\ x = [step |-> "ack", message |-> worker[w].message]
                        /\ worker' \in [Workers -> Runs \cup {NoMessage}] /\ worker'[w] = x
                        /\ \A u \in Workers : u # w => worker'[u] = worker[u]
                        /\ x.message[1] \in sent
  BY <1>1, GoesThrough
<1>3. \A t, n : LeadsTo(x, t, n) => LeadsTo(worker[w], t, n)
  BY <1>1, <1>2 DEF LeadsTo, Stands
<1>4. outcome' \in [Tasks -> {"success", "failure", NoMessage}]
  BY DEF TasksInv, Succeeds, FailsForGood
<1> QED BY <1>1, <1>2, <1>3, <1>4, WorkerGoesOn

LEMMA RetryInv ==
    ASSUME TasksInv, NEW w \in Workers, FailsAndRetries(w)
    PROVE  TasksInv'
<1> DEFINE m == worker[w].message
           k == NextAttempt(m)
<1>1. Stands(w, "run") /\ worker' = [worker EXCEPT ![w].step = "ack"] /\ UNCHANGED <<sent, deaths, outcome>>
  BY DEF FailsAndRetries
<1>2. queue' = Plus(queue, k) /\ MayRetry(m) BY DEF FailsAndRetries
<1>3. PICK x \in Runs : /\ x = [step |-> "ack", message |-> worker[w].message]
                        /\ worker' \in [Workers -> Runs \cup {NoMessage}] /\ worker'[w] = x
                        /\ \A u \in Workers : u # w => worker'[u] = worker[u]
                        /\ x.message[1] \in sent
  BY <1>1, GoesThrough
<1>4. m[1] \in sent /\ m[1] \in Tasks /\ m[2] \in Nat BY <1>1, AtWork DEF Stands
<1>5. k[1] = m[1] /\ k[2] = m[2] + 1 BY DEF NextAttempt
<1>6. k \in Messages
  <2>1. m[2] + 1 \in Retries(m[1]) BY <1>2, <1>4, TasksAssumption DEF MayRetry, Retries
  <2> QED BY <1>4, <2>1, MessagesArePairs DEF NextAttempt
<1>7. ASSUME NEW t \in Tasks, NEW n \in Nat
      PROVE  Covered(x, k, worker[w], t, n, IF t \in sent THEN deaths' - deaths ELSE 0)
  <2>1. LeadsTo(x, t, n) => m[1] = t /\ m[2] = n BY <1>3 DEF LeadsTo
  <2>2. LeadsTo(worker[w], t, n) <=> m[1] = t /\ m[2] <= n BY <1>1, <1>4 DEF LeadsTo, Stands
  <2>3. deaths' - deaths = 0 BY <1>1 DEF TasksInv
  <2> HIDE DEF m, k
  <2> QED BY <1>4, <1>5, <2>1, <2>2, <2>3 DEF Covered
<1>8. deaths' \in Nat BY <1>1 DEF TasksInv
<1> HIDE DEF m, k
<1> QED BY <1>1, <1>2, <1>3, <1>4, <1>5, <1>6, <1>7, <1>8, WorkerPuts

LEMMA AcknowledgesInv ==
    ASSUME TasksInv, NEW w \in Workers, Acknowledges(w)
    PROVE  TasksInv'
<1>1. worker' \in [Workers -> Runs \cup {NoMessage}] /\ worker'[w] = NoMessage
      /\ \A u \in Workers : u # w => worker'[u] = worker[u]
  BY DEF TasksInv, Acknowledges
<1>2. \A t, n : ~LeadsTo(NoMessage, t, n) BY DEF LeadsTo
<1>3. outcome' \in [Tasks -> {"success", "failure", NoMessage}] /\ UNCHANGED <<queue, sent, deaths>>
  BY DEF TasksInv, Acknowledges
<1>4. NoMessage \in Runs \cup {NoMessage} OBVIOUS
<1> QED BY <1>1, <1>2, <1>3, <1>4, WorkerGoesOn

LEMMA WorkerDiesInv ==
    ASSUME TasksInv, NEW w \in Workers, WorkerDies(w)
    PROVE  TasksInv'
<1> DEFINE m == worker[w].message
<1>1. worker' \in [Workers -> Runs \cup {NoMessage}] /\ worker'[w] = NoMessage
      /\ \A u \in Workers : u # w => worker'[u] = worker[u]
  BY DEF TasksInv, WorkerDies
<1>2. m \in Messages /\ m[1] \in sent BY AtWork DEF WorkerDies
<1>3. deaths \in Nat /\ deaths' = deaths + 1 /\ UNCHANGED <<sent, outcome>> /\ queue' = Plus(queue, m)
  BY DEF TasksInv, WorkerDies
<1>4. NoMessage \in Runs \cup {NoMessage} OBVIOUS
<1>5. ASSUME NEW t \in Tasks, NEW n \in Nat
      PROVE  Covered(NoMessage, m, worker[w], t, n, IF t \in sent THEN deaths' - deaths ELSE 0)
  <2>1. ~LeadsTo(NoMessage, t, n) BY DEF LeadsTo
  <2>2. deaths' - deaths = 1 BY <1>3
  <2> HIDE DEF m
  <2> QED BY <1>2, <2>1, <2>2 DEF Covered
<1>6. deaths' \in Nat BY <1>3
<1> HIDE DEF m
<1> QED BY <1>1, <1>2, <1>3, <1>4, <1>5, <1>6, WorkerPuts

LEMMA TasksNextInv == TasksInv /\ [TasksNext]_tasksVars => TasksInv'
<1> SUFFICES ASSUME TasksInv, [TasksNext]_tasksVars PROVE TasksInv' OBVIOUS
<1>1. CASE UNCHANGED tasksVars
  BY <1>1 DEF tasksVars, TasksInv, BoundHolds
<1> QED BY <1>1, CallInv, TakeInv, ThroughInv, RetryInv, AcknowledgesInv, WorkerDiesInv DEF TasksNext

LEMMA TasksAreTyped == TasksInv => TasksTypeOK
<1> SUFFICES ASSUME TasksInv PROVE TasksTypeOK OBVIOUS
<1>1. ASSUME NEW m \in Messages
      PROVE  queue[m] + Cardinality({w \in Workers : worker[w] # NoMessage /\ worker[w].message = m}) \in 0..(deaths + 1)
  <2> DEFINE waiting == {m[2]} \X (1..queue[m])
             running == {w \in Workers : worker[w] # NoMessage /\ worker[w].message = m}
             t == m[1]
             n == m[2]
  <2>1. m = <<t, n>> /\ t \in Tasks /\ n \in Nat /\ queue[m] \in Nat /\ deaths \in Nat
    BY MessagesArePairs DEF TasksInv
  <2>2. IsFiniteSet(WaitsIn(queue, t, n)) /\
        Cardinality(WaitsIn(queue, t, n)) + Cardinality(RunsIn(worker, t, n)) <= IF t \in sent THEN deaths + 1 ELSE 0
    BY <2>1 DEF TasksInv, BoundHolds
  <2>3. waiting \subseteq WaitsIn(queue, t, n)
    <3>1. <<t, n>> \in Messages /\ queue[<<t, n>>] = queue[m] BY <2>1
    <3> QED BY <2>1, <3>1 DEF WaitsIn
  <2>4. running \subseteq RunsIn(worker, t, n) BY <2>1 DEF RunsIn, LeadsTo
  <2>5. IsFiniteSet(RunsIn(worker, t, n)) BY TasksAssumption, FS_Subset DEF RunsIn
  <2>6. Cardinality(waiting) = queue[m]
    <3>1. IsFiniteSet({m[2]}) /\ Cardinality({m[2]}) = 1 BY FS_Singleton
    <3>2. IsFiniteSet(1..queue[m]) /\ Cardinality(1..queue[m]) = queue[m]
      <4>1. 1 \in Int /\ queue[m] \in Int BY <2>1
      <4>2. /\ IsFiniteSet(1..queue[m])
            /\ Cardinality(1..queue[m]) = IF 1 > queue[m] THEN 0 ELSE queue[m] - 1 + 1
        BY <4>1, FS_Interval
      <4> QED BY <2>1, <4>2
    <3>3. Cardinality(waiting) = Cardinality({m[2]}) * Cardinality(1..queue[m]) BY <3>1, <3>2, FS_Product
    <3>4. Cardinality(waiting) = 1 * queue[m] BY <3>1, <3>2, <3>3
    <3> HIDE DEF waiting
    <3> QED BY <2>1, <3>4
  <2>7. Cardinality(waiting) <= Cardinality(WaitsIn(queue, t, n)) BY <2>2, <2>3, FS_Subset
  <2>8. IsFiniteSet(running) /\ Cardinality(running) <= Cardinality(RunsIn(worker, t, n)) BY <2>4, <2>5, FS_Subset
  <2>9. /\ Cardinality(running) \in Nat /\ Cardinality(WaitsIn(queue, t, n)) \in Nat
        /\ Cardinality(RunsIn(worker, t, n)) \in Nat
    BY <2>2, <2>5, <2>8, FS_CardinalityType
  <2> HIDE DEF waiting, running, t, n
  <2>10. Cardinality(WaitsIn(queue, t, n)) + Cardinality(RunsIn(worker, t, n)) <= deaths + 1
    <3>1. CASE t \in sent BY <2>2, <3>1
    <3>2. CASE t \notin sent BY <2>1, <2>2, <2>9, <3>2
    <3> QED BY <3>1, <3>2
  <2>11. queue[m] + Cardinality(running) \in 0..(deaths + 1) BY <2>1, <2>6, <2>7, <2>8, <2>9, <2>10
  <2> QED BY <2>11 DEF running
<1>2. \A w \in Workers : worker[w] # NoMessage => worker[w].message \in Messages /\ worker[w].step \in {"run", "ack"}
  BY DEF TasksInv, Runs
<1> QED BY <1>1, <1>2 DEF TasksTypeOK, TasksInv

\* However many calls, workers and attempts there are: a message waits or is run once, and once
\* more for every worker that was lost.
THEOREM DeliveredOncePerDeath == TasksSpec => []TasksTypeOK
<1> QED BY TasksInitInv, TasksNextInv, TasksAreTyped, PTL DEF TasksSpec
------------------------------------------------------------------------------
(***************************************************************************)
(* Watchdog, and the parts together.                                       *)
(***************************************************************************)
LEMMA WatchdogInitTyped == WatchdogInit => WatchdogTypeOK
<1> USE WatchdogAssumption DEF WatchdogInit, WatchdogTypeOK, Ages
<1> QED BY DEF Overdue

\* Ages grow within their bounds.
LEMMA AgesGrow ==
    /\ TopAge \in Nat /\ HeartbeatTTL <= TopAge
    /\ \A age \in Ages : Older(age, TopAge) \in Ages
    /\ \A age \in (0..Threshold) \cup {NoAge} : /\ Older(age, Threshold) \in (0..Threshold) \cup {NoAge}
                                                /\ age = Threshold => Older(age, Threshold) = Threshold
<1>1. TopAge \in Nat /\ HeartbeatTTL <= TopAge BY WatchdogAssumption DEF TopAge
<1>2. Threshold \in Nat /\ NoAge \notin Nat BY WatchdogAssumption
<1>3. \A age \in Ages : Older(age, TopAge) \in Ages BY <1>1, <1>2 DEF Ages, Older
<1> QED BY <1>1, <1>2, <1>3 DEF Older

LEMMA WatchdogStep == WatchdogTypeOK /\ [WatchdogNext]_watchdogVars => WatchdogTypeOK'
<1> SUFFICES ASSUME WatchdogTypeOK, [WatchdogNext]_watchdogVars PROVE WatchdogTypeOK' OBVIOUS
<1>0. Threshold \in Nat \ {0} /\ HeartbeatTTL \in Nat \ {0} /\ NoAge \notin Nat BY WatchdogAssumption
<1>00. 0 \in Ages /\ NoAge \in Ages /\ NoAge # 0 BY <1>0, AgesGrow DEF Ages
<1> USE DEF WatchdogTypeOK, beatVars, Overdue
<1>1. ASSUME NEW i \in Items, EntersLimbo(i) PROVE WatchdogTypeOK'
  BY <1>0, <1>1 DEF EntersLimbo
<1>2. ASSUME NEW i \in Items, LeavesLimbo(i) PROVE WatchdogTypeOK'
  BY <1>0, <1>2 DEF LeavesLimbo
<1>3. CASE Tick
  <2>1. pending' \in [Items -> (0..Threshold) \cup {NoAge}] /\ reported' \subseteq {i \in Items : pending'[i] = Threshold}
    BY <1>3, AgesGrow DEF Tick
  <2>2. ownAge' \in Ages /\ quiet' \in Ages /\ prior' \in Ages /\ gap' \in Ages
    BY <1>3, AgesGrow DEF Tick
  <2>3. keyAge' \in Ages /\ (keyAge' # NoAge => keyAge' < HeartbeatTTL)
    BY <1>0, <1>3, AgesGrow DEF Tick, Ages
  <2>4. cycle' \in {"down", "wait", "measure", "probe", "beat", "alert"} BY <1>3 DEF Tick
  <2> QED BY <2>1, <2>2, <2>3, <2>4
<1>4. CASE Start BY <1>00, <1>4 DEF Start
<1>5. CASE Stop BY <1>5 DEF Stop
<1>6. CASE CycleFails BY <1>00, <1>6 DEF CycleFails, AfterFailure
<1>7. CASE Measure BY <1>7 DEF Measure
<1>8. CASE Probe BY <1>8 DEF Probe
<1>9. CASE Beat BY <1>0, <1>00, <1>9 DEF Beat
<1>10. CASE BeatIsLost BY <1>10 DEF BeatIsLost
<1>11. CASE DeadMan BY <1>11 DEF DeadMan
<1>12. CASE UNCHANGED watchdogVars BY <1>12 DEF watchdogVars
<1> QED BY <1>1, <1>2, <1>3, <1>4, <1>5, <1>6, <1>7, <1>8, <1>9, <1>10, <1>11, <1>12 DEF WatchdogNext, RunCycle

\* Every part keeps its types whatever the others do: in particular a message is on the queue or
\* with a worker once and once more for every lost worker, an item is reported only while it is
\* overdue, and trust is about classes that exist.
THEOREM ProgressTypesHold == ProgressSpec => []ProgressTypeOK
<1> DEFINE Inv == IInv /\ WatchdogTypeOK /\ TasksInv
<1>1. ProgressInit => Inv BY InitInv, WatchdogInitTyped, TasksInitInv DEF ProgressInit
<1>2. Inv /\ [ProgressNext]_progressVars => Inv'
  <2>1. [ProgressNext]_progressVars =>
          [PolicyNext]_policyVars /\ [WatchdogNext]_watchdogVars /\ [TasksNext]_tasksVars
    BY DEF ProgressNext, progressVars, Part
  <2> QED BY <2>1, NextInv, WatchdogStep, TasksNextInv
<1>3. Inv => ProgressTypeOK BY TasksAreTyped DEF IInv, ProgressTypeOK
<1> QED BY <1>1, <1>2, <1>3, PTL DEF ProgressSpec
==============================================================================
