---------------------------- MODULE PolicyEngine ----------------------------
(***************************************************************************)
(* The policy service (PolicyService): the bundle that OPA runs and the    *)
(* one the database records last, the decisions kept in Redis, the trust   *)
(* assignments and the agent classes they hang on.                         *)
(*                                                                         *)
(* A decision is known by the bundle it was evaluated under: nothing else  *)
(* of what these requests change is sent to OPA.  The calls to OPA, to the *)
(* database and to Redis are steps of their own; requests overlap, and any *)
(* of the calls may fail.                                                  *)
(***************************************************************************)
EXTENDS FiniteSets

CONSTANTS
    Bundles,        \* texts of policies
    Keys,           \* cache keys: class, server, capability (and resources)
    AgentClasses,
    TrustedServers, \* servers that trust can be assigned for (they are not deleted here)
    Levels,         \* trust levels
    PolicyRequests,
    Nothing

ASSUME PolicyAssumption ==
    /\ Nothing \notin Bundles \cup Levels
    /\ Nothing \notin [op: {"sweep"}, left: SUBSET Keys] \cup [op: {"record"}, bundle: Bundles]

VARIABLES
    bundle,         \* what OPA runs
    recorded,       \* the newest row of opa_policy_versions
    decided,        \* the decision kept for each key, or Nothing
    trust,          \* the level of each pair of class and server, or Nothing
    classes,        \* the agent classes that exist
    serving         \* what each request is about to do, or Nothing

policyVars == <<bundle, recorded, decided, trust, classes, serving>>

Decision == [bundle: Bundles, excused: BOOLEAN]

PolicyInit ==
    /\ bundle \in Bundles /\ recorded = bundle
    /\ decided = [k \in Keys |-> Nothing]
    /\ trust = [x \in AgentClasses \X TrustedServers |-> Nothing]
    /\ classes = {}
    /\ serving = [r \in PolicyRequests |-> Nothing]
------------------------------------------------------------------------------
Serving(op) == {r \in PolicyRequests : serving[r] # Nothing /\ serving[r].op = op}
Serve(r, t) == serving' = [serving EXCEPT ![r] = t]

StaleKey(k) == decided[k] # Nothing /\ decided[k].bundle # bundle
\* History: the stale decisions that a sweep which failed or never came has left behind.
Excuse == decided' = [k \in Keys |-> IF StaleKey(k) THEN [decided[k] EXCEPT !.excused = TRUE] ELSE decided[k]]

\* _invalidate_policy_cache: SCAN returns every key that is there from its beginning to its
\* end, and perhaps others; what a call returns is deleted before the next call.
Scan == [op |-> "sweep", left |-> {k \in Keys : decided[k] # Nothing}]
SweepPage(r) ==
    /\ r \in Serving("sweep") /\ serving[r].left # {}
    /\ \E page \in SUBSET Keys :
          /\ page \cap serving[r].left # {}
          /\ decided' = [k \in Keys |-> IF k \in page THEN Nothing ELSE decided[k]]
          /\ Serve(r, [serving[r] EXCEPT !.left = @ \ page])
    /\ UNCHANGED <<bundle, recorded, trust, classes>>
SweepEnds(r) ==
    /\ r \in Serving("sweep") /\ serving[r].left = {}
    /\ Serve(r, Nothing)
    /\ UNCHANGED <<bundle, recorded, decided, trust, classes>>
\* An error of Redis ends the sweep and is swallowed.
SweepFails(r) ==
    /\ r \in Serving("sweep")
    /\ Serve(r, Nothing) /\ Excuse
    /\ UNCHANGED <<bundle, recorded, trust, classes>>

\* deploy_bundle: PUT to OPA, then the row of the version, then the sweep.
DeployPut(r, b) ==
    /\ serving[r] = Nothing
    /\ bundle' = b
    /\ Serve(r, [op |-> "record", bundle |-> b])
    /\ UNCHANGED <<recorded, decided, trust, classes>>
NoSweep == Nothing                          \* mutant: the cache is not invalidated
AfterDeployment == Scan
DeployRecord(r) ==
    /\ r \in Serving("record")
    /\ recorded' = serving[r].bundle
    /\ Serve(r, AfterDeployment)
    /\ UNCHANGED <<bundle, decided, trust, classes>>
\* The commit fails: OPA keeps the bundle, nobody records it and nobody sweeps.
DeployFails(r) ==
    /\ r \in Serving("record")
    /\ Serve(r, Nothing) /\ Excuse
    /\ UNCHANGED <<bundle, recorded, trust, classes>>

\* evaluate_cached: a hit answers at once; on a miss OPA is asked and the answer is kept.
EvaluateAsk(r, k) ==
    /\ serving[r] = Nothing
    /\ decided[k] = Nothing
    /\ Serve(r, [op |-> "store", key |-> k, bundle |-> bundle])
    /\ UNCHANGED <<bundle, recorded, decided, trust, classes>>
EvaluateStore(r) ==
    /\ r \in Serving("store")
    /\ LET t == serving[r] IN
       decided' = [decided EXCEPT ![t.key] = [bundle |-> t.bundle, excused |-> t.bundle # bundle]]
    /\ Serve(r, Nothing)
    /\ UNCHANGED <<bundle, recorded, trust, classes>>
\* OPA or Redis does not answer: the caller gets a fresh decision or an error, nothing is kept.
EvaluateFails(r) ==
    /\ r \in Serving("store")
    /\ Serve(r, Nothing)
    /\ UNCHANGED <<bundle, recorded, decided, trust, classes>>

\* SETEX: Redis drops the entry when its time is up.
KeptForever(k) == decided[k] # Nothing /\ decided[k].bundle = bundle    \* mutant: SET without a TTL
Expires(k) == decided[k] # Nothing
Expire(k) ==
    /\ Expires(k)
    /\ decided' = [decided EXCEPT ![k] = Nothing]
    /\ UNCHANGED <<bundle, recorded, trust, classes, serving>>
------------------------------------------------------------------------------
\* create_agent_class
CreateClass(c) ==
    /\ c \notin classes
    /\ classes' = classes \cup {c}
    /\ UNCHANGED <<bundle, recorded, decided, trust, serving>>

\* A request that found one of these rows will not find it again.
WithoutRows(pairs) == [q \in PolicyRequests |->
    IF q \in Serving("trust") /\ serving[q].found = "row" /\ serving[q].pair \in pairs
    THEN [serving[q] EXCEPT !.found = "lost"] ELSE serving[q]]

\* delete_agent_class: its trust assignments go with it, then the sweep.
DeleteClass(r, c) ==
    /\ serving[r] = Nothing /\ c \in classes
    /\ classes' = classes \ {c}
    /\ trust' = [x \in DOMAIN trust |-> IF x[1] = c THEN Nothing ELSE trust[x]]
    /\ serving' = [WithoutRows({c} \X TrustedServers) EXCEPT ![r] = Scan]
    /\ UNCHANGED <<bundle, recorded, decided>>

\* set_trust: update the row that was found, or insert one; the index over class and server
\* and the foreign keys are checked at the commit.
TrustLoad(r, x, l) ==
    /\ serving[r] = Nothing
    /\ Serve(r, [op |-> "trust", pair |-> x, level |-> l, found |-> IF trust[x] = Nothing THEN "none" ELSE "row"])
    /\ UNCHANGED <<bundle, recorded, decided, trust, classes>>
TrustCommitUnchecked(t) == TRUE              \* mutant: neither index nor foreign key
MayCommitTrust(t) ==
    \/ t.found = "row"
    \/ t.found = "none" /\ trust[t.pair] = Nothing /\ t.pair[1] \in classes
TrustCommit(r) ==
    /\ r \in Serving("trust") /\ MayCommitTrust(serving[r])
    /\ trust' = [trust EXCEPT ![serving[r].pair] = serving[r].level]
    /\ Serve(r, Scan)
    /\ UNCHANGED <<bundle, recorded, decided, classes>>
\* IntegrityError, or StaleDataError for a row that is gone: no sweep.
TrustFails(r) ==
    /\ r \in Serving("trust") /\ ~MayCommitTrust(serving[r])
    /\ Serve(r, Nothing)
    /\ UNCHANGED <<bundle, recorded, decided, trust, classes>>

\* remove_trust_assignment: one DELETE, and the sweep whether or not there was a row.
RemoveTrust(r, x) ==
    /\ serving[r] = Nothing
    /\ trust' = [trust EXCEPT ![x] = Nothing]
    /\ serving' = [WithoutRows({x}) EXCEPT ![r] = Scan]
    /\ UNCHANGED <<bundle, recorded, decided, classes>>

InvalidateCache(r) == SweepPage(r) \/ SweepEnds(r) \/ SweepFails(r)
DeployBundle(r) == (\E b \in Bundles : DeployPut(r, b)) \/ DeployRecord(r) \/ DeployFails(r)
EvaluateCached(r) == (\E k \in Keys : EvaluateAsk(r, k)) \/ EvaluateStore(r) \/ EvaluateFails(r)
SetTrust(r) ==
    \/ \E x \in AgentClasses \X TrustedServers, l \in Levels : TrustLoad(r, x, l)
    \/ TrustCommit(r) \/ TrustFails(r)

PolicyNext ==
    \/ \E r \in PolicyRequests :
          \/ InvalidateCache(r) \/ DeployBundle(r) \/ EvaluateCached(r) \/ SetTrust(r)
          \/ \E c \in AgentClasses : DeleteClass(r, c)
          \/ \E x \in AgentClasses \X TrustedServers : RemoveTrust(r, x)
    \/ \E k \in Keys : Expire(k)
    \/ \E c \in AgentClasses : CreateClass(c)

\* An entry of the cache expires some day.
PolicySpec == PolicyInit /\ [][PolicyNext]_policyVars /\ \A k \in Keys : WF_policyVars(Expire(k))
------------------------------------------------------------------------------
\* The type of what OPA, the tables and the cache hold; trust is about classes that exist.
PolicyTypeOK ==
    /\ {bundle, recorded} \subseteq Bundles
    /\ decided \in [Keys -> Decision \cup {Nothing}]
    /\ trust \in [AgentClasses \X TrustedServers -> Levels \cup {Nothing}]
    /\ classes \subseteq AgentClasses
    /\ \A x \in DOMAIN trust : trust[x] # Nothing => x[1] \in classes

\* Once a deployment has been recorded and swept, the only decisions left from another
\* bundle are those that an evaluation which overlapped the deployment stored afterwards,
\* and those a failed deployment or a failed sweep left behind.
StaleOnlyByOverlap ==
    \A k \in Keys : StaleKey(k) => decided[k].excused \/ Serving("record") \cup Serving("sweep") # {}

\* No decision of a bundle that is not running is answered from the cache for ever: "TTL
\* will eventually expire stale entries" (_invalidate_policy_cache).
StaleDecisionsDie == \A k \in Keys : StaleKey(k) ~> ~StaleKey(k)
==============================================================================
