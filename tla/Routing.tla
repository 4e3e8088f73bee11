------------------------------- MODULE Routing -------------------------------
(***************************************************************************)
(* A capability request (RoutingService.execute): the name is resolved,    *)
(* the active mappings are read at once and the tool of each is compared   *)
(* in a query of its own, heaviest first; then the policy engine is asked  *)
(* what a read-scoped class may call and which resources are in reach, and *)
(* the tool is called.  Mappings and tools change between any two of these *)
(* steps (CapabilityService, RegistryService: module MappingLifecycle).    *)
(***************************************************************************)
EXTENDS Integers, Sequences, FiniteSets

CONSTANTS
    Capability, CapName, Aliases,       \* one capability, its name, and other names
    RouteMappings,                      \* its mappings
    RouteTools, ToolOf, Mutating,       \* their tools, and those classified as mutating
    Weights, Digests,
    Dimensions, Values,                 \* resource dimensions and the values they take
    Policies,                           \* what OPA may run: "repository" or "total"
    Calls, Absent

ASSUME RoutingAssumption ==
    /\ Weights \subseteq Int /\ ToolOf \in [RouteMappings -> RouteTools] /\ Mutating \subseteq RouteTools
    /\ Policies \subseteq {"repository", "total"} /\ Absent \notin Digests /\ Absent \notin {Capability, "active", "deprecated"}
    /\ CapName \notin Aliases /\ IsFiniteSet(RouteMappings)

VARIABLES
    capability,     \* the status of the capability, or Absent
    alias,          \* the aliases it has
    mapping,        \* status, digest and weight of each mapping
    tool,           \* the digest of each tool as it is now, or Absent
    policy,         \* what OPA runs
    call            \* the requests

routingVars == <<capability, alias, mapping, tool, policy, call>>

CapabilityStatuses == {"active", "deprecated"}
Mapping == [status: {"active", "stale"}, digest: Digests, weight: Weights]
Waiting == [at |-> "waiting"]
Refused == [at |-> "refused"]

RoutingInit ==
    /\ capability = Absent /\ alias = {}
    /\ mapping \in [RouteMappings -> [status: {"stale"}, digest: Digests, weight: Weights]]
    /\ tool = [t \in RouteTools |-> Absent]
    /\ policy \in Policies
    /\ call = [r \in Calls |-> Waiting]
------------------------------------------------------------------------------
Routable(mappings, tools) ==
    {m \in RouteMappings : mappings[m].status = "active" /\ tools[ToolOf[m]] = mappings[m].digest}
Calling(r, c) == call' = [call EXCEPT ![r] = c]
\* What the callers do not change.
Elsewhere == UNCHANGED <<capability, alias, mapping, tool, policy>>

(***************************************************************************)
(* What goes on around the requests.                                       *)
(***************************************************************************)
CreateCapability ==
    capability = Absent /\ capability' = "active" /\ UNCHANGED <<alias, mapping, tool, policy, call>>
Deprecate ==
    capability # Absent /\ capability' = "deprecated" /\ UNCHANGED <<alias, mapping, tool, policy, call>>
\* add_alias: the alias is unique among aliases.
AliasFree(n) == n \notin alias
AddAlias(n) ==
    /\ capability # Absent /\ AliasFree(n)
    /\ alias' = alias \cup {n}
    /\ UNCHANGED <<capability, mapping, tool, policy, call>>

\* History of a walk over the candidates: those that have been routable all the time.
StillRoutable(mappings, tools) == [r \in Calls |->
    IF call[r].at = "walk" THEN [call[r] EXCEPT !.kept = @ \cap Routable(mappings, tools)] ELSE call[r]]
\* A review, an inspection or a retirement.
MappingChanges(m, s, d) ==
    /\ capability # Absent
    /\ mapping' = [mapping EXCEPT ![m].status = s, ![m].digest = d]
    /\ call' = StillRoutable(mapping', tool)
    /\ UNCHANGED <<capability, alias, tool, policy>>
ToolChanges(t, d) ==
    /\ tool' = [tool EXCEPT ![t] = d]
    /\ call' = StillRoutable(mapping, tool')
    /\ UNCHANGED <<capability, alias, mapping, policy>>
------------------------------------------------------------------------------
(***************************************************************************)
(* The policy, as policy.rego states it.  Its result is one object: it is  *)
(* undefined when one of its members is, and OPA then answers without one. *)
(* A bundle that was deployed instead may define it for every input.       *)
(***************************************************************************)
\* What evaluate sends, of what a rule reads.
PolicyInput(m, readOnly, reach, requested) ==
    [mapping_status |-> m.status, tool_class |-> m.class, agent_read_only |-> readOnly,
     identity_resources |-> reach, declared_dimensions |-> DOMAIN reach, request_resources |-> requested]

ReadOnlyDenied(in) == in.agent_read_only /\ in.tool_class = "mutating"
DenyStaleMapping(in) == in.mapping_status # "active"
ResourceAllowed(in) ==
    \A d \in in.declared_dimensions :
       d \in DOMAIN in.request_resources /\ in.request_resources[d] \in in.identity_resources[d]
ResultDefined(in) ==
    /\ "server_trust_level" \in DOMAIN in                          \* trust_level
    /\ in.server_trust_level = "approval-gated"                    \* approval_required
    /\ ResourceAllowed(in)                                         \* resource_allowed

Answer(in) ==
    IF policy = "total" \/ ResultDefined(in)
    THEN [read_only_denied |-> ReadOnlyDenied(in), deny_stale_mapping |-> DenyStaleMapping(in),
          resource_allowed |-> ResourceAllowed(in)]
    ELSE <<>>
\* PolicyDecision: what the answer lacks does not deny.
Decide(in) ==
    LET a == Answer(in) IN
    IF a = <<>> THEN [read_only_denied |-> FALSE, deny_stale_mapping |-> FALSE, resource_allowed |-> TRUE] ELSE a

\* _build_denial
Denies(d) == d.read_only_denied \/ d.deny_stale_mapping \/ ~d.resource_allowed

\* merge_bindings: the values both bind where both bind the dimension, else those of the one that does.
Merge(own, ofPacks) ==
    [d \in (DOMAIN own) \cup (DOMAIN ofPacks) |->
       IF d \in (DOMAIN own) \cap (DOMAIN ofPacks) THEN own[d] \cap ofPacks[d]
       ELSE IF d \in DOMAIN own THEN own[d] ELSE ofPacks[d]]
\* Rows of bindings, by dimension.
Bindings == UNION {[D -> SUBSET Values \ {{}}] : D \in SUBSET Dimensions}
Requested == UNION {[D -> Values] : D \in SUBSET Dimensions}
------------------------------------------------------------------------------
\* resolve_capability: by name, then, in another query, by alias.
ResolveName(r, n) ==
    /\ call[r] = Waiting
    /\ Calling(r, IF n = CapName /\ capability # Absent THEN [at |-> "resolved"] ELSE [at |-> "alias", name |-> n])
    /\ Elsewhere
ResolveAlias(r) ==
    /\ call[r].at = "alias"
    /\ Calling(r, IF call[r].name \in alias THEN [at |-> "resolved"] ELSE Refused)    \* CapabilityNotFoundError
    /\ Elsewhere

Heaviest(s) == \A i, j \in DOMAIN s : i < j => mapping[s[i]].weight >= mapping[s[j]].weight
Lightest(s) == \A i, j \in DOMAIN s : i < j => mapping[s[i]].weight <= mapping[s[j]].weight  \* mutant: ascending
Ordered(s) == Heaviest(s)
\* select_server: the active mappings as rows, by weight; equal weights in any order.
Candidates(r) ==
    /\ call[r].at = "resolved"
    /\ LET active == {m \in RouteMappings : mapping[m].status = "active"} IN
       \E s \in [1..Cardinality(active) -> active] :
          /\ \A m \in active : \E i \in DOMAIN s : s[i] = m
          /\ Ordered(s)
          /\ Calling(r, [at |-> "walk", left |-> s, rows |-> [m \in active |-> mapping[m]],
                         kept |-> Routable(mapping, tool)])
    /\ Elsewhere
\* The tool of the first one that is left; a row keeps the digest it was read with.
CheckTool(r) ==
    /\ call[r].at = "walk" /\ call[r].left # <<>>
    /\ LET c == call[r]
           m == Head(c.left)
           class == IF ToolOf[m] \in Mutating THEN "mutating" ELSE "read_only" IN
       Calling(r, IF tool[ToolOf[m]] = c.rows[m].digest
                  THEN [at |-> "selected", mapping |-> m, status |-> c.rows[m].status, class |-> class,
                        best |-> \A k \in c.kept : c.rows[k].weight <= c.rows[m].weight]
                  ELSE [c EXCEPT !.left = Tail(@)])
    /\ Elsewhere
NoServerFound(r) ==
    /\ call[r].at = "walk" /\ call[r].left = <<>>
    /\ Calling(r, [at |-> "no server", best |-> call[r].kept = {}])
    /\ Elsewhere

\* The policy is asked only for an identity; its answer is waited for, and may not come.
Anonymous(r) ==
    /\ call[r].at = "selected"
    /\ Calling(r, [at |-> "called", readOnly |-> FALSE, class |-> call[r].class])
    /\ Elsewhere
Evaluate(r, readOnly) ==
    /\ call[r].at = "selected"
    /\ Calling(r, IF Denies(Decide(PolicyInput(call[r], readOnly, <<>>, <<>>)))
                  THEN Refused
                  ELSE [at |-> "allowed", readOnly |-> readOnly, class |-> call[r].class, status |-> call[r].status])
    /\ Elsewhere
\* The resources the request names and the bindings of the identity (and of the packs, when
\* the caller names some): asked again when there are both.
Resources(r, requested, own, ofPacks) ==
    /\ call[r].at = "allowed"
    /\ LET reach == Merge(own, ofPacks)
           in == PolicyInput(call[r], call[r].readOnly, reach, requested) IN
       Calling(r, IF DOMAIN requested # {} /\ DOMAIN reach # {} /\ ~Decide(in).resource_allowed
                  THEN Refused
                  ELSE [at |-> "called", readOnly |-> call[r].readOnly, class |-> call[r].class])
    /\ Elsewhere
\* No answer from the policy engine, a declared dimension without a value, or the answer was sent.
CallEnds(r) ==
    /\ call[r].at \in {"selected", "allowed", "called", "refused", "no server"}
    /\ Calling(r, Waiting)
    /\ Elsewhere

\* POST /route: execute, from the name to the answer.
Request(r) ==
    \/ \E n \in Aliases \cup {CapName} : ResolveName(r, n)
    \/ ResolveAlias(r) \/ Candidates(r) \/ CheckTool(r) \/ NoServerFound(r)
    \/ Anonymous(r)
    \/ \E readOnly \in BOOLEAN : Evaluate(r, readOnly)
    \/ \E requested \in Requested, own, ofPacks \in Bindings : Resources(r, requested, own, ofPacks)
    \/ CallEnds(r)

RoutingNext ==
    \/ CreateCapability \/ Deprecate
    \/ \E n \in Aliases : AddAlias(n)
    \/ \E m \in RouteMappings, s \in {"active", "stale"}, d \in Digests : MappingChanges(m, s, d)
    \/ \E t \in RouteTools, d \in Digests \cup {Absent} : ToolChanges(t, d)
    \/ \E r \in Calls : Request(r)
RoutingSpec == RoutingInit /\ [][RoutingNext]_routingVars
------------------------------------------------------------------------------
\* The type of the tables and of what is selected.
RoutingTypeOK ==
    /\ capability \in CapabilityStatuses \cup {Absent}
    /\ alias \subseteq Aliases /\ (alias # {} => capability # Absent)
    /\ mapping \in [RouteMappings -> Mapping]
    /\ tool \in [RouteTools -> Digests \cup {Absent}]

\* However mappings and tools change during the walk, a mapping is selected only if none
\* heavier was routable all the time, and "no server" is said only if none was at all.
CallsBestRoutable == \A r \in Calls : call[r].at \in {"selected", "no server"} => call[r].best

\* The comment in execute: "A read-only-scoped agent class may only invoke read-only tools;
\* mutating tools are denied regardless of server trust level" (routing_service.py:400-402).
ReadOnlyNeverMutates ==
    \A r \in Calls : call[r].at = "called" /\ call[r].readOnly => call[r].class # "mutating"
==============================================================================
