---- MODULE MCServices ----
(***************************************************************************)
(* Instances of the services around the mapping lifecycle for TLC.  They   *)
(* have no variable in common, so what they do together is what each does  *)
(* alone: a behaviour chooses one of them (focus) and leaves the others in *)
(* their initial states, and the state spaces add up, not multiply.        *)
(***************************************************************************)
EXTENDS CapabilityPacks, AgentIdentities, Routing, AuditTrail, ResourceBindings, RequestPipeline

One == {"one"}
Two == {"one", "two"}
Three == {"one", "two", "three"}
Numbers == {1, 2}
TwoPacks == {"pack", "copy"}
OneClass == {"class"}
OneCap == {"capability"}
OwnTool == [m \in RouteMappings |-> m]
BothPolicies == {"repository", "total"}
TheRepositorysPolicy == {"repository"}
HourAndDay == [m \in Metrics |-> IF m = "one" THEN 1 ELSE 2]
OneOwner == {"owner"}
OneDimension == {"dimension"}
NoPath == {}
OnePath == {"path"}
OneClient == {"client"}
OneAgent == {"agent"}
TwoAgents == {"agent", "other"}
OneNamespace == [a \in Agents |-> "namespace"]
TwentyAndHundred == [m \in {"IPRateLimit", "RateLimit"} |-> IF m = "RateLimit" THEN 2 ELSE 1]

CONSTANT Parts      \* the parts that a behaviour can choose
AllParts == {"packs", "identities", "routing", "audit", "bindings", "pipeline"}
JustRouting == {"routing"}
JustPipeline == {"pipeline"}

VARIABLE focus
servicesVars == <<packsVars, identityVars, routingVars, auditVars, bindingsVars, pipelineVars, focus>>

\* A part that is not chosen begins in one of its initial states, no matter which.
Starts(part, init, some) == init /\ (focus # part => some)
ServicesInit ==
    /\ focus \in Parts
    /\ Starts("packs", PacksInit, Rows({"there"}) = {})
    /\ Starts("routing", RoutingInit,
              policy = (CHOOSE x \in Policies : TRUE) /\ \A m \in RouteMappings : mapping[m].weight = 1 /\ mapping[m].digest = 1)
    /\ Starts("bindings", BindingsInit, owners = {})
    /\ IdentityInit /\ AuditInit /\ PipelineInit

Part(name, next, others) == focus = name /\ next /\ UNCHANGED <<others, focus>>
ServicesNext ==
    \/ Part("packs", PacksNext, <<identityVars, routingVars, auditVars, bindingsVars, pipelineVars>>)
    \/ Part("identities", IdentityNext, <<packsVars, routingVars, auditVars, bindingsVars, pipelineVars>>)
    \/ Part("routing", RoutingNext, <<packsVars, identityVars, auditVars, bindingsVars, pipelineVars>>)
    \/ Part("audit", AuditNext, <<packsVars, identityVars, routingVars, bindingsVars, pipelineVars>>)
    \/ Part("bindings", BindingsNext, <<packsVars, identityVars, routingVars, auditVars, pipelineVars>>)
    \/ Part("pipeline", PipelineNext, <<packsVars, identityVars, routingVars, auditVars, bindingsVars>>)

ServicesSpec == ServicesInit /\ [][ServicesNext]_servicesVars

\* The types of all the parts.
ServicesTypeOK ==
    /\ PacksTypeOK /\ IdentityTypeOK /\ RoutingTypeOK
    /\ AuditTypeOK /\ BindingsTypeOK /\ PipelineTypeOK
====
