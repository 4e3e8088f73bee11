---- MODULE MCRegistry ----
(***************************************************************************)
(* Instances of the three parts of the server registry for TLC.  They have *)
(* no variable in common, so what they do together is what each does       *)
(* alone: a behaviour chooses one of them (focus) and leaves the other two *)
(* in their initial states, and the state spaces add up, not multiply.     *)
(***************************************************************************)
EXTENDS Decommission, ServerHealth, ServerListing

One == {"one"}
Two == {"one", "two"}
SameOffer == [e \in Endpoints |-> Tools]
ThreeStatuses == {"healthy", "degraded", "unknown"}
FourRows == 1..4

VARIABLE focus
registryVars == <<decommissionVars, healthVars, listingVars, focus>>

RegistryInit ==
    /\ focus \in {"decommission", "health", "listing"}
    /\ DecommissionInit /\ HealthInit /\ ListingInit

Part(name, next, others) == focus = name /\ next /\ UNCHANGED <<others, focus>>
RegistryNext ==
    \/ Part("decommission", DecommissionNext, <<healthVars, listingVars>>)
    \/ Part("health", HealthNext, <<decommissionVars, listingVars>>)
    \/ Part("listing", ListingNext, <<decommissionVars, healthVars>>)

\* The fairness of each part, for the behaviours that chose it.
RegistrySpec ==
    /\ RegistryInit /\ [][RegistryNext]_registryVars
    /\ \A r \in RegistryRequests :
          /\ SF_decommissionVars(focus = "decommission" /\ DecommissionCommit(r))
          /\ WF_decommissionVars(focus = "decommission" /\ DeadlockVictim(r))
    /\ WF_healthVars(focus = "health" /\ KeyAges)

\* The types of the three parts.
RegistryTypeOK == DecommissionTypeOK /\ HealthTypeOK /\ ListingTypeOK
====
