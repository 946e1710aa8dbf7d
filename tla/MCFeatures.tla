----------------------------- MODULE MCFeatures -----------------------------
(* Features, and one of them in detail.  A behaviour takes one of the parts *)
(*   "lifecycle"    commands that enable and disable the features of a     *)
(*                  menu, each menu closed under the requirements;         *)
(*   "maintenance"  maintenance mode of the nodes.                         *)
EXTENDS MaintenanceMode

CONSTANTS Maas, MaxAborts

ASSUME AbortsAssumption == MaxAborts \in Nat

VARIABLES
    part,
    menu, flag, vars, live, todo, featureCmd, dirty, aborts

Menus ==
    {{"telemetry", "resource-optimization", "maintenance"},
     {"secrets", "vault", "tls.vault"},
     {"caas", "secrets", "vault", "loadbalancer"},
     {"tls.ca", "tls.self-signed"},
     {"observability.embedded", "observability.external", "telemetry"},
     {"instance-recovery", "orchestration"},
     {"shared-filesystem", "dns"},
     {"baremetal", "pro"},
     {"images-sync", "validation", "ldap"}}

F == INSTANCE FeatureLifecycle WITH cmd <- featureCmd

lvars == <<menu, flag, vars, live, todo, featureCmd, dirty, aborts>>

Lifecycle == part = "lifecycle"
Maintenance == part = "maintenance"

Unused == "unused"

\* In each part the commands of the other one rest.
PartInit ==
    /\ Init
    /\ \/ /\ Lifecycle /\ F!Init
          /\ place = [i \in Instances |-> Nowhere]
          /\ pods = CHOOSE other \in [Pods -> Control] : TRUE
       \/ /\ Maintenance /\ featureCmd = "none"
          /\ menu = Unused /\ flag = Unused /\ vars = Unused /\ live = Unused
          /\ todo = Unused /\ dirty = Unused /\ aborts = Unused

PartNext ==
    /\ UNCHANGED part
    /\ \/ Lifecycle /\ F!Next /\ UNCHANGED mvars
       \/ Maintenance /\ Next /\ UNCHANGED lvars

PartSpec ==
    /\ PartInit /\ [][PartNext]_<<part, lvars, mvars>>
    /\ WF_lvars(Lifecycle /\ F!Execute) /\ WF_lvars(Lifecycle /\ F!Finish)
    /\ WF_mvars(Maintenance /\ Step)

\* The state of each part has its types.
PartTypeOK == TypeOK /\ (Lifecycle => F!TypeOK)

\* An enabled feature is deployed as a whole, whatever other features did since.
EnabledIsDeployed == Lifecycle => F!EnabledIsDeployed

\* A disabled feature leaves nothing behind.
DisabledIsGone == Lifecycle => F!DisabledIsGone

\* What the enabled features need of each other is there, whatever failed.
FeaturesFit == Lifecycle => F!FeaturesFit

\* Every command ends, in either part (CommandsEnd of both modules).
Running == featureCmd # "none" \/ pc # "none"
PartsEnd == Running ~> ~ Running
=============================================================================
