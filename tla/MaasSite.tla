------------------------------ MODULE MaasSite ------------------------------
(***************************************************************************)
(* What `sunbeam deployment validate` promises about a MAAS site and what  *)
(* `bootstrap`, `deploy` and `configure` later refuse.  The site (tags of  *)
(* machines, their disks and networks, the reserved address ranges, the    *)
(* map of networks to spaces) is the operator's and may change at any      *)
(* moment, between two steps of a command too.                             *)
(***************************************************************************)
EXTENDS Integers, FiniteSets

CONSTANTS
    Machines,       \* host names
    RoleSets,       \* the sets of role tags an operator gives a machine
    Disks,          \* disks of every machine
    Partitioned,    \* those that hold partitions when the machine is deployed
    Sites,          \* role tags of the machines to begin with
    MaxChanges, MaxFaults      \* bounds

\* RoleTags; region controllers are behind a feature gate.
Roles == {"control", "compute", "storage", "network", "juju-controller", "sunbeam", "region_controller"}

\* list_machines keeps the tags that are roles.
ASSUME SiteAssumption ==
    /\ IsFiniteSet(Machines)
    /\ RoleSets \subseteq SUBSET Roles /\ Sites \subseteq [Machines -> SUBSET Roles]

VARIABLES
    site,      \* roles, has ("listed", "spaces", "nic", "root disk"), disks; mapped, ranges
    gate,      \* the feature gate of region controllers
    up,        \* bootstrapped
    rows,      \* rows[m]: roles in the node row of clusterd; {} if it has none
    osds,      \* osds[m]: disks that are OSDs
    adding,    \* adding[m]: disks is_skip of the OSD step chose
    pc, last,  \* step of a running deploy, and how the last command ended
    report,    \* of `validate`, on the site as it is; "none" if it changed since
    fresh,     \* the site is as it was when the running, or last, deploy began
    changes, faults

vars == <<site, gate, up, rows, osds, adding, pc, last, report, fresh, changes, faults>>
world == <<site, gate, changes>>

Attributes == {"listed", "spaces", "nic", "root disk"}
Labels == {"public", "internal"}
Listed == {m \in Machines : "listed" \in site.has[m]}
Has(m, a) == a \in site.has[m]
RowsOf(role) == {m \in Machines : role \in rows[m]}
Tagged(role) == {m \in Listed : role \in site.roles[m]}
None == [m \in Machines |-> {}]

Init ==
    /\ \E roles \in Sites :
          site = [roles |-> roles, has |-> [m \in Machines |-> Attributes],
                  disks |-> [m \in Machines |-> Disks \ Partitioned], mapped |-> TRUE, ranges |-> Labels]
    /\ gate \in BOOLEAN /\ up = FALSE
    /\ rows = None /\ osds = None /\ adding = None
    /\ pc = "none" /\ last = "none" /\ report = "none" /\ fresh = FALSE /\ changes = 0 /\ faults = 0

----------------------------------------------------------------------------
(* `validate`: one operator per check; TRUE unless the result is a failure *)

MachineRolesCheck(m) == site.roles[m] # {}

MachineNetworkCheck(m) == site.mapped /\ site.roles[m] # {} /\ Has(m, "spaces")

MachineStorageCheck(m) == site.roles[m] # {} /\ ("storage" \in site.roles[m] => site.disks[m] # {})

MachineComputeNicCheck(m) == site.roles[m] # {} /\ ("network" \in site.roles[m] => Has(m, "nic"))

MachineRootDiskCheck(m) == Has(m, "root disk")

\* MachineRequirementsCheck only warns.
DeploymentMachinesCheck ==
    /\ Listed # {}
    /\ \A m \in Listed :
          /\ MachineRolesCheck(m) /\ MachineNetworkCheck(m) /\ MachineStorageCheck(m)
          /\ MachineComputeNicCheck(m) /\ MachineRootDiskCheck(m)

\* Fewer machines than the wanted number, if any, is a warning; -1 is no limit.
DeploymentRolesCheck(role, min, max) ==
    LET n == Cardinality(Tagged(role))
    IN  ~ (n = 0 /\ min > 0) /\ (max = -1 \/ n <= max \/ n < min)

_has_region_controllers == Tagged("region_controller") # {}

TopologyOfRegulars ==
    /\ Cardinality(Listed) >= 2
    /\ \A role \in {"juju-controller", "sunbeam"} : DeploymentRolesCheck(role, 3, -1)
    /\ \A role \in {"control", "compute", "storage"} :
          DeploymentRolesCheck(role, IF _has_region_controllers THEN 0 ELSE 3, -1)

\* Every machine has a zone; two zones, or an unbalanced one, are warnings.
DeploymentTopologyCheck ==
    /\ Cardinality(Listed) >= 2
    /\ \A role \in {"juju-controller", "sunbeam"} : DeploymentRolesCheck(role, 3, -1)
    /\ \A role \in {"control", "compute", "storage"} :
          IF _has_region_controllers THEN DeploymentRolesCheck(role, 0, 0)
          ELSE DeploymentRolesCheck(role, 3, -1)

IpRangesCheck == site.mapped /\ site.ranges = Labels

validate_deployment_cmd ==
    /\ pc = "none"
    /\ report' = IF DeploymentMachinesCheck /\ DeploymentTopologyCheck /\ IpRangesCheck THEN "passed" ELSE "failed"
    /\ UNCHANGED <<world, up, rows, osds, adding, pc, last, fresh, faults>>

----------------------------------------------------------------------------
(* Commands *)

EnabledRoles == IF gate THEN Roles ELSE Roles \ {"region_controller"}

Rowed == {m \in Listed : site.roles[m] \cap EnabledRoles # {}}

\* Rows of machines that lost their tags stay.
AddMachines == [m \in Machines |-> IF m \in Rowed THEN site.roles[m] ELSE rows[m]]

NetworkMappingCompleteCheck == site.mapped
JujuControllerCheck == Tagged("juju-controller") # {}
InfraMachines == Tagged("sunbeam") # {}

\* Each command ends with what it was given to do done, or refuses.
EndedWith(how) == pc' = "none" /\ last' = how /\ adding' = None /\ UNCHANGED <<world, up, rows, osds, report, fresh, faults>>
Refuse == EndedWith("refused")

Bootstrap ==
    /\ pc = "none" /\ ~ up
    /\ IF NetworkMappingCompleteCheck /\ JujuControllerCheck /\ InfraMachines /\ Rowed # {}
       THEN /\ up' = TRUE /\ rows' = AddMachines /\ last' = "bootstrapped"
            /\ UNCHANGED <<world, osds, adding, pc, report, fresh, faults>>
       ELSE Refuse

Deploy ==
    /\ pc = "none" /\ up
    /\ IF NetworkMappingCompleteCheck
       THEN /\ pc' = "rows" /\ last' = "none" /\ fresh' = TRUE
            /\ UNCHANGED <<world, up, rows, osds, adding, report, faults>>
       ELSE Refuse

AddMachinesToClusterd ==
    /\ pc = "rows"
    /\ IF Rowed = {} THEN Refuse
       ELSE /\ rows' = AddMachines /\ pc' = "counts"
            /\ UNCHANGED <<world, up, osds, adding, last, report, fresh, faults>>

RolesCounted ==
    IF RowsOf("region_controller") # {}
    THEN \A role \in {"control", "compute", "storage", "network"} : RowsOf(role) = {}
    ELSE \A role \in {"control", "compute", "storage"} : RowsOf(role) # {}

CountRoles ==
    /\ pc = "counts"
    /\ IF RolesCounted
       THEN pc' = "k8s" /\ UNCHANGED <<world, up, rows, osds, adding, last, report, fresh, faults>>
       ELSE Refuse

\* MaasDeployK8SApplicationStep
DeployK8S ==
    /\ pc = "k8s"
    /\ IF site.ranges = Labels
       THEN pc' = "choose" /\ UNCHANGED <<world, up, rows, osds, adding, last, report, fresh, faults>>
       ELSE Refuse

MaasDisks(m) == IF m \in Listed THEN site.disks[m] ELSE {}

\* Disks with neither an OSD nor a partition
Unpartitioned(m) == Disks \ (Partitioned \cup osds[m])

KnownToMaasAny(m) == MaasDisks(m) # {} /\ MaasDisks(m) \subseteq osds[m] \cup Unpartitioned(m)

_compute_disks_to_configure(m) ==
    MaasDisks(m) # {} /\ osds[m] \subseteq MaasDisks(m) /\ MaasDisks(m) \subseteq osds[m] \cup Unpartitioned(m)

ConfigureOSDIsSkip ==
    /\ pc = "choose"
    /\ IF \A m \in RowsOf("storage") : _compute_disks_to_configure(m)
       THEN /\ adding' = [m \in Machines |-> IF m \in RowsOf("storage") THEN MaasDisks(m) \cap Unpartitioned(m) ELSE {}]
            /\ pc' = IF adding' = None THEN "end" ELSE "add"
            /\ UNCHANGED <<world, up, rows, osds, last, report, fresh, faults>>
       ELSE Refuse

\* One machine after the other
AddOsds ==
    /\ pc = "add"
    /\ \E m \in Machines :
          /\ adding[m] # {}
          /\ osds' = [osds EXCEPT ![m] = @ \cup adding[m]]
          /\ adding' = [adding EXCEPT ![m] = {}]
    /\ pc' = IF adding' = None THEN "end" ELSE "add"
    /\ UNCHANGED <<world, up, rows, last, report, fresh, faults>>

DeployEnds ==
    /\ pc = "end" /\ pc' = "none" /\ last' = "deployed"
    /\ UNCHANGED <<world, up, rows, osds, adding, report, fresh, faults>>

StopsKeeping ==
    /\ pc # "none" /\ faults < MaxFaults /\ faults' = faults + 1
    /\ pc' = "none" /\ last' = "stopped"
    /\ UNCHANGED <<world, up, rows, osds, adding, report, fresh>>

\* The rest of what stops a deploy: a kill, an action of a charm that fails
DeployStops ==
    /\ pc # "none" /\ faults < MaxFaults /\ faults' = faults + 1
    /\ pc' = "none" /\ last' = "stopped" /\ adding' = None
    /\ UNCHANGED <<world, up, rows, osds, report, fresh>>

\* MaasSetOpenStackNetworkAgentsStep of `configure`
NicsFound == \A m \in RowsOf("network") \cap Listed : Has(m, "nic")

Configure ==
    /\ pc = "none" /\ last = "deployed"
    /\ EndedWith(IF NicsFound THEN "configured" ELSE "not configured")

\* `remove` of a machine; it is given back to MAAS.
RemoveNode(m) ==
    /\ pc = "none" /\ up /\ rows[m] # {} /\ "sunbeam" \notin rows[m]
    /\ rows' = [rows EXCEPT ![m] = {}] /\ osds' = [osds EXCEPT ![m] = {}]
    /\ fresh' = FALSE /\ last' = "removed"
    /\ UNCHANGED <<world, up, adding, pc, report, faults>>

----------------------------------------------------------------------------
(* The operator *)

Changed == changes < MaxChanges /\ changes' = changes + 1 /\ report' = "none" /\ fresh' = FALSE
Rest == UNCHANGED <<gate, up, rows, osds, adding, pc, last, faults>>

map_spaces == ~ site.mapped /\ Changed /\ site' = [site EXCEPT !.mapped = TRUE] /\ Rest
unmap_spaces == site.mapped /\ Changed /\ site' = [site EXCEPT !.mapped = FALSE] /\ Rest

Retag(m) == \E roles \in RoleSets \ {site.roles[m]} : Changed /\ site' = [site EXCEPT !.roles[m] = roles] /\ Rest

Flip(set, x) == IF x \in set THEN set \ {x} ELSE set \cup {x}
Rewire(m) == \E a \in Attributes : Changed /\ site' = [site EXCEPT !.has[m] = Flip(@, a)] /\ Rest
RetagDisk(m) == \E d \in Disks : Changed /\ site' = [site EXCEPT !.disks[m] = Flip(@, d)] /\ Rest
SetRange == \E l \in Labels : Changed /\ site' = [site EXCEPT !.ranges = Flip(@, l)] /\ Rest

DeploySteps ==
    \/ AddMachinesToClusterd \/ CountRoles \/ DeployK8S \/ ConfigureOSDIsSkip \/ AddOsds \/ DeployEnds

Operator == map_spaces \/ unmap_spaces \/ SetRange \/ \E m \in Machines : Retag(m) \/ Rewire(m) \/ RetagDisk(m)

Next ==
    \/ validate_deployment_cmd \/ Bootstrap \/ Deploy \/ DeploySteps \/ DeployStops \/ Configure
    \/ \E m \in Machines : RemoveNode(m)
    \/ Operator

Spec == Init /\ [][Next]_vars

----------------------------------------------------------------------------
(* Properties *)

TypeOK ==
    /\ site.mapped \in BOOLEAN /\ site.ranges \subseteq Labels
    /\ \A m \in Machines :
          /\ site.has[m] \subseteq Attributes /\ site.disks[m] \subseteq Disks
          /\ osds[m] \subseteq Disks \ Partitioned /\ (adding[m] # {} => pc = "add")
    /\ report \in {"none", "passed", "failed"}

\* Divergences of the two sets of checks that the code has: network nodes
\* beside region controllers, region controllers behind their gate, disks in
\* use (as partitions, or as OSDs whose tag was taken away), and rows of
\* machines that are no longer tagged for this deployment.
Ungated == _has_region_controllers /\ ~ gate
Divergence ==
    \/ Ungated \/ (_has_region_controllers /\ Tagged("network") # {})
    \/ \E m \in Tagged("storage") : site.disks[m] \cap Partitioned # {} \/ ~ osds[m] \subseteq site.disks[m]
    \/ \E m \in Machines \ Listed : rows[m] # {}

\* bootstrap and deploy refuse no site that validation passed as it stands,
\* whatever was deployed, removed or changed before, but for these divergences;
\* and after a deploy of a site that is unchanged and passed validation,
\* configure finds the network interfaces it needs, unless a machine became a
\* region controller behind the gate and clusterd still has its old roles.
ValidatedDeploys ==
    [][/\ last' = "refused" => report # "passed" \/ Divergence
       /\ last' = "not configured" => report # "passed" \/ ~ fresh \/ Ungated]_<<last, pc>>

\* A deploy that completed on a site that did not change since it began has
\* made an OSD of every disk tagged for Ceph and of no other, and clusterd
\* has the tags of every machine, whatever the site was in earlier deploys
\* and wherever they stopped.
DeployedAsTagged ==
    last = "deployed" /\ fresh =>
       /\ \A m \in Rowed : rows[m] = site.roles[m]
       /\ \A m \in RowsOf("storage") : osds[m] = site.disks[m]
=============================================================================
