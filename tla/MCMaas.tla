------------------------------- MODULE MCMaas -------------------------------
(* The site of a MAAS deployment, or its machines: each behaviour takes    *)
(* one of the two.                                                         *)
EXTENDS MaasSite, Sequences, TLC

CONSTANTS Infra, Workers, Dpus, Removable, Systems, MaxInfra, MaxMachines, MaxMachineFaults

\* A host has one kind, and every host its system, a positive number.
ASSUME MachinesAssumption ==
    /\ Infra \cap Workers = {} /\ IsFiniteSet(Infra \cup Workers)
    /\ Systems \subseteq Nat \ {0} /\ 1..Cardinality(Infra \cup Workers) \subseteq Systems

VARIABLES part, maas, machineRows, juju, cmd, machinePc, todo, sync, machineFaults

Everything == {"control", "compute", "storage", "network"}
Controllers == ("i" :> {"juju-controller", "sunbeam"})
Regular == Controllers @@ ("a" :> Everything) @@ ("b" :> {"compute"})
Regional == Controllers @@ ("a" :> {"region_controller"}) @@ ("b" :> {"region_controller"})
Single == Controllers @@ ("a" :> Everything) @@ ("b" :> {"sunbeam"})
MCSites == {Regular, Regional, Single}
MCRoleSets == {{}, Everything, Everything \ {"network"}, {"compute"}, {"region_controller"}, {"sunbeam"}}

M == INSTANCE MaasMachines WITH rows <- machineRows, pc <- machinePc, faults <- machineFaults,
                                MaxFaults <- MaxMachineFaults

machineVars == <<maas, machineRows, juju, cmd, machinePc, todo, sync, machineFaults>>

PartInit ==
    /\ M!Init /\ Init
    /\ part \in {"machines", "site"}
    /\ part = "machines" => site.roles = Regular
    /\ site.roles = Regular => gate
    /\ site.roles = Single => ~ gate

PartNext ==
    \/ part = "machines" /\ M!Next /\ UNCHANGED <<part, vars>>
    \/ part = "site" /\ Next /\ UNCHANGED <<part, machineVars>>

PartSpec == PartInit /\ [][PartNext]_<<part, machineVars, vars>>

\* Rows, machines, the site and what is deployed on it have their types.
PartTypeOK == M!TypeOK /\ TypeOK

\* What deploy decides about the machines is right: the ids it goes on with,
\* and the hosts it refuses.
DeployedRight == M!DeployedRight
=============================================================================
