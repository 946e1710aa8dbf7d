------------------------ MODULE MCClusterMembership ------------------------
(* Nodes that come and go.  A behaviour takes one of three parts:          *)
(*   "members"   who belongs to the cluster (ClusterMembership);           *)
(*   "nodes"     removals that fail while other nodes join (MachineUnits); *)
(*   "replicas"  two sessions remove storage nodes, one with --force.      *)
EXTENDS ClusterMembership, TLC

CONSTANTS s, n1, n2, c, d, None, MaxMachines, Replicas

\* The session is none of the nodes, and the seed is one of them.
ASSUME NodesAssumption ==
  /\ Seed \in {s, n1, n2} /\ c \notin {s, n1, n2} /\ None \notin {s, n1, n2, c}
  /\ MaxMachines \in Nat \ {0} /\ Replicas \in Nat \ {0}

VARIABLES
  part,
  nodeRows, machineid, bootstrapped, stored, kubeconfig, machinesAdded, host, reported,
  units, cloud, lock, todo, phase, ids, found, removing, joined, removed

Compute == [k \in {s, n1, n2} |-> IF k = s THEN {"control"} ELSE {"compute"}]
Storage == [k \in {s, n1, n2} |-> IF k = s THEN {"control", "storage"} ELSE {"storage"}]

\* With its theorems, which ClusterMembershipProofs uses.
N == INSTANCE MachineUnitsProofs
       WITH Nodes <- {s, n1, n2}, RolesOf <- Compute, Apps <- {"microovn"},
            Admins <- {c}, Forceful <- {c}, Fallible <- {c},
            Exclusion <- "node", LateReport <- FALSE,
            rows <- nodeRows, added <- machinesAdded, target <- removing
R == INSTANCE MachineUnits
       WITH Nodes <- {s, n1, n2}, RolesOf <- Storage, Apps <- {"microceph", "cinder-volume"},
            Admins <- {c, d}, Forceful <- {d}, Fallible <- {}, MaxMachines <- MaxMachines + 1,
            Exclusion <- "all", LateReport <- FALSE,
            rows <- nodeRows, added <- machinesAdded, target <- removing

uvars == <<nodeRows, machineid, bootstrapped, stored, kubeconfig, machinesAdded, host, reported,
           units, cloud, lock, todo, phase, ids, found, removing, joined, removed>>

PartInit ==
  /\ Init
  /\ \/ part = "members" /\ N!Init
     \/ part = "nodes" /\ N!Init
     \/ part = "replicas" /\ R!Init

PartNext ==
  /\ UNCHANGED part
  /\ \/ part = "members" /\ Next /\ UNCHANGED uvars
     \/ part = "nodes" /\ N!Next /\ UNCHANGED vars
     \/ part = "replicas" /\ R!Next /\ UNCHANGED vars

PartSpec == PartInit /\ [][PartNext]_<<part, vars, uvars>>

\* A removed node leaves no row and no machine (RemovedLeavesNothing).
NodesLeaveNothing == part = "nodes" => N!RemovedLeavesNothing

\* Removals without --force keep as many storage units as replicas (ReplicasKept).
CephReplicasKept == R!ReplicasKept

Symmetry == {p @@ q : p \in Permutations(Admins), q \in Permutations({n1, n2})}
=============================================================================
