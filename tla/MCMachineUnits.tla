--------------------------- MODULE MCMachineUnits ---------------------------
(* Values for MachineUnits: a seed s and one or two more nodes. *)
EXTENDS MachineUnits, TLC

CONSTANTS s, n1, n2

Control == [n \in Nodes |-> {"control"}]
Compute == [n \in Nodes |-> IF n = s THEN {"control"} ELSE {"compute"}]
Mixed == [n \in Nodes |-> CASE n = s -> {"control", "compute", "storage"}
                            [] n = n1 -> {"control", "storage"}
                            [] n = n2 -> {"compute", "network"}]

Symmetry == Permutations(Nodes \ {Seed})
=============================================================================
