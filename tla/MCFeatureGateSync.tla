------------------------- MODULE MCFeatureGateSync -------------------------
(* Values for FeatureGateSync. *)
EXTENDS FeatureGateSync, TLC

Symmetry == Permutations(Nodes \ {Seed})
=============================================================================
