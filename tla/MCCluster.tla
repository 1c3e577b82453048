----------------------------- MODULE MCCluster -----------------------------
(* HbCluster for TLC, with the policy tables it decides by. *)

EXTENDS HbCluster, PolicyTable, TLC

ConnSymmetry == Permutations(Conns)

=============================================================================
