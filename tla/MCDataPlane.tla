---------------------------- MODULE MCDataPlane ----------------------------
(* Instances of DataPlane for TLC.                                         *)
EXTENDS DataPlane, TLC

Symmetry == Permutations(Tunnels) \union Permutations(Sessions)
=============================================================================
