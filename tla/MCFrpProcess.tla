---------------------------- MODULE MCFrpProcess ----------------------------
(* Instances of FrpProcess for TLC.                                        *)
EXTENDS FrpProcess, TLC

Symmetry == Permutations(Callers)
=============================================================================
