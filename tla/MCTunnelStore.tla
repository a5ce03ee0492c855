--------------------------- MODULE MCTunnelStore ---------------------------
(* Instances of TunnelStore for TLC.                                       *)
EXTENDS TunnelStore, TLC

Symmetry == Permutations(Tunnels) \union Permutations(Users) \union Permutations(Requests)
=============================================================================
