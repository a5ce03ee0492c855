----------------------------- MODULE MCServerRun -----------------------------
(* The instance of ServerRun for TLC; no symmetry, for TheCommandEnds.     *)
EXTENDS ServerRun
=============================================================================
