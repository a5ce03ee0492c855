---------------------------- MODULE MCClientRun ----------------------------
(* Instances of ClientRun for TLC.                                         *)
EXTENDS ClientRun
=============================================================================
