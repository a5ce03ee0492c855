---------------------------- MODULE MCTokenAuth ----------------------------
(* The instance of TokenAuth for TLC; no symmetry, for SlotsComeBack.      *)
EXTENDS TokenAuth
=============================================================================
