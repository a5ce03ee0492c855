--------------------------- MODULE MCIdempotency ---------------------------
(* The instance of Idempotency for TLC; no symmetry, for NoKeyIsStranded.  *)
EXTENDS Idempotency
=============================================================================
