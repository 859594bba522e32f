------------------------- MODULE MCUpdateActivation -------------------------
(* Small instances of UpdateActivation for TLC. *)
EXTENDS UpdateActivation
=============================================================================
