--------------------------- MODULE MCCowSteering ---------------------------
(* Small instances of CowSteering for TLC. *)
EXTENDS CowSteering
=============================================================================
