-------------------------- MODULE MCToolExecutions --------------------------
(* Two workers and one tool call, leased up to MaxLeases times. *)
EXTENDS ToolExecutions, TLC

WorkerSymmetry == Permutations(Workers)
=============================================================================
