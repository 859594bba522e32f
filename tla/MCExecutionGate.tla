-------------------------- MODULE MCExecutionGate --------------------------
(* Workers of both kinds, control threads and job rows as model values. *)
EXTENDS ExecutionGate

CONSTANTS w1, w2, c1, j1, j2
=============================================================================
