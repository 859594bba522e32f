--------------------------- MODULE MCDurableJobs ---------------------------
(* A small instance of DurableJobs for TLC: two jobs of one thread, the first *)
(* with a deadline.                                                           *)
EXTENDS DurableJobs, TLC

CONSTANTS j1, j2, t1, w1, w2

OneThread == j1 :> t1 @@ j2 :> t1
EarlyDeadline == j1 :> 2 @@ j2 :> NoDeadline
EqualPriority == j1 :> 0 @@ j2 :> 0
=============================================================================
