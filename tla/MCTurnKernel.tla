---------------------------- MODULE MCTurnKernel ----------------------------
(* Small instances of TurnKernel for TLC. *)
EXTENDS TurnKernel, TLC

CONSTANTS j1, j2, t1, w1, w2

OneThread == [j \in Jobs |-> t1]
EqualPriority == [j \in Jobs |-> 0]
NoDeadlines == [j \in Jobs |-> NoDeadline]

WorkerSymmetry == Permutations(Workers)
=============================================================================
