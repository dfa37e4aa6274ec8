----------------------------- MODULE MCTaskTree -----------------------------
(* The task tree on three tasks of one goal.                               *)
EXTENDS TaskTree, TLC

CONSTANTS t1, t2, t3

OneGoal == [t \in Tasks |-> 1]
TaskSymmetry == Permutations(Tasks)
=============================================================================
