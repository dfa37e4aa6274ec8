----------------------------- MODULE MCJobQueue -----------------------------
(***************************************************************************)
(* Instances of JobQueue for TLC.                                          *)
(***************************************************************************)
EXTENDS JobQueue, TLC

CONSTANTS u1, w1, w2

OneUser == {u1}
OneWorker == {w1}
TwoWorkers == {w1, w2}
TreeOnly == {"task_tree"}
EveryKind == AllKinds

\* Workers are interchangeable in the safety runs.
Symmetry == Permutations(Workers)
=============================================================================
