---------------------------- MODULE MCApprovals ----------------------------
(***************************************************************************)
(* The approvals of one run in two scenes.  In "mishaps" one proposal is   *)
(* decided by windows of two server processes, and the servers die and     *)
(* everything else ends the run; in "up" two proposals wait at the same    *)
(* time on one server that lives.  In both, requests are cut off.          *)
(***************************************************************************)
EXTENDS MCApproval

CONSTANT w3

\* w3 is a window of another server process.
TwoProcesses == w1 :> s1 @@ w2 :> s1 @@ w3 :> s2

Symmetry == Permutations(Calls) \cup Permutations({w1, w2})

VARIABLE scene

SceneInit == scene \in {"mishaps", "up"} /\ Init

Mishaps ==
    /\ scene = "mishaps"
    /\ Next
    /\ \E c \in Calls : part'[c].approval = "none"

Up ==
    /\ scene = "up"
    /\ NextUp
    /\ receipt'[w3] = NoReceipt

SceneNext == UNCHANGED scene /\ (Mishaps \/ Up)

SceneSpec == SceneInit /\ [][SceneNext]_<<vars, scene>>

=============================================================================
