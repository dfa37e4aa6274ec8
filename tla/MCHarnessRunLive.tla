-------------------------- MODULE MCHarnessRunLive --------------------------
(***************************************************************************)
(* Whether one run ends, in two scenes.  In "work" its host, with a single *)
(* token, opens streams, runs tools and waits for approvals; in "tokens"   *)
(* hosts of either kind take, rotate and lose two tokens while nothing is  *)
(* streamed.  Neither scene restricts a step that is assumed to be fair.   *)
(***************************************************************************)
EXTENDS MCHarnessRun

VARIABLE scene

SceneInit ==
    /\ scene \in {"work", "tokens"}
    /\ Init
    /\ scene = "work" => run.mode = "wasm"

Work ==
    /\ scene = "work"
    /\ Next
    /\ token'[MaxTokens] = NoToken

TokensOnly ==
    /\ scene = "tokens"
    /\ Next
    /\ UNCHANGED <<stream, tool>>

SceneNext == UNCHANGED scene /\ (Work \/ TokensOnly)

SceneFairSpec == SceneInit /\ [][SceneNext]_<<vars, scene>> /\ Fairness
=============================================================================
