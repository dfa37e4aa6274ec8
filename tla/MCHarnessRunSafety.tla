------------------------- MODULE MCHarnessRunSafety -------------------------
(***************************************************************************)
(* One run in two scenes.  In "handover" two browser tabs take the run     *)
(* from each other; left out is what the other scene has in full, the      *)
(* reaper (the only reader of a token's silence) and completions decided   *)
(* on an earlier read.  Where the scene is a host, that host is alone, in  *)
(* the browser or as the sidecar, and everything that may end a run        *)
(* competes.                                                               *)
(***************************************************************************)
EXTENDS MCHarnessRun

VARIABLE scene

SceneInit ==
    /\ scene \in {"handover"} \cup Hosts
    /\ Init
    /\ scene = "handover" => run.mode = "wasm"

Handover ==
    /\ scene = "handover"
    /\ Next
    /\ ~\E t \in Tokens : Silence(t)
    /\ UNCHANGED <<completing, reaper>>

\* A second token is enough to replace the first under a host that still works,
\* and one stream to end the run in every way.
Alone(h) ==
    /\ scene = h
    /\ Next
    /\ token'[MaxTokens] = NoToken /\ run'.attempts <= 1
    /\ \A g \in Hosts \ {h} : held'[g] = 0 /\ stream'[g] = NoStream /\ completing'[g] = "none"

SceneNext ==
    /\ UNCHANGED scene
    /\ Handover \/ \E h \in Hosts : Alone(h)

SceneSpec == SceneInit /\ [][SceneNext]_<<vars, scene>>
=============================================================================
