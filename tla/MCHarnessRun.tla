---------------------------- MODULE MCHarnessRun ----------------------------
(***************************************************************************)
(* Instances of HarnessRun for TLC.                                        *)
(***************************************************************************)
EXTENDS HarnessRun, TLC

CONSTANTS h1, h2

OneHost == {h1}
TwoHosts == {h1, h2}
Browser == {"wasm"}
BothModes == AllModes

Symmetry == Permutations(Hosts)

=============================================================================
