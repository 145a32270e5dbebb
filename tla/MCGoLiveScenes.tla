--------------------------- MODULE MCGoLiveScenes ---------------------------
(* Three scenes of GoLive in one run.  In "broadcasts" a broadcast          *)
(* platform's destination, a channel and a stream key go live, are stopped  *)
(* and go live again with the Go Live dialog open beside the prelude; in    *)
(* "mixed" one of them is armed beside the prelude or a stop; in "arms" a   *)
(* channel and a stream key are armed, taken back and armed again.          *)
EXTENDS MCGoLive

VARIABLE scene

sceneVars == <<vars, scene>>

Mixed == INSTANCE GoLive WITH MaxGeneration <- 1, MaxToken <- 1

Arms == INSTANCE GoLive WITH
    Carries <- MCArms, Dialog <- {}, MaxGeneration <- 1, MaxToken <- 3

SceneInit ==
    \/ scene \in {"broadcasts", "mixed"} /\ Init
    \/ scene = "arms" /\ Arms!Init

SceneNext ==
    \/ scene = "broadcasts" /\ Next /\ UNCHANGED scene
    \/ scene = "mixed" /\ Mixed!Next /\ UNCHANGED scene
    \/ scene = "arms" /\ Arms!Next /\ UNCHANGED scene

SceneSpec == SceneInit /\ [][SceneNext]_sceneVars
=============================================================================
