--------------------------- MODULE MCRunnerScenes ---------------------------
(* Two scenes of ScheduleRunner in one run.  In "single" one entry that     *)
(* names one of two destinations is created, edited, started, stopped,      *)
(* pruned and survives restarts; in "contend" two entries with overlapping  *)
(* windows want the routing and the go-live.                                *)
EXTENDS MCScheduleRunner

VARIABLE scene

sceneVars == <<vars, scene>>

Single == INSTANCE ScheduleRunner WITH
    Id <- {e1}, MaxTime <- 4, StartTimes <- {1, 2}, Plans <- MCPlans,
    Outcome <- MCUpOrRefused2, EdgeFirst <- TRUE

SceneInit ==
    \/ scene = "single" /\ Single!Init
    \/ scene = "contend" /\ ContendInit

SceneNext ==
    \/ scene = "single" /\ Single!Next /\ UNCHANGED scene
    \/ scene = "contend" /\ ContendNext /\ UNCHANGED scene

SceneSpec == SceneInit /\ [][SceneNext]_sceneVars

\* A go-live an entry asked for brings up only destinations the entry names,
\* whatever it refuses; only outputs that fail inside the go-live loop break
\* this (MCScheduleRunnerFailed.cfg), and the second scene has those.
PlannedAired == scene = "single" => OnlyPlannedAired
=============================================================================
