----------------------------- MODULE MCProgress -----------------------------
(* What must eventually happen on the UI thread, the engine and the         *)
(* schedule runner each alone in one run: `scene` picks the one that moves. *)
(* The engine has two bindings of one profile.  The runner has one entry    *)
(* and one destination; `beat` flips with every pass of its sampler, so     *)
(* that passes which change nothing count.                                  *)
EXTENDS MultistreamEngine, TLC

CONSTANTS
    b1, p1,
    Id, NoId, NoValue, Order, ArmLead, Grace, StartInFlight, Retention,
    RequireAll, MaxTime, StartTimes, Plans, AutoStart, PreludeMax, Outcome,
    Connected, Preludes, BeginOk, EdgeFirst,
    Routed, RoutedProfile, NoField

MCRoutedProfile == b1 :> p1
MCOrder == <<b1>>
MCOutcome == {[b \in {b1} |-> "up"], [b \in {b1} |-> "refused"]}
MCPlans == {{p1}}
MCConnected == {{}, {p1}}

VARIABLES scene, now, w, beat

Runner == INSTANCE ScheduleRunner WITH
    Binding <- Routed, ProfileOf <- RoutedProfile,
    Field <- NoField, Value <- NoField

sceneVars == <<scene, now, w, beat, vars>>

SceneInit ==
    /\ scene \in {"engine", "runner"}
    /\ Init
    /\ scene = "runner" => enabled = {} /\ profile = [b \in Binding |-> p1]
    /\ Runner!Init
    /\ beat = FALSE

RunnerNext ==
    \/ Runner!Tick /\ beat' = ~ beat
    \/ /\ \/ Runner!User \/ Runner!Restart \/ Runner!EdgeRuns
          \/ Runner!Advance
          \/ \E prepared \in BOOLEAN : Runner!PreludeLands(prepared)
          \/ \E b \in Routed : Runner!OutputEnds(b)
       /\ UNCHANGED beat

SceneNext ==
    \/ scene = "engine" /\ Next /\ UNCHANGED <<scene, now, w, beat>>
    \/ scene = "runner" /\ RunnerNext /\ UNCHANGED <<scene, vars>>

\* The sampler keeps ticking, the clock runs to the horizon, the UI thread runs
\* what is posted to it and a worker comes back.  Nothing makes the user act or
\* an output end.
Scheduling ==
    /\ []<>(scene = "runner" => beat) /\ []<>(scene = "runner" => ~ beat)
    /\ <>[](scene = "runner" => now = MaxTime)
    /\ []<>(~ w.edge)
    /\ []<>(w.prelude = "none")

SceneSpec ==
    /\ SceneInit
    /\ [][SceneNext]_sceneVars
    /\ Fairness
    /\ Scheduling

-----------------------------------------------------------------------------
\* No entry of the calendar stays upcoming for ever (ScheduleRunner).
EntriesSettle == Runner!EntriesSettle
=============================================================================
