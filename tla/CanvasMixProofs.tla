-------------------------- MODULE CanvasMixProofs --------------------------
(***************************************************************************)
(* Proofs about a canvas's video mix and its consumers, for any number of  *)
(* bindings and preview surfaces.                                          *)
(***************************************************************************)
EXTENDS CanvasMix, TLAPS

EntryStates == {"none", "idle", "error", "connecting", "live", "reconnecting"}

Phases == Running \cup {"none", "stopping", "draining", "down"}

\* Phases of an output that is going out or being stopped.
OnAir == Running \cup {"stopping"}

\* The camera's output still pulls frames.
Feeding == {"up", "ending", "draining"}

PlainType ==
    /\ at \in [Binding -> {"none", "here", "there"}]
    /\ enabled \subseteq Binding
    /\ surfaces \in Nat
    /\ previewCount \in Nat
    /\ entry \in [Binding -> EntryStates]
    /\ phase \in [Binding -> Phases]
    /\ attached \subseteq Binding

\* What the UI thread has at hand at each point of a task that stops an
\* output.
TaskInv ==
    /\ upc \in {"stop", "destroy", "stopped", "restart"} => cur \in Binding
    /\ upc = "destroy" => phase[cur] \notin Running
    /\ upc = "stopped" => phase[cur] \notin OnAir /\ ~IsActiveState(entry[cur])
    /\ upc \notin {"stop", "destroy", "stopped"} => then = "idle"

\* The rows are truthful: an entry is active while its output is going out,
\* and an output is only being stopped by the running task.
RowInv ==
    \A b \in Binding :
        /\ phase[b] \in Running => IsActiveState(entry[b])
        /\ IsActiveState(entry[b]) => phase[b] \in OnAir
        /\ phase[b] = "stopping" => cur = b /\ upc = "destroy"
        /\ entry[b] = "none" => phase[b] = "none"

\* An output that goes out is the one of an enabled binding of this canvas, or
\* its binding was disabled by the running task, or its profile was removed.
RouteInv ==
    \A b \in Binding :
        /\ phase[b] \in Running /\ at[b] = "here" =>
               b \in enabled \/ (cur = b /\ upc = "stop")
        /\ phase[b] \in OnAir /\ ~pruned =>
               /\ at[b] = "here"
               /\ \/ b \in enabled
                  \/ /\ cur = b /\ upc \in {"stop", "destroy"}
                     /\ then = "reconcile"

\* The preview references, with the camera's at its start.
RefInv == RefsBalanced /\ (upc = "camAdd" => held = "none")

\* Whenever the camera holds a reference, somebody is going to return it.
CamInv ==
    /\ upc \in {"camAdd", "camBind", "camFailed"} => cam = "off"
    /\ upc = "camBind" => held = target
    /\ cam \in Feeding => ~drained
    /\ cam = "drained" => drained
    /\ cam \in Feeding \cup {"drained", "off"}
    /\ held # "none" => \/ camPosted
                        \/ cam \in Feeding
                        \/ upc \in {"camBind", "camFailed"}

\* What can be said without a look at the mix.
PlainInv == PlainType /\ TaskInv /\ RowInv /\ RouteInv /\ RefInv /\ CamInv

\* Unless a reset may lose the mix, the encoders belong to the present one.
ServeInv == ~ResetMayFail => cached \in {"none", "mix"} /\ MixServesOutputs

\* The camera pulls frames from a mix it holds a reference on.
FeedInv ==
    cam \in Feeding => camUses # "freed" /\ (camUses = "mix" => held = "here")

\* A mix nobody needs is about to be dropped by the running task.
InertInv ==
    ~pruned /\ active /\ ~HasConsumer =>
        upc \in {"stop", "destroy", "stopped"} /\ then = "reconcile"

MixInv ==
    /\ active \in BOOLEAN
    /\ cached \in Videos
    /\ uses \in [Binding -> Videos]
    /\ ServeInv
    /\ FeedInv
    /\ InertInv

\* The inductive invariant.
CanvasInv == PlainInv /\ MixInv

-----------------------------------------------------------------------------

LEMMA InitCanvasInv == Init => CanvasInv
<1> SUFFICES ASSUME Init PROVE CanvasInv
  OBVIOUS
<1>1. PlainInv
  BY DEF Init, PlainInv, PlainType, EntryStates, Phases, Running, OnAir,
         TaskInv, RowInv, RouteInv, RefInv, RefsBalanced, CamInv, Feeding,
         IsActiveState
<1>2. active \in BOOLEAN /\ cached \in Videos /\ uses \in [Binding -> Videos]
  BY Zenon DEF Init, Videos
<1>3. ServeInv /\ FeedInv
  BY DEF Init, ServeInv, MixServesOutputs, Running, FeedInv, Feeding
<1>4. InertInv
  BY DEF Init, InertInv, HasConsumer
<1> QED
  BY <1>1, <1>2, <1>3, <1>4 DEF CanvasInv, MixInv

LEMMA StutterCanvasInv == CanvasInv /\ UNCHANGED vars => CanvasInv'
<1> SUFFICES ASSUME CanvasInv, UNCHANGED vars PROVE CanvasInv'
  OBVIOUS
<1> USE DEF CanvasInv, vars, storeVars, mixVars, outVars, uiVars, camVars,
            postVars
<1>1. PlainInv'
  BY DEF PlainInv, PlainType, TaskInv, RowInv, RouteInv, RefInv, RefsBalanced,
         CamInv
<1>2. MixInv'
  BY DEF MixInv, ServeInv, MixServesOutputs, FeedInv, InertInv, HasConsumer
<1> QED
  BY <1>1, <1>2

-----------------------------------------------------------------------------
(* ReconcileEntry.                                                         *)

\* A reconcile leaves the mix up only for a consumer or for an output it had
\* to wait for, and frees it only when there is neither.
LEMMA ReconcileMix ==
  ASSUME active \in BOOLEAN, Reconcile
  PROVE  /\ active' \in BOOLEAN
         /\ active' => HasConsumer' \/ DropDeferred'
         /\ cached' \in {cached, "none"}
         /\ \/ UNCHANGED <<uses, camUses>>
            \/ FreeMix /\ ~HasConsumer' /\ ~DropDeferred'
<1>1. CASE HasConsumer' = active /\ UNCHANGED mixVars
  BY <1>1 DEF mixVars
<1>2. CASE HasConsumer' /\ ~active /\ BuildMix
  BY <1>2, Zenon DEF BuildMix, mixVars
<1>3. CASE ~HasConsumer' /\ active /\ DropDeferred' /\ UNCHANGED mixVars
  BY <1>3 DEF mixVars
<1>4. CASE ~HasConsumer' /\ active /\ ~DropDeferred' /\ DropMix
  BY <1>4, Zenon DEF DropMix
<1> QED
  BY <1>1, <1>2, <1>3, <1>4 DEF Reconcile

\* So a step that reconciles after it has settled the rows, the routes and
\* the references keeps what the mix owes its consumers.
LEMMA ReconcileInv ==
  ASSUME CanvasInv, PlainInv', Reconcile, upc' # "stop",
         \A b \in Binding : phase'[b] \in Running /\ at'[b] = "here" =>
             phase[b] \in Running /\ at[b] = "here",
         cam' \in Feeding => cam \in Feeding /\ held' = held
  PROVE  MixInv'
<1>1. /\ active' \in BOOLEAN
      /\ active' => HasConsumer' \/ DropDeferred'
      /\ cached' \in {cached, "none"}
      /\ \/ UNCHANGED <<uses, camUses>>
         \/ FreeMix /\ ~HasConsumer' /\ ~DropDeferred'
  BY ReconcileMix DEF CanvasInv, MixInv
<1>2. cached' \in Videos /\ uses' \in [Binding -> Videos]
  BY <1>1 DEF CanvasInv, MixInv, FreeMix, Freed, Videos
<1>3. ServeInv'
  <2>1. \A b \in Binding :
           phase'[b] \in Running /\ at'[b] = "here" => HasConsumer'
    BY DEF PlainInv, RouteInv, HasConsumer
  <2> QED
    BY <1>1, <2>1 DEF CanvasInv, MixInv, ServeInv, MixServesOutputs, FreeMix,
                      Freed
<1>4. FeedInv'
  <2>1. held' = "here" => HasConsumer'
    <3>1. held' = "here" => previewCount' = surfaces' + 1 /\ surfaces' \in Nat
      BY DEF PlainInv, PlainType, RefInv, RefsBalanced
    <3>2. held' = "here" => previewCount' > 0
      BY <3>1
    <3> QED
      BY <3>2 DEF HasConsumer
  <2> QED
    BY <1>1, <2>1 DEF CanvasInv, MixInv, FeedInv, FreeMix, Freed
<1>5. InertInv'
  <2>1. CASE DropDeferred' /\ ~pruned' /\ ~HasConsumer'
    <3>1. PICK b \in Binding : IsActiveState(entry'[b])
      BY <2>1 DEF DropDeferred, CanvasHasActiveOutput
    <3>2. phase'[b] \in OnAir
      BY <3>1 DEF PlainInv, RowInv
    <3>3. at'[b] = "here" /\ b \notin enabled'
      BY <2>1, <3>2 DEF PlainInv, RouteInv, HasConsumer
    <3> QED
      BY <2>1, <3>2, <3>3 DEF PlainInv, RouteInv, InertInv
  <2> QED
    BY <1>1, <2>1 DEF InertInv
<1> QED
  BY <1>1, <1>2, <1>3, <1>4, <1>5 DEF MixInv

\* A step that leaves the mix alone.
LEMMA NoMixInv ==
  ASSUME CanvasInv, UNCHANGED mixVars,
         \A b \in Binding : phase'[b] \in Running /\ at'[b] = "here" =>
             phase[b] \in Running /\ at[b] = "here",
         cam' \in Feeding => cam \in Feeding /\ held' = held,
         InertInv'
  PROVE  MixInv'
  BY DEF CanvasInv, MixInv, mixVars, ServeInv, MixServesOutputs, FeedInv

-----------------------------------------------------------------------------
(* What every step does to the rows, the routes and the references.        *)

LEMMA OutputPlainInv ==
  ASSUME PlainInv, NEW b \in Binding, OutputStep(b)
  PROVE  PlainInv'
<1> USE DEF PlainInv, PlainType, EntryStates, Phases, Running, OnAir,
            TaskInv, RowInv, RouteInv, RefInv, RefsBalanced, CamInv, Feeding,
            IsActiveState, storeVars, outVars, uiVars, camVars, postVars,
            Signalled
<1>1. CASE HookEncoders(b)
  BY <1>1 DEF HookEncoders
<1>2. CASE Connected(b)
  BY <1>2 DEF Connected
<1>3. CASE ConnectFailed(b)
  BY <1>3 DEF ConnectFailed
<1>4. CASE Dropped(b)
  BY <1>4 DEF Dropped
<1>5. CASE GaveUp(b)
  BY <1>5 DEF GaveUp
<1>6. CASE StreamEnded(b)
  BY <1>6 DEF StreamEnded
<1>7. CASE SignalWhileStopping(b)
  BY <1>7 DEF SignalWhileStopping
<1>8. CASE StopEncoders(b)
  BY <1>8, SMTT(30) DEF StopEncoders
<1> QED
  BY <1>1, <1>2, <1>3, <1>4, <1>5, <1>6, <1>7, <1>8, Zenon
  DEF OutputStep

LEMMA BindingPlainInv ==
  ASSUME PlainInv, NEW b \in Binding, BindingStep(b)
  PROVE  PlainInv'
<1> USE DEF PlainInv, PlainType, EntryStates, Phases, Running, OnAir,
            TaskInv, RowInv, RouteInv, RefInv, RefsBalanced, CamInv, Feeding,
            IsActiveState, storeVars, outVars, uiVars, camVars, postVars,
            Idle, StopThen
<1>1. ASSUME NEW c \in {"here", "there"}, CreateBinding(b, c)
      PROVE  PlainInv'
  BY <1>1 DEF CreateBinding
<1>2. CASE EnableBinding(b)
  BY <1>2 DEF EnableBinding
<1>3. CASE DisableBinding(b)
  BY <1>3 DEF DisableBinding
<1>4. CASE RemoveBinding(b)
  BY <1>4 DEF RemoveBinding
<1>5. CASE StopOutput(b)
  BY <1>5 DEF StopOutput
<1>6. CASE MoveBinding(b)
  BY <1>6 DEF MoveBinding
<1>7. CASE RemoveProfile(b)
  BY <1>7 DEF RemoveProfile
<1>8. CASE StartOutput(b)
  BY <1>8, SMTT(30) DEF StartOutput, Begin, BeginOutput, BeginElsewhere
<1> QED
  BY <1>1, <1>2, <1>3, <1>4, <1>5, <1>6, <1>7, <1>8, Zenon DEF BindingStep

LEMMA CanvasPlainInv ==
  ASSUME PlainInv, CanvasStep
  PROVE  PlainInv'
<1> USE DEF PlainInv, PlainType, EntryStates, Phases, Running, OnAir,
            TaskInv, RowInv, RouteInv, RefInv, RefsBalanced, CamInv, Feeding,
            IsActiveState, storeVars, outVars, uiVars, camVars, postVars,
            Idle, OneLess
<1>1. CASE OpenPreview
  BY <1>1 DEF OpenPreview
<1>2. CASE ClosePreview
  BY <1>2 DEF ClosePreview
<1>3. CASE UpdateCanvas
  BY <1>3 DEF UpdateCanvas
<1>4. CASE RemoveCanvas
  BY <1>4 DEF RemoveCanvas, IsCanvasLive
<1>5. CASE CamStart
  BY <1>5 DEF CamStart, ReleaseTarget, CamFeeds
<1>6. CASE CamStop
  BY <1>6 DEF CamStop, ReleaseTarget, CamFeeds
<1>7. ASSUME NEW c \in {"here", "main"}, SetTargetCanvas(c)
      PROVE  PlainInv'
  BY <1>7, SMTT(30) DEF SetTargetCanvas
<1> QED
  BY <1>1, <1>2, <1>3, <1>4, <1>5, <1>6, <1>7, Zenon DEF CanvasStep

LEMMA TaskPlainInv ==
  ASSUME PlainInv, UiStep
  PROVE  PlainInv'
<1> USE DEF PlainInv, PlainType, EntryStates, Phases, Running, OnAir,
            TaskInv, RowInv, RouteInv, RefInv, RefsBalanced, CamInv, Feeding,
            IsActiveState, storeVars, outVars, uiVars, camVars, postVars,
            Idle, OneLess
<1>1. CASE StopHandle
  BY <1>1 DEF StopHandle
<1>2. CASE DestroyOutput
  BY <1>2 DEF DestroyOutput
<1>3. CASE AfterStop
  BY <1>3 DEF AfterStop, Elsewhere
<1>4. CASE RestartOutput
  BY <1>4 DEF RestartOutput, Begin, BeginOutput, BeginElsewhere
<1>5. CASE ReconcilePosted
  BY <1>5 DEF ReconcilePosted
<1>6. CASE CamAdd
  BY <1>6 DEF CamAdd
<1>7. CASE CamBind
  BY <1>7 DEF CamBind
<1>8. CASE CamFailed
  BY <1>8 DEF CamFailed, ReleaseTarget, CamFeeds
<1>9. CASE CamReleasePosted
  BY <1>9 DEF CamReleasePosted, ReleaseTarget, CamFeeds
<1> QED
  BY <1>1, <1>2, <1>3, <1>4, <1>5, <1>6, <1>7, <1>8, <1>9, Zenon DEF UiStep

LEMMA CameraPlainInv ==
  ASSUME PlainInv, CamThread
  PROVE  PlainInv'
  BY DEF PlainInv, PlainType, EntryStates, Phases, Running, OnAir,
            TaskInv, RowInv, RouteInv, RefInv, RefsBalanced, CamInv, Feeding,
            IsActiveState, storeVars, outVars, uiVars, camVars, postVars,
         CamThread, CamEnds, CamDeactivated, CamDown, CamStep

-----------------------------------------------------------------------------
(* What every step does to the mix.                                        *)

\* ReleaseTargetPreview: the reference outlives the frames the camera pulls.
LEMMA ReleaseInv ==
  ASSUME CanvasInv, PlainInv', ReleaseTarget, UNCHANGED <<storeVars, phase>>,
         upc \notin {"stop", "destroy", "stopped"}, upc' # "stop",
         cam' \in Feeding => cam \in Feeding
  PROVE  MixInv'
<1>1. CASE UNCHANGED <<previewCount, held, mixVars>>
  <2>1. InertInv'
    BY <1>1 DEF CanvasInv, MixInv, InertInv, HasConsumer, storeVars, mixVars
  <2> QED
    BY <1>1, <2>1, NoMixInv DEF storeVars
<1>2. CASE Reconcile /\ ~CamFeeds'
  <2>1. cam' \notin Feeding
    BY <1>2 DEF CamFeeds, PlainInv, CamInv, Feeding
  <2> QED
    BY <1>2, <2>1, ReconcileInv DEF storeVars
<1> QED
  BY <1>1, <1>2 DEF ReleaseTarget

LEMMA OutputMixInv ==
  ASSUME CanvasInv, NEW b \in Binding, OutputStep(b)
  PROVE  MixInv'
<1>1. UNCHANGED <<storeVars, previewCount, mixVars, uiVars, held, cam>>
  BY Zenon DEF OutputStep, HookEncoders, Connected, ConnectFailed, Dropped, GaveUp,
         StreamEnded, SignalWhileStopping, StopEncoders, Signalled, camVars
<1>2. \A c \in Binding : phase'[c] \in Running => phase[c] \in Running
  BY DEF OutputStep, HookEncoders, Connected, ConnectFailed, Dropped, GaveUp,
         StreamEnded, SignalWhileStopping, StopEncoders, Signalled, Running,
         CanvasInv, PlainInv, PlainType
<1>3. InertInv'
  BY <1>1 DEF CanvasInv, MixInv, InertInv, HasConsumer, storeVars, mixVars,
              uiVars
<1> QED
  BY <1>1, <1>2, <1>3, NoMixInv DEF storeVars

\* StartOutput: with no reset that loses the mix, the encoders it takes are
\* those of the present one.
LEMMA BeginMixInv ==
  ASSUME CanvasInv, NEW b \in enabled, Begin(b),
         upc \notin {"stop", "destroy", "stopped"},
         UNCHANGED <<storeVars, previewCount, held, cam>>
  PROVE  MixInv'
<1>1. b \in Binding
  BY DEF CanvasInv, PlainInv, PlainType
<1>2. active' \in BOOLEAN /\ camUses' = camUses
  BY DEF Begin, BeginOutput, BeginElsewhere, CanvasInv, MixInv
<1>3. cached' \in {cached, Encoders} /\ Encoders \in {cached, "mix", "none"}
  BY DEF Begin, BeginOutput, BeginElsewhere, Encoders
<1>4. cached \in Videos /\ Encoders \in Videos
  BY <1>3 DEF CanvasInv, MixInv, Videos
<1>5. PICK v \in Videos, p \in Phases :
        /\ uses' = [uses EXCEPT ![b] = v]
        /\ phase' = [phase EXCEPT ![b] = p]
        /\ p \in Running => v = Encoders /\ Encoders # "none"
  BY <1>4 DEF Begin, BeginOutput, BeginElsewhere, Videos, Phases, Running
<1>6. cached' \in Videos /\ uses' \in [Binding -> Videos]
  BY <1>3, <1>4, <1>5, Zenon DEF CanvasInv, MixInv
<1>7. ServeInv'
  BY <1>1, <1>3, <1>5
  DEF CanvasInv, PlainInv, PlainType, MixInv, ServeInv, MixServesOutputs,
      storeVars
<1>8. FeedInv' /\ InertInv'
  BY <1>2 DEF CanvasInv, MixInv, FeedInv, InertInv, HasConsumer, storeVars,
              Begin, BeginOutput, BeginElsewhere
<1> QED
  BY <1>2, <1>6, <1>7, <1>8 DEF MixInv

LEMMA BindingMixInv ==
  ASSUME CanvasInv, NEW b \in Binding, BindingStep(b)
  PROVE  MixInv'
<1>0. PlainInv'
  BY BindingPlainInv DEF CanvasInv
<1> USE DEF Idle, StopThen, storeVars, outVars, uiVars, camVars
<1>1. ASSUME NEW c \in {"here", "there"}, CreateBinding(b, c)
      PROVE  MixInv'
  <2>1. \A d \in Binding : phase'[d] \in Running /\ at'[d] = "here" =>
            phase[d] \in Running /\ at[d] = "here"
    BY <1>1 DEF CreateBinding, CanvasInv, PlainInv, PlainType, RowInv, Running
  <2> QED
    BY <1>0, <1>1, <2>1, ReconcileInv DEF CreateBinding
<1>2. CASE EnableBinding(b)
  BY <1>0, <1>2, ReconcileInv, Zenon DEF EnableBinding
<1>3. CASE DisableBinding(b)
  <2>1. InertInv'
    BY <1>3 DEF DisableBinding, InertInv
  <2> QED
    BY <1>3, <2>1, NoMixInv DEF DisableBinding
<1>4. CASE RemoveBinding(b) \/ StopOutput(b) \/ MoveBinding(b)
  <2>1. UNCHANGED <<at, enabled, pruned, previewCount, mixVars, phase, held,
                    cam>>
    BY <1>4 DEF RemoveBinding, StopOutput, MoveBinding
  <2>2. upc = "idle"
    BY <1>4 DEF RemoveBinding, StopOutput, MoveBinding
  <2>3. InertInv'
    BY <2>1, <2>2 DEF CanvasInv, MixInv, InertInv, HasConsumer, mixVars
  <2> QED
    BY <2>1, <2>3, NoMixInv
<1>5. CASE RemoveProfile(b)
  <2>1. InertInv'
    BY <1>5 DEF RemoveProfile, InertInv
  <2>2. \A d \in Binding : at'[d] = "here" => at[d] = "here"
    BY <1>5 DEF RemoveProfile, CanvasInv, PlainInv, PlainType
  <2> QED
    BY <1>5, <2>1, <2>2, NoMixInv DEF RemoveProfile
<1>6. CASE StartOutput(b)
  BY <1>6, BeginMixInv DEF StartOutput
<1> QED
  BY <1>1, <1>2, <1>3, <1>4, <1>5, <1>6 DEF BindingStep

\* An edit of the canvas is refused while an output or the camera needs its
\* mix, so nobody is bound to what it frees.
LEMMA EditMixInv ==
  ASSUME CanvasInv, UpdateCanvas \/ RemoveCanvas
  PROVE  MixInv'
<1> USE DEF Idle, storeVars, outVars, uiVars, camVars
<1>1. /\ held # "here" /\ held' = held /\ cam' = cam /\ phase' = phase
      /\ upc = "idle" /\ \A b \in Binding : phase[b] \notin Running
  BY DEF UpdateCanvas, RemoveCanvas, IsCanvasLive, CanvasInv, PlainInv, RowInv
<1>2. /\ active' \in BOOLEAN
      /\ \/ cached' \in {"none", cached}
         \/ ResetMayFail /\ cached' = Freed(cached)
      /\ UNCHANGED <<uses, camUses>> \/ FreeMix
  BY Zenon DEF UpdateCanvas, ResetVideo, RemoveCanvas, DropMix, CanvasInv, MixInv
<1>3. cached' \in Videos /\ uses' \in [Binding -> Videos]
  BY <1>2 DEF FreeMix, Freed, Videos, CanvasInv, MixInv
<1>4. ServeInv'
  BY <1>1, <1>2 DEF CanvasInv, MixInv, ServeInv, MixServesOutputs
<1>5. FeedInv'
  BY <1>1, <1>2 DEF CanvasInv, MixInv, FeedInv, FreeMix, Freed
<1>6. InertInv'
  <2>1. CASE UpdateCanvas
    <3>1. UNCHANGED <<at, enabled, pruned, previewCount, active>>
      BY <2>1 DEF UpdateCanvas, ResetVideo
    <3> QED
      BY <1>1, <3>1 DEF CanvasInv, MixInv, InertInv, HasConsumer
  <2>2. CASE RemoveCanvas
    BY <2>2 DEF RemoveCanvas, DropMix, InertInv
  <2> QED
    BY <2>1, <2>2
<1> QED
  BY <1>2, <1>3, <1>4, <1>5, <1>6, Zenon DEF MixInv

LEMMA CanvasMixInv ==
  ASSUME CanvasInv, CanvasStep
  PROVE  MixInv'
<1>0. PlainInv'
  BY CanvasPlainInv DEF CanvasInv
<1> USE DEF Idle, storeVars, outVars, uiVars, camVars
<1>1. CASE OpenPreview \/ ClosePreview
  BY <1>0, <1>1, ReconcileInv DEF OpenPreview, ClosePreview
<1>2. CASE UpdateCanvas \/ RemoveCanvas
  BY <1>2, EditMixInv
<1>3. CASE CamStart \/ CamStop
  BY <1>0, <1>3, ReleaseInv DEF CamStart, CamStop, Feeding
<1>4. ASSUME NEW c \in {"here", "main"}, SetTargetCanvas(c)
      PROVE  MixInv'
  <2>1. InertInv'
    BY <1>4 DEF SetTargetCanvas, CanvasInv, MixInv, InertInv, HasConsumer,
                mixVars
  <2> QED
    BY <1>4, <2>1, NoMixInv DEF SetTargetCanvas
<1> QED
  BY <1>1, <1>2, <1>3, <1>4 DEF CanvasStep

LEMMA TaskMixInv ==
  ASSUME CanvasInv, UiStep
  PROVE  MixInv'
<1>0. PlainInv'
  BY TaskPlainInv DEF CanvasInv
<1> USE DEF Idle, storeVars, outVars, uiVars, camVars
<1>1. CASE StopHandle
  <2>1. \A b \in Binding : phase'[b] \in Running => phase[b] \in Running
    BY <1>1 DEF StopHandle, CanvasInv, PlainInv, PlainType, Running
  <2>2. CASE UNCHANGED mixVars
    <3>1. InertInv'
      BY <1>1, <2>2 DEF StopHandle, CanvasInv, MixInv, InertInv, HasConsumer,
                        mixVars
    <3> QED
      BY <1>1, <2>1, <2>2, <3>1, NoMixInv DEF StopHandle
  <2>3. CASE Reconcile
    BY <1>0, <1>1, <2>1, <2>3, ReconcileInv DEF StopHandle
  <2> QED
    BY <1>1, <2>2, <2>3 DEF StopHandle
<1>2. CASE DestroyOutput
  <2>1. /\ uses' = [uses EXCEPT ![cur] = "none"]
        /\ phase' = [phase EXCEPT ![cur] = "none"]
        /\ UNCHANGED <<at, enabled, pruned, previewCount, active, cached,
                       camUses, held, cam, then>>
        /\ upc' = "stopped" /\ upc = "destroy"
    BY <1>2 DEF DestroyOutput
  <2>2. uses' \in [Binding -> Videos]
    BY <2>1, Zenon DEF CanvasInv, MixInv, Videos
  <2>3. ServeInv'
    BY <2>1 DEF CanvasInv, MixInv, ServeInv, MixServesOutputs, Running,
                PlainInv, PlainType
  <2>4. FeedInv' /\ InertInv'
    BY <2>1 DEF CanvasInv, MixInv, FeedInv, InertInv, HasConsumer
  <2> QED
    BY <2>1, <2>2, <2>3, <2>4 DEF CanvasInv, MixInv
<1>3. CASE AfterStop
  <2>1. \A b \in Binding : phase'[b] \in Running /\ at'[b] = "here" =>
            phase[b] \in Running /\ at[b] = "here"
    BY <1>3 DEF AfterStop, CanvasInv, PlainInv, PlainType, TaskInv, OnAir
  <2>2. CASE Reconciles
    BY <1>0, <1>3, <2>1, <2>2, ReconcileInv DEF AfterStop
  <2>3. CASE ~Reconciles
    <3>1. UNCHANGED <<mixVars, enabled, pruned, previewCount>> /\ then = "idle"
      BY <1>3, <2>3 DEF AfterStop, Reconciles
    <3>2. at' = at
      BY <1>3, <3>1 DEF AfterStop, CanvasInv, PlainInv, PlainType
    <3>3. InertInv'
      BY <3>1, <3>2 DEF CanvasInv, MixInv, InertInv, HasConsumer, mixVars
    <3> QED
      BY <1>3, <2>1, <3>1, <3>3, NoMixInv DEF AfterStop
  <2> QED
    BY <2>2, <2>3
<1>4. CASE RestartOutput
  <2>1. CASE cur \in enabled
    BY <1>4, <2>1, BeginMixInv DEF RestartOutput
  <2>2. CASE cur \notin enabled
    <3>1. InertInv'
      BY <1>4, <2>2, Zenon DEF RestartOutput, CanvasInv, MixInv, InertInv,
                        HasConsumer, mixVars
    <3> QED
      BY <1>4, <2>2, <3>1, NoMixInv DEF RestartOutput
  <2> QED
    BY <2>1, <2>2
<1>5. CASE ReconcilePosted
  BY <1>0, <1>5, ReconcileInv DEF ReconcilePosted
<1>6. CASE CamAdd
  <2>1. cam' \notin Feeding
    BY <1>6 DEF CamAdd, CanvasInv, PlainInv, CamInv, Feeding
  <2> QED
    BY <1>0, <1>6, <2>1, ReconcileInv DEF CamAdd
<1>7. CASE CamBind
  <2>1. FeedInv'
    BY <1>7 DEF CamBind, FeedInv, CanvasInv, PlainInv, CamInv
  <2>2. UNCHANGED <<active, cached, uses, at, enabled, pruned, previewCount,
                    phase>>
    BY <1>7 DEF CamBind
  <2>3. ServeInv' /\ InertInv'
    BY <1>7, <2>2 DEF CamBind, CanvasInv, MixInv, ServeInv, MixServesOutputs,
                      InertInv, HasConsumer
  <2> QED
    BY <2>1, <2>2, <2>3 DEF CanvasInv, MixInv
<1>8. CASE CamFailed \/ CamReleasePosted
  BY <1>0, <1>8, ReleaseInv DEF CamFailed, CamReleasePosted
<1> QED
  BY <1>1, <1>2, <1>3, <1>4, <1>5, <1>6, <1>7, <1>8 DEF UiStep

LEMMA CameraMixInv ==
  ASSUME CanvasInv, CamThread
  PROVE  MixInv'
<1>1. /\ UNCHANGED <<storeVars, previewCount, mixVars, outVars, uiVars, held>>
      /\ cam' \in Feeding => cam \in Feeding
  BY DEF CamThread, CamEnds, CamDeactivated, CamDown, CamStep, Feeding
<1>2. InertInv'
  BY <1>1 DEF CanvasInv, MixInv, InertInv, HasConsumer, storeVars, mixVars,
              uiVars
<1> QED
  BY <1>1, <1>2, NoMixInv DEF storeVars, outVars

-----------------------------------------------------------------------------
(* The theorems.                                                           *)

LEMMA NextCanvasInv == CanvasInv /\ [Next]_vars => CanvasInv'
<1> SUFFICES ASSUME CanvasInv, [Next]_vars PROVE CanvasInv'
  OBVIOUS
<1>1. ASSUME NEW b \in Binding, BindingStep(b) PROVE CanvasInv'
  BY <1>1, BindingPlainInv, BindingMixInv DEF CanvasInv
<1>2. ASSUME NEW b \in Binding, OutputStep(b) PROVE CanvasInv'
  BY <1>2, OutputPlainInv, OutputMixInv DEF CanvasInv
<1>3. CASE CanvasStep
  BY <1>3, CanvasPlainInv, CanvasMixInv DEF CanvasInv
<1>4. CASE UiStep
  BY <1>4, TaskPlainInv, TaskMixInv DEF CanvasInv
<1>5. CASE CamThread
  BY <1>5, CameraPlainInv, CameraMixInv DEF CanvasInv
<1>6. CASE UNCHANGED vars
  BY <1>6, StutterCanvasInv
<1> QED
  BY <1>1, <1>2, <1>3, <1>4, <1>5, <1>6 DEF Next

\* The invariant holds in every state, whatever the bindings and surfaces.
THEOREM CanvasInvariant == Spec => []CanvasInv
  BY InitCanvasInv, NextCanvasInv, PTL DEF Spec

\* The preview references are exactly those of the open surfaces and of the
\* camera's run (AddPreview and RemovePreview are paired).
THEOREM PreviewsBalanced == Spec => []RefsBalanced
<1>1. CanvasInv => RefsBalanced
  BY DEF CanvasInv, PlainInv, RefInv
<1> QED
  BY <1>1, CanvasInvariant, PTL

\* A running output's encoders are bound to the present mix, if the video of
\* the canvas can always be reset.
THEOREM OutputsServed ==
  ASSUME ~ResetMayFail
  PROVE  Spec => []MixServesOutputs
<1>1. CanvasInv => MixServesOutputs
  BY DEF CanvasInv, MixInv, ServeInv
<1> QED
  BY <1>1, CanvasInvariant, PTL

\* Under the same condition the cached encoders never outlive their mix.
THEOREM CacheFresh ==
  ASSUME ~ResetMayFail
  PROVE  Spec => []CachedFresh
<1>1. CanvasInv => CachedFresh
  BY DEF CanvasInv, MixInv, ServeInv, CachedFresh
<1> QED
  BY <1>1, CanvasInvariant, PTL

\* The camera keeps its mix until libobs took its output off it.
THEOREM CameraServed == Spec => []MixServesCamera
<1>1. CanvasInv => MixServesCamera
  BY DEF CanvasInv, MixInv, FeedInv, Feeding, MixServesCamera
<1> QED
  BY <1>1, CanvasInvariant, PTL

\* The camera's reference is returned once its output is down.
THEOREM CameraReturns == Spec => []CameraReferenceReturned
<1>1. CanvasInv => CameraReferenceReturned
  BY DEF CanvasInv, PlainInv, CamInv, Feeding, Idle, CameraReferenceReturned
<1> QED
  BY <1>1, CanvasInvariant, PTL

\* Between tasks a mix without a consumer is gone, unless a profile was
\* removed under a binding.
THEOREM InertDropped == Spec => []InertCanvasDropped
<1>1. CanvasInv => InertCanvasDropped
  BY DEF CanvasInv, MixInv, InertInv, Idle, InertCanvasDropped
<1> QED
  BY <1>1, CanvasInvariant, PTL

\* A reconcile spares an output that is active for the engine and for libobs.
LEMMA ReconcileSpares ==
  ASSUME CanvasInv, Reconcile, NEW b \in Binding,
         IsActiveState(entry'[b]), ObsOutputActive(b)'
  PROVE  uses'[b] = uses[b]
  BY ReconcileMix DEF CanvasInv, MixInv, DropDeferred, CanvasHasActiveOutput

\* A mix is never freed under encoders whose output the engine calls active
\* and libobs does too, removed profiles included (CanvasHasActiveOutput).
THEOREM DropWaits == Spec => DropWaitsForOutputs
<1>1. ASSUME CanvasInv, [Next]_vars, NEW b \in attached,
             IsActiveState(entry[b]), entry'[b] = entry[b],
             ObsOutputActive(b), uses[b] = "mix"
      PROVE  uses'[b] = "mix"
  <2> USE DEF storeVars, outVars, uiVars, camVars, postVars, mixVars
  <2>0. b \in Binding
    BY <1>1, Zenon DEF CanvasInv, PlainInv, PlainType
  <2>1. CASE uses' = uses
    BY <1>1, <2>1
  <2>2. CASE UNCHANGED <<phase, attached>> /\ Reconcile
    BY <1>1, <2>0, <2>2, ReconcileSpares DEF ObsOutputActive
  <2>3. CASE StopHandle
    <3>1. cur # b => phase'[b] = phase[b]
      BY <2>0, <2>3 DEF StopHandle, CanvasInv, PlainInv, PlainType
    <3>2. CASE Reconcile /\ entry' = [entry EXCEPT ![cur] = "idle"]
      <4>1. cur # b
        BY <1>1, <2>0, <3>2, Zenon
        DEF CanvasInv, PlainInv, PlainType, IsActiveState
      <4> QED
        BY <1>1, <2>0, <2>3, <3>1, <3>2, <4>1, ReconcileSpares
        DEF StopHandle, ObsOutputActive
    <3> QED
      BY <2>1, <2>3, <3>2 DEF StopHandle
  <2>4. CASE UpdateCanvas \/ RemoveCanvas
    BY <1>1, <2>0, <2>4, SMTT(30) DEF UpdateCanvas, RemoveCanvas, IsCanvasLive
  <2>5. ASSUME NEW c \in Binding, Begin(c)
        PROVE  uses'[b] = "mix"
    <3>1. c # b
      BY <1>1, <2>5, Zenon DEF Begin, BeginOutput, BeginElsewhere
    <3> QED
      BY <1>1, <2>0, <2>5, <3>1, SMTT(30)
      DEF Begin, BeginOutput, BeginElsewhere, CanvasInv, MixInv
  <2>6. CASE DestroyOutput
    BY <1>1, <2>0, <2>6, SMTT(30) DEF DestroyOutput, CanvasInv, MixInv
  <2>7. ASSUME NEW c \in Binding, BindingStep(c)
        PROVE  uses'[b] = "mix"
    BY <2>1, <2>2, <2>5, <2>7, SMTT(30)
    DEF BindingStep, CreateBinding, EnableBinding, DisableBinding,
        RemoveBinding, StopOutput, MoveBinding, RemoveProfile, StartOutput
  <2>8. ASSUME NEW c \in Binding, OutputStep(c)
        PROVE  uses'[b] = "mix"
    BY <2>1, <2>8, Zenon
    DEF OutputStep, HookEncoders, Connected, ConnectFailed, Dropped, GaveUp,
        StreamEnded, SignalWhileStopping, StopEncoders, Signalled
  <2>9. CASE CanvasStep
    BY <2>1, <2>2, <2>4, <2>9, Zenon
    DEF CanvasStep, OpenPreview, ClosePreview, CamStart, CamStop,
        SetTargetCanvas, ReleaseTarget
  <2>10. CASE UiStep
    <3>1. CASE AfterStop
      BY <2>1, <2>2, <3>1, SMTT(30) DEF AfterStop
    <3>2. CASE RestartOutput
      BY <1>1, <2>1, <2>5, <3>2, Zenon
      DEF RestartOutput, CanvasInv, PlainInv, TaskInv
    <3> QED
      BY <2>1, <2>2, <2>3, <2>6, <2>10, <3>1, <3>2
      DEF UiStep, ReconcilePosted, CamAdd, CamBind, CamFailed,
          CamReleasePosted, ReleaseTarget
  <2>11. CASE CamThread \/ UNCHANGED vars
    BY <2>1, <2>11
    DEF CamThread, CamEnds, CamDeactivated, CamDown, CamStep, vars
  <2> QED
    BY <1>1, <2>7, <2>8, <2>9, <2>10, <2>11 DEF Next
<1>2. CanvasInv /\ [Next]_vars
        => [\A b \in attached :
              /\ IsActiveState(entry[b]) /\ entry'[b] = entry[b]
              /\ ObsOutputActive(b)
              /\ uses[b] = "mix"
              => uses'[b] = "mix"]_vars
  BY <1>1
<1> QED
  BY <1>2, CanvasInvariant, PTL DEF Spec, DropWaitsForOutputs
=============================================================================
