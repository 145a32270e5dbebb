----------------------------- MODULE CanvasMix -----------------------------
(***************************************************************************)
(* The video mix of one additional canvas and everything that pulls frames *)
(* from it: the streaming outputs bound to the canvas, its preview         *)
(* surfaces and the virtual camera.  CanvasRuntime builds the mix when the *)
(* first consumer appears and frees it with the last; libobs frees it      *)
(* whoever still holds its video_t.                                        *)
(*                                                                         *)
(* UI tasks run one at a time.  A task that stops an output is split where *)
(* it waits for libobs, so that the output's own threads run in between.   *)
(* The outputs follow OutputPhases; a binding routed to another canvas     *)
(* only matters for what it leaves behind here.                            *)
(***************************************************************************)
EXTENDS Naturals

CONSTANTS
    Binding,        \* output bindings
    MaxSurfaces,    \* preview surfaces the windows open on the canvas
    ResetMayFail    \* obs_create_video_mix may fail in a reset

VARIABLES
    at,             \* at[b]: canvas the store routes b to, "none" without b
    enabled,        \* bindings whose enable flag is on
    pruned,         \* ghost: a profile was removed under a binding
    surfaces,       \* preview surfaces open on the canvas
    previewCount,   \* Entry.previewCount
    active,         \* Entry.active
    built,          \* the libobs canvas has a mix
    cached,         \* video_t the engine's cached encoder pair is bound to
    entry,          \* entry[b]: state of b's LiveOutput on this canvas
    phase,          \* phase[b]: phase of that output, as in OutputPhases
    attached,       \* bindings whose encoders are started on the mix
    uses,           \* uses[b]: video_t the encoders of b's output are bound to
    upc,            \* where the UI thread is, "idle" between two tasks
    cur,            \* binding the UI task works on, or "none"
    then,           \* what the UI task does once the output is destroyed
    posted,         \* onOutputStopped posted a reconcile to the UI thread
    target,         \* VirtualCamManager.targetCanvas_
    held,           \* heldCanvas_, "none" when no preview reference is held
    cam,            \* the virtual camera's output
    drained,        \* mediaDrained_
    camUses,        \* video_t the camera's output was given
    camPosted       \* a release of the camera's reference is posted

storeVars == <<at, enabled, pruned>>
mixVars == <<active, built, cached, uses, camUses>>
outVars == <<entry, phase, attached>>
uiVars == <<upc, cur, then>>
camVars == <<target, held, cam, drained>>
postVars == <<posted, camPosted>>
vars == <<storeVars, surfaces, previewCount, mixVars, outVars, uiVars, camVars,
          postVars>>

IsActiveState(s) == s \in {"connecting", "live", "reconnecting"}

\* Phases of an output that was started and neither ended nor asked to stop.
Running == {"connecting", "active", "retrying"}

\* What a video_t is: none, the canvas's present mix, a mix that was freed,
\* or the main video the camera falls back to.
Videos == {"none", "mix", "freed", "main"}

Init ==
    /\ at \in [Binding -> {"none", "here", "there"}]
    /\ enabled \in SUBSET {b \in Binding : at[b] # "none"}
    /\ pruned = FALSE
    /\ surfaces = 0
    /\ previewCount = 0
    /\ active \in {FALSE, \E b \in enabled : at[b] = "here"}
    /\ built = active
    /\ cached = "none"
    /\ entry = [b \in Binding |-> "none"]
    /\ phase = [b \in Binding |-> "none"]
    /\ attached = {}
    /\ uses = [b \in Binding |-> "none"]
    /\ upc = "idle"
    /\ cur = "none"
    /\ then = "idle"
    /\ posted = FALSE
    /\ target \in {"here", "main"}
    /\ held = "none"
    /\ cam = "off"
    /\ drained = FALSE
    /\ camUses = "none"
    /\ camPosted = FALSE

-----------------------------------------------------------------------------
(* CanvasRuntime: the mix follows its consumers.                           *)

\* IsActive: an enabled binding routed here, or a preview reference.
HasConsumer ==
    previewCount > 0 \/ \E b \in enabled : at[b] = "here"

\* obs_output_active of b's output: reconnecting, or capturing and no longer
\* in the gap before obs_output_begin_data_capture sets the flag.
ObsOutputActive(b) ==
    phase[b] = "retrying" \/ (b \in attached /\ phase[b] # "connecting")

\* MultistreamEngine::CanvasHasActiveOutput.
CanvasHasActiveOutput ==
    \E b \in Binding : IsActiveState(entry[b]) /\ ObsOutputActive(b)

\* A mix is freed: whoever was bound to it still is.
Freed(v) == IF v = "mix" THEN "freed" ELSE v

FreeMix ==
    /\ uses' = [b \in Binding |-> Freed(uses[b])]
    /\ camUses' = Freed(camUses)

\* obs_canvas_clear_video, and the engine drops its cached encoder pair.
DropMix ==
    /\ active' = FALSE
    /\ built' = FALSE
    /\ cached' = "none"
    /\ FreeMix

\* obs_canvas_ensure_video may fail; a new mix invalidates the encoders.
BuildMix ==
    \/ /\ active' = TRUE
       /\ built' = TRUE
       /\ cached' = "none"
       /\ UNCHANGED <<uses, camUses>>
    \/ /\ ~built
       /\ UNCHANGED mixVars

\* Mutant: the mix is dropped whatever the outputs do.
DropDeferredNever == FALSE

\* The drop waits for an output that is still active per libobs.
DropDeferred == CanvasHasActiveOutput

\* ReconcileEntry, after the step's own effects.
Reconcile ==
    \/ HasConsumer' = active /\ UNCHANGED mixVars
    \/ HasConsumer' /\ ~active /\ BuildMix
    \/ /\ ~HasConsumer' /\ active
       /\ IF DropDeferred' THEN UNCHANGED mixVars ELSE DropMix

-----------------------------------------------------------------------------
(* The binding store's operations, on the UI thread.                       *)

Idle == upc = "idle"

CreateBinding(b, c) ==
    /\ Idle
    /\ at[b] = "none"
    /\ entry[b] = "none"
    /\ at' = [at EXCEPT ![b] = c]
    /\ enabled' = enabled \cup {b}
    /\ UNCHANGED <<pruned, surfaces, previewCount, outVars, uiVars, camVars,
                   postVars>>
    /\ Reconcile

EnableBinding(b) ==
    /\ Idle
    /\ at[b] # "none"
    /\ enabled' = enabled \cup {b}
    /\ UNCHANGED <<at, pruned, surfaces, previewCount, outVars, uiVars,
                   camVars, postVars>>
    /\ Reconcile

\* StopOutput(b), a no-op without an entry, and what follows it.
StopThen(b, next) ==
    /\ upc' = IF entry[b] = "none" THEN "stopped" ELSE "stop"
    /\ cur' = b
    /\ then' = next

DisableBinding(b) ==
    /\ Idle
    /\ b \in enabled
    /\ enabled' = enabled \ {b}
    /\ StopThen(b, "reconcile")
    /\ UNCHANGED <<at, pruned, surfaces, previewCount, mixVars, outVars,
                   camVars, postVars>>

RemoveBinding(b) ==
    /\ Idle
    /\ at[b] # "none"
    /\ StopThen(b, "remove")
    /\ UNCHANGED <<storeVars, surfaces, previewCount, mixVars, outVars,
                   camVars, postVars>>

\* multistream.stopOutput.
StopOutput(b) ==
    /\ Idle
    /\ entry[b] # "none"
    /\ StopThen(b, "idle")
    /\ UNCHANGED <<storeVars, surfaces, previewCount, mixVars, outVars,
                   camVars, postVars>>

\* outputBinding.update to the other canvas: only a live output is stopped,
\* and restarted.  One that was live elsewhere has no entry here.
MoveBinding(b) ==
    /\ Idle
    /\ at[b] # "none"
    /\ \/ IsActiveState(entry[b]) /\ StopThen(b, "moveRestart")
       \/ /\ ~IsActiveState(entry[b])
          /\ upc' = "stopped"
          /\ cur' = b
          /\ then' \in IF at[b] = "there" /\ entry[b] = "none"
                      THEN {"move", "moveRestart"} ELSE {"move"}
    /\ UNCHANGED <<storeVars, surfaces, previewCount, mixVars, outVars,
                   camVars, postVars>>

\* streamProfile.remove: the profile's bindings leave the store, their outputs
\* and the mixes are left alone.
RemoveProfile(b) ==
    /\ Idle
    /\ at[b] # "none"
    /\ at' = [at EXCEPT ![b] = "none"]
    /\ enabled' = enabled \ {b}
    /\ pruned' = TRUE
    /\ UNCHANGED <<surfaces, previewCount, mixVars, outVars, uiVars, camVars,
                   postVars>>

\* obs_output_stop.  When nothing is left to send "stop" is signalled on this
\* thread: OnOutputStop runs here, and so does the reconcile it posts.
StopHandle ==
    /\ upc = "stop"
    /\ upc' = "destroy"
    /\ phase' = [phase EXCEPT ![cur] = IF @ \in Running THEN "stopping" ELSE @]
    /\ UNCHANGED <<storeVars, surfaces, previewCount, attached, cur, then,
                   camVars, postVars>>
    /\ \/ UNCHANGED <<entry, mixVars>>
       \/ /\ phase[cur] \in {"active", "retrying", "draining"}
          /\ entry' = [entry EXCEPT ![cur] = "idle"]
          /\ Reconcile

\* ~LiveOutput returns once libobs is through with the output.
DestroyOutput ==
    /\ upc = "destroy"
    /\ cur \notin attached
    /\ entry' = [entry EXCEPT ![cur] = "none"]
    /\ phase' = [phase EXCEPT ![cur] = "none"]
    /\ uses' = [uses EXCEPT ![cur] = "none"]
    /\ upc' = "stopped"
    /\ UNCHANGED <<storeVars, surfaces, previewCount, active, built, cached,
                   camUses, attached, cur, then, camVars, postVars>>

Elsewhere(c) == IF c = "here" THEN "there" ELSE "here"

\* Mutant: moving a binding reconciles only when its output is restarted.
ReconcilesOnRestart == then \in {"reconcile", "remove", "moveRestart"}

\* Every edit but a plain stop ends in a reconcile.
Reconciles == then # "idle"

\* The rest of the task: commit the edit, ReconcileAll, restart.
AfterStop ==
    /\ upc = "stopped"
    /\ at' = [at EXCEPT ![cur] =
                 CASE then = "remove" -> "none"
                   [] then \in {"move", "moveRestart"} -> Elsewhere(@)
                   [] OTHER -> @]
    /\ enabled' = IF then = "remove" THEN enabled \ {cur} ELSE enabled
    /\ upc' = IF then = "moveRestart" THEN "restart" ELSE "idle"
    /\ cur' = IF then = "moveRestart" THEN cur ELSE "none"
    /\ then' = "idle"
    /\ UNCHANGED <<pruned, surfaces, previewCount, outVars, camVars, postVars>>
    /\ IF Reconciles THEN Reconcile ELSE UNCHANGED mixVars

-----------------------------------------------------------------------------
(* StartOutput, on the UI thread.                                          *)

\* EnsureCanvasEncoders: the cached pair, or a new one on the present mix.
Encoders == IF cached # "none" THEN cached ELSE IF built THEN "mix" ELSE "none"

\* A dead entry is reaped first, which waits for its output; then the start
\* is refused or the output connects with the canvas's encoders.
BeginOutput(b) ==
    /\ ~IsActiveState(entry[b])
    /\ b \notin attached
    /\ \/ /\ entry' = [entry EXCEPT ![b] = "error"]
          /\ phase' = [phase EXCEPT ![b] = "none"]
          /\ uses' = [uses EXCEPT ![b] = "none"]
          /\ cached' \in {cached, Encoders}
       \/ /\ Encoders # "none"
          /\ cached' = Encoders
          /\ entry' = [entry EXCEPT ![b] = "connecting"]
          /\ phase' = [phase EXCEPT ![b] = "connecting"]
          /\ uses' = [uses EXCEPT ![b] = Encoders]
    /\ UNCHANGED <<active, built, camUses, attached>>

\* The entry of an output moved elsewhere is reaped by its next start there.
BeginElsewhere(b) ==
    /\ ~IsActiveState(entry[b])
    /\ b \notin attached
    /\ entry' = [entry EXCEPT ![b] = "none"]
    /\ phase' = [phase EXCEPT ![b] = "none"]
    /\ uses' = [uses EXCEPT ![b] = "none"]
    /\ UNCHANGED <<active, built, cached, camUses, attached>>

Begin(b) == IF at[b] = "here" THEN BeginOutput(b) ELSE BeginElsewhere(b)

StartOutput(b) ==
    /\ Idle
    /\ b \in enabled
    /\ Begin(b)
    /\ UNCHANGED <<storeVars, surfaces, previewCount, uiVars, camVars,
                   postVars>>

\* outputBinding.update starts the moved output again if it is still enabled.
RestartOutput ==
    /\ upc = "restart"
    /\ upc' = "idle"
    /\ cur' = "none"
    /\ IF cur \in enabled THEN Begin(cur) ELSE UNCHANGED <<mixVars, outVars>>
    /\ UNCHANGED <<storeVars, surfaces, previewCount, then, camVars, postVars>>

-----------------------------------------------------------------------------
(* The outputs' threads and the engine's signal handlers.                  *)

\* b's output enters phase p and its handler writes the entry state s; an
\* ended one posts the reconcile of its canvas.
Signalled(b, p, s) ==
    /\ phase' = [phase EXCEPT ![b] = p]
    /\ entry' = [entry EXCEPT ![b] = IF @ = "none" THEN @ ELSE s]
    /\ posted' = (posted \/ s \in {"idle", "error"})
    /\ UNCHANGED <<storeVars, surfaces, previewCount, mixVars, uiVars, camVars,
                   camPosted>>

\* hook_data_capture starts the encoders on the video_t they are bound to.
HookEncoders(b) ==
    /\ phase[b] = "connecting"
    /\ b \notin attached
    /\ attached' = attached \cup {b}
    /\ UNCHANGED <<storeVars, surfaces, previewCount, mixVars, entry, phase,
                   uiVars, camVars, postVars>>

\* A first capture is active and announced; a retry's comes all at once, the
\* output being active as a reconnecting one meanwhile.
Connected(b) ==
    /\ \/ phase[b] = "connecting" /\ b \in attached
       \/ phase[b] = "retrying" /\ b \notin attached
    /\ attached' = attached \cup {b}
    /\ Signalled(b, "active", "live")

ConnectFailed(b) ==
    /\ phase[b] = "connecting"
    /\ b \notin attached
    /\ Signalled(b, "down", "error")
    /\ UNCHANGED attached

Dropped(b) ==
    /\ phase[b] = "active"
    /\ Signalled(b, "retrying", "reconnecting")
    /\ UNCHANGED attached

GaveUp(b) ==
    /\ phase[b] = "retrying"
    /\ b \notin attached
    /\ Signalled(b, "down", "error")
    /\ UNCHANGED attached

\* "stop" is signalled while the encoders are still being detached.
StreamEnded(b) ==
    /\ phase[b] = "active"
    /\ Signalled(b, "draining", "error")
    /\ UNCHANGED attached

\* After a requested stop any signal may still come, until the entry is gone.
SignalWhileStopping(b) ==
    /\ phase[b] = "stopping"
    /\ \E s \in {"live", "reconnecting", "idle", "error"} :
           /\ Signalled(b, "stopping", s)
           /\ attached' \in {attached, IF s = "live" THEN attached \cup {b}
                                                   ELSE attached}

\* end_data_capture_thread detaches the encoders.
StopEncoders(b) ==
    /\ b \in attached
    /\ phase[b] \in {"retrying", "stopping", "draining"}
    /\ attached' = attached \ {b}
    /\ phase' = [phase EXCEPT ![b] = IF @ = "draining" THEN "down" ELSE @]
    /\ UNCHANGED <<storeVars, surfaces, previewCount, mixVars, entry, uiVars,
                   camVars, postVars>>

\* The reconcile posted by onOutputStopped runs.
ReconcilePosted ==
    /\ Idle
    /\ posted
    /\ posted' = FALSE
    /\ UNCHANGED <<storeVars, surfaces, previewCount, outVars, uiVars, camVars,
                   camPosted>>
    /\ Reconcile

-----------------------------------------------------------------------------
(* Preview surfaces, and edits of the canvas itself.                       *)

\* CanvasRuntime::RemovePreview: a reference less, never below none.
OneLess(n) == IF n > 0 THEN n - 1 ELSE n

OpenPreview ==
    /\ Idle
    /\ surfaces < MaxSurfaces
    /\ surfaces' = surfaces + 1
    /\ previewCount' = previewCount + 1
    /\ UNCHANGED <<storeVars, outVars, uiVars, camVars, postVars>>
    /\ Reconcile

ClosePreview ==
    /\ Idle
    /\ surfaces > 0
    /\ surfaces' = surfaces - 1
    /\ previewCount' = OneLess(previewCount)
    /\ UNCHANGED <<storeVars, outVars, uiVars, camVars, postVars>>
    /\ Reconcile

\* Mutant: only the camera is asked.
IsCanvasLiveCamera == held = "here"

\* MultistreamEngine::IsCanvasLive.
IsCanvasLive == held = "here" \/ \E b \in Binding : IsActiveState(entry[b])

\* obs_canvas_reset_video: refused while any output captures video, else the
\* mix is replaced, and lost when the new one cannot be created.
ResetVideo ==
    \/ /\ attached = {} /\ cam = "off"
       /\ cached' = "none"
       /\ FreeMix
       /\ UNCHANGED <<active, built>>
    \/ /\ attached = {} /\ cam = "off" /\ ResetMayFail
       /\ built' = FALSE
       /\ cached' = Freed(cached)
       /\ FreeMix
       /\ UNCHANGED active

\* canvas.update of the resolution, the color or an encoder.
UpdateCanvas ==
    /\ Idle
    /\ ~IsCanvasLive
    /\ IF active
       THEN ResetVideo
       ELSE cached' = "none" /\ UNCHANGED <<active, built, uses, camUses>>
    /\ UNCHANGED <<storeVars, surfaces, previewCount, outVars, uiVars, camVars,
                   postVars>>

\* canvas.remove: the surfaces, the mix and the bindings routed to it go; a
\* canvas added later takes its place, and the camera's target is unknown.
RemoveCanvas ==
    /\ Idle
    /\ ~IsCanvasLive
    /\ surfaces' = 0
    /\ previewCount' = 0
    /\ DropMix
    /\ at' = [b \in Binding |-> IF at[b] = "here" THEN "none" ELSE at[b]]
    /\ enabled' = {b \in enabled : at[b] # "here"}
    /\ target' = "main"
    /\ UNCHANGED <<pruned, outVars, uiVars, held, cam, drained, postVars>>

-----------------------------------------------------------------------------
(* VirtualCamManager: one preview reference per run of the camera.         *)

\* The camera's output still pulls frames, as ReleaseTargetPreview sees it.
CamFeeds == cam # "off" /\ ~drained

\* ReleaseTargetPreview: deferred while the output is pulling frames.
ReleaseTarget ==
    IF held = "none" \/ CamFeeds'
    THEN UNCHANGED <<previewCount, held, mixVars>>
    ELSE /\ previewCount' = IF held = "here" THEN OneLess(previewCount)
                                            ELSE previewCount
         /\ held' = "none"
         /\ Reconcile

\* Start while the output is down: release what an earlier run still holds
\* and create the output, which may fail,
CamStart ==
    /\ Idle
    /\ cam = "off"
    /\ upc' \in {"camAdd", "idle"}
    /\ UNCHANGED <<storeVars, surfaces, outVars, cur, then, target, cam,
                   drained, postVars>>
    /\ ReleaseTarget

\* take a reference on the target,
CamAdd ==
    /\ upc = "camAdd"
    /\ upc' = "camBind"
    /\ held' = target
    /\ previewCount' = IF target = "here" THEN previewCount + 1
                                          ELSE previewCount
    /\ UNCHANGED <<storeVars, surfaces, outVars, cur, then, target, cam,
                   drained, postVars>>
    /\ Reconcile

\* Mutant: the drain of the last run still counts for this one.
CamBindStaleDrain ==
    /\ upc = "camBind"
    /\ camUses' = IF target = "here" /\ built THEN "mix" ELSE "main"
    /\ \/ cam' = "up" /\ upc' = "idle"
       \/ UNCHANGED cam /\ upc' = "camFailed"
    /\ UNCHANGED <<storeVars, surfaces, previewCount, active, built, cached,
                   uses, outVars, cur, then, target, held, drained, postVars>>

\* bind the output to the target's mix and start it.
CamBind ==
    /\ upc = "camBind"
    /\ drained' = FALSE
    /\ camUses' = IF target = "here" /\ built THEN "mix" ELSE "main"
    /\ \/ cam' = "up" /\ upc' = "idle"
       \/ UNCHANGED cam /\ upc' = "camFailed"
    /\ UNCHANGED <<storeVars, surfaces, previewCount, active, built, cached,
                   uses, outVars, cur, then, target, held, postVars>>

CamFailed ==
    /\ upc = "camFailed"
    /\ upc' = "idle"
    /\ UNCHANGED <<storeVars, surfaces, outVars, cur, then, target, cam,
                   drained, postVars>>
    /\ ReleaseTarget

CamStop ==
    /\ Idle
    /\ cam' = IF cam = "up" THEN "ending" ELSE cam
    /\ UNCHANGED <<storeVars, surfaces, outVars, uiVars, target, drained,
                   postVars>>
    /\ ReleaseTarget

SetTargetCanvas(c) ==
    /\ Idle
    /\ target' = c
    /\ UNCHANGED <<storeVars, surfaces, previewCount, mixVars, outVars, uiVars,
                   held, cam, drained, postVars>>

CamStep(from, to, flag, post) ==
    /\ cam = from
    /\ cam' = to
    /\ drained' = flag
    /\ camPosted' = post
    /\ UNCHANGED <<storeVars, surfaces, previewCount, mixVars, outVars, uiVars,
                   target, held, posted>>

\* The next frame ends the capture: "stop".
CamEnds == CamStep("ending", "draining", drained, TRUE)

\* Mutant: only "stop" posts the release.
CamDeactivatedSilent == CamStep("draining", "drained", TRUE, camPosted)

\* The drain took the output off the mix: "deactivate".
CamDeactivated == CamStep("draining", "drained", TRUE, TRUE)

CamDown == CamStep("drained", "off", drained, camPosted)

CamReleasePosted ==
    /\ Idle
    /\ camPosted
    /\ camPosted' = FALSE
    /\ UNCHANGED <<storeVars, surfaces, outVars, uiVars, target, cam, drained,
                   posted>>
    /\ ReleaseTarget

-----------------------------------------------------------------------------
(* The specification.                                                      *)

BindingStep(b) ==
    \/ \E c \in {"here", "there"} : CreateBinding(b, c)
    \/ EnableBinding(b)
    \/ DisableBinding(b)
    \/ RemoveBinding(b)
    \/ StopOutput(b)
    \/ MoveBinding(b)
    \/ RemoveProfile(b)
    \/ StartOutput(b)

OutputStep(b) ==
    \/ HookEncoders(b)
    \/ Connected(b)
    \/ ConnectFailed(b)
    \/ Dropped(b)
    \/ GaveUp(b)
    \/ StreamEnded(b)
    \/ SignalWhileStopping(b)
    \/ StopEncoders(b)

CanvasStep ==
    \/ OpenPreview
    \/ ClosePreview
    \/ UpdateCanvas
    \/ RemoveCanvas
    \/ CamStart
    \/ CamStop
    \/ \E c \in {"here", "main"} : SetTargetCanvas(c)

UiStep ==
    \/ StopHandle
    \/ DestroyOutput
    \/ AfterStop
    \/ RestartOutput
    \/ ReconcilePosted
    \/ CamAdd
    \/ CamBind
    \/ CamFailed
    \/ CamReleasePosted

CamThread == CamEnds \/ CamDeactivated \/ CamDown

Next ==
    \/ \E b \in Binding : BindingStep(b) \/ OutputStep(b)
    \/ CanvasStep
    \/ UiStep
    \/ CamThread

Spec == Init /\ [][Next]_vars

-----------------------------------------------------------------------------
(* Properties.                                                             *)

\* Every variable ranges over the values the code can give it.
TypeOK ==
    /\ at \in [Binding -> {"none", "here", "there"}]
    /\ enabled \in SUBSET Binding
    /\ surfaces \in 0..MaxSurfaces
    /\ previewCount \in Nat
    /\ {pruned, active, built, drained, posted, camPosted} \subseteq BOOLEAN
    /\ {cached, camUses} \subseteq Videos
    /\ entry \in [Binding -> {"none", "idle", "error", "connecting", "live",
                             "reconnecting"}]
    /\ phase \in [Binding -> Running \cup {"none", "stopping", "draining",
                                          "down"}]
    /\ attached \in SUBSET Binding
    /\ uses \in [Binding -> Videos]
    /\ upc \in {"idle", "stop", "destroy", "stopped", "restart", "camAdd",
               "camBind", "camFailed"}
    /\ cur \in Binding \cup {"none"}
    /\ then \in {"idle", "reconcile", "remove", "move", "moveRestart"}
    /\ target \in {"here", "main"}
    /\ held \in {"none", "here", "main"}
    /\ cam \in {"off", "up", "ending", "draining", "drained"}

\* The preview references are exactly those of the open surfaces and of the
\* camera's run: none is leaked or taken twice by a change of the camera's
\* target between two runs, a failed start or a late release.
RefsBalanced ==
    previewCount = surfaces + (IF held = "here" THEN 1 ELSE 0)

\* From the start of its output to the stop or the end, a bound destination's
\* encoders are bound to the present mix, through every drop, rebuild and reset
\* of it: edits are refused while the canvas is live, and the cached pair never
\* outlives its mix.
MixServesOutputs ==
    \A b \in Binding :
        phase[b] \in Running /\ at[b] = "here" => uses[b] = "mix"

\* A mix is never freed under encoders whose output the engine calls active
\* and libobs does too, an output whose profile was removed included.
DropWaitsForOutputs ==
    [][\A b \in attached :
          /\ IsActiveState(entry[b]) /\ entry'[b] = entry[b]
          /\ ObsOutputActive(b)
          /\ uses[b] = "mix"
          => uses'[b] = "mix"]_vars

\* The camera keeps its mix until libobs took its output off it, although the
\* output is still active then and stops by itself (mediaDrained_).
MixServesCamera == cam \in {"up", "ending", "draining"} => camUses # "freed"

\* Once the camera's output is down and its posts have run, no reference is
\* held for it: the release that Stop and the "stop" signal found too early
\* was made up for by "deactivate" (OnStop, OnDeactivate).
CameraReferenceReturned == Idle /\ cam = "off" /\ ~camPosted => held = "none"

\* The engine never keeps an encoder pair of a mix that is gone.
CachedFresh == cached # "freed"

\* A canvas nobody needs is not composited: with no task or post pending and
\* no preview, camera or enabled binding the mix is gone, a drop that had to
\* wait for an output included.  streamProfile.remove is the exception: it
\* takes the bindings away and reconciles nothing.
InertCanvasDropped ==
    Idle /\ ~posted /\ ~camPosted /\ ~pruned /\ active => HasConsumer

\* Every output that is going out has a binding the UI can stop it by, as the
\* comment in MethodOutputBindingRemove asks.  MethodStreamProfileRemove breaks
\* it: it prunes the bindings of a live profile and stops nothing.
OutputHasBinding ==
    \A b \in Binding : IsActiveState(entry[b]) => at[b] # "none"
=============================================================================
