-------------------------- MODULE MultistreamEngine --------------------------
(***************************************************************************)
(* The fan-out engine of frontend/src/multistream: one streaming output    *)
(* per enabled binding of a stream profile to a canvas.                    *)
(*                                                                         *)
(* The UI thread runs every operation (StartOutput, StopOutput, StopAll,   *)
(* StartAllEnabled and the bridge methods that call them) as a sequence of *)
(* atomic sections, one section per liveMutex scope or libobs call.  The   *)
(* libobs output of a binding runs beside it and dispatches the signals    *)
(* start, reconnect, reconnect_success and stop to the engine's handlers   *)
(* on its own threads, one dispatch at a time per output.                  *)
(***************************************************************************)

CONSTANTS
    Binding,    \* output bindings (uuids of the binding store)
    Profile,    \* stream profiles, each holding one stream key
    None        \* no binding, no profile

ASSUME NoneAssumption == None \notin Binding /\ None \notin Profile

VARIABLES
    enabled,    \* set of bindings whose enable flag is on
    profile,    \* profile[b]: profile the binding store routes b to
    entry,      \* entry[b]: state of b's LiveOutput in `live`, "none" without one
    held,       \* held[b]: profile copied into b's LiveOutput until it is destroyed
    wentLive,   \* bindings whose output reached the platform this session
    inhibit,    \* the OS sleep inhibitor is held
    handle,     \* handle[b]: phase of b's libobs output
    sig,        \* sig[b]: signal being dispatched to the engine for b
    saw,        \* saw[b]: AnyLive as b's stop handler read it
    matched,    \* matched[b]: b's stop handler found its entry in `live`
    upc,        \* where the UI thread is; "idle" between two tasks
    uret,       \* where the UI thread continues after UpdateSleepInhibit
    usaw,       \* AnyLive as the UI thread read it
    cur,        \* binding StartOutput (or a synchronous stop) works on
    todo,       \* bindings a loop of the UI thread has still to visit
    halt,       \* bindings the running StopOutput or StopAll takes down
    stopAll,    \* the running stop is StopAll
    after,      \* what the UI task does once the running StopOutput returned
    pick,       \* profile the running outputBinding.update commits
    unreported  \* bindings whose output ended, onOutputEnded not yet called

storeVars == <<enabled, profile>>
liveVars == <<entry, held, wentLive>>
handlerVars == <<sig, saw, matched>>
stopVars == <<halt, stopAll, after, pick>>
uiVars == <<upc, uret, usaw, cur, todo, stopVars>>
vars == <<storeVars, liveVars, inhibit, handle, handlerVars, uiVars, unreported>>

EntryStates == {"none", "idle", "connecting", "live", "error", "reconnecting"}

IsActiveState(s) == s \in {"connecting", "live", "reconnecting"}

\* Phases of a libobs output: "ready" created and not started, "connecting"
\* until the first data, "active", "retrying" between a drop and the
\* reconnect, "stopping" asked to stop, "draining" stopped on the wire with
\* its encoders still attached, "down" fully inactive.
HandleStates == {"none", "ready", "connecting", "active", "retrying",
                 "stopping", "draining", "down"}

\* Phases of an output that was started and neither ended nor asked to stop.
Running == {"connecting", "active", "retrying"}

\* Phases in which the output uses, or is about to use, its stream key.
OnAir == Running \cup {"stopping"}

\* A signal waiting for its handler's lock, then the tail of OnOutputStop.
StopSignals == {"stopOk", "stopError"}
StopTail == {"read", "set", "report"}
Signals == {"none", "start", "reconnect", "reconnectSuccess"}
              \cup StopSignals \cup StopTail

UiPcs == {"idle", "loop", "enter", "reap", "check", "refuse", "push", "start",
          "startFailed", "read", "set", "stopping", "syncReport", "take",
          "report", "destroy"}

\* Mutant: ~LiveOutput runs inside the lock scope.
LockedPcsDestroy == {"reap", "destroy"}

\* UI program points at which liveMutex stays held across a blocking call:
\* none, every lock scope is closed before obs_output_stop, obs_output_start
\* and ~LiveOutput run.
LockedPcs == {}

-----------------------------------------------------------------------------
(* Queries of the engine and of the binding store.                         *)

AnyLive == \E b \in Binding : IsActiveState(entry[b])

\* Mutant: only an output that is up reserves its profile.
ProfileLiveElsewhereSettled(b) ==
    \E c \in Binding \ {b} : entry[c] = "live" /\ held[c] = profile[b]

ProfileLiveElsewhere(b) ==
    \E c \in Binding \ {b} : IsActiveState(entry[c]) /\ held[c] = profile[b]

ProfileEnabledElsewhere(b, p) ==
    \E c \in Binding \ {b} : c \in enabled /\ profile[c] = p

\* Between two user requests the UI thread is in no task.
UiIdle == upc = "idle"

\* The flags are whatever the persisted bindings file holds.
Init ==
    /\ enabled \in SUBSET Binding
    /\ profile \in [Binding -> Profile]
    /\ entry = [b \in Binding |-> "none"]
    /\ held = [b \in Binding |-> None]
    /\ wentLive = {}
    /\ inhibit = FALSE
    /\ handle = [b \in Binding |-> "none"]
    /\ sig = [b \in Binding |-> "none"]
    /\ saw = [b \in Binding |-> FALSE]
    /\ matched = [b \in Binding |-> FALSE]
    /\ upc = "idle"
    /\ uret = "idle"
    /\ usaw = FALSE
    /\ cur = None
    /\ todo = {}
    /\ halt = {}
    /\ stopAll = FALSE
    /\ after = "idle"
    /\ pick = None
    /\ unreported = {}

-----------------------------------------------------------------------------
(* StartOutput and StartAllEnabled, on the UI thread.                      *)

\* Mutant: every go-live clears the marks.
SessionMarksCleared == {}

\* The marks a go-live keeps: all of them while the session is running.
SessionMarks == IF AnyLive THEN wentLive ELSE {}

\* streaming.start, hotkey, tray, scheduler: test and clear wentLive in one
\* critical section, then visit every binding.
StartAllEnabled ==
    /\ UiIdle
    /\ wentLive' = SessionMarks
    /\ todo' = Binding
    /\ upc' = "loop"
    /\ UNCHANGED <<storeVars, entry, held, inhibit, handle, handlerVars,
                   uret, usaw, cur, stopVars, unreported>>

\* One turn of the loop; the order of the bindings is the store's.
VisitBinding(b) ==
    /\ upc = "loop"
    /\ b \in todo
    /\ todo' = todo \ {b}
    /\ IF b \in enabled THEN cur' = b /\ upc' = "enter"
                       ELSE UNCHANGED <<cur, upc>>
    /\ UNCHANGED <<storeVars, liveVars, inhibit, handle, handlerVars, uret,
                   usaw, stopVars, unreported>>

StartReturns ==
    /\ upc = "loop"
    /\ todo = {}
    /\ upc' = "idle"
    /\ cur' = None
    /\ UNCHANGED <<storeVars, liveVars, inhibit, handle, handlerVars, uret,
                   usaw, todo, stopVars, unreported>>

\* A destination joins a running broadcast; nothing is cleared.
ArmBindingLive(b) ==
    /\ UiIdle
    /\ ~IsActiveState(entry[b])
    /\ AnyLive
    /\ b \in enabled
    /\ cur' = b
    /\ upc' = "enter"
    /\ UNCHANGED <<storeVars, liveVars, inhibit, handle, handlerVars, uret,
                   usaw, todo, stopVars, unreported>>

\* An active entry needs no action, a dead one is taken out under the lock.
StartEnter ==
    /\ upc = "enter"
    /\ \/ /\ IsActiveState(entry[cur])
          /\ upc' = "loop"
          /\ UNCHANGED entry
       \/ /\ entry[cur] \in {"idle", "error"}
          /\ entry' = [entry EXCEPT ![cur] = "none"]
          /\ upc' = "reap"
       \/ /\ entry[cur] = "none"
          /\ upc' = "check"
          /\ UNCHANGED entry
    /\ UNCHANGED <<storeVars, held, wentLive, inhibit, handle, handlerVars, uret,
                   usaw, cur, todo, stopVars, unreported>>

\* ~LiveOutput of the reaped entry: disconnecting its signals waits for a
\* running dispatch, releasing the output waits for libobs to wind it down.
Reap ==
    /\ upc = "reap"
    /\ sig[cur] = "none"
    /\ handle' = [handle EXCEPT ![cur] = "none"]
    /\ held' = [held EXCEPT ![cur] = None]
    /\ upc' = "check"
    /\ UNCHANGED <<storeVars, entry, wentLive, inhibit, handlerVars, uret, usaw, cur,
                   todo, stopVars, unreported>>

\* The gates: the profile must not be live elsewhere; credentials, codec,
\* encoders, service and output creation may each refuse.
CheckGates ==
    /\ upc = "check"
    /\ upc' \in (IF ProfileLiveElsewhere(cur) THEN {"refuse"}
                                            ELSE {"refuse", "push"})
    /\ UNCHANGED <<storeVars, liveVars, inhibit, handle, handlerVars, uret,
                   usaw, cur, todo, stopVars, unreported>>

\* The fail lambda: an Error entry without an output.
Refuse ==
    /\ upc = "refuse"
    /\ entry' = [entry EXCEPT ![cur] = "error"]
    /\ held' = [held EXCEPT ![cur] = profile[cur]]
    /\ upc' = "read"
    /\ uret' = "loop"
    /\ UNCHANGED <<storeVars, wentLive, inhibit, handle, handlerVars, usaw,
                   cur, todo, stopVars, unreported>>

PushConnecting ==
    /\ upc = "push"
    /\ entry' = [entry EXCEPT ![cur] = "connecting"]
    /\ held' = [held EXCEPT ![cur] = profile[cur]]
    /\ handle' = [handle EXCEPT ![cur] = "ready"]
    /\ upc' = "read"
    /\ uret' = "start"
    /\ UNCHANGED <<storeVars, wentLive, inhibit, handlerVars, usaw, cur, todo,
                   stopVars, unreported>>

\* obs_output_start accepts (the connect is asynchronous) or fails at once.
StartHandle ==
    /\ upc = "start"
    /\ \/ /\ handle' = [handle EXCEPT ![cur] = "connecting"]
          /\ upc' = "loop"
       \/ /\ handle' = [handle EXCEPT ![cur] = "down"]
          /\ upc' = "startFailed"
    /\ UNCHANGED <<storeVars, liveVars, inhibit, handlerVars, uret, usaw, cur,
                   todo, stopVars, unreported>>

\* Mutant: a synchronous start failure leaves the row connecting.
StartFailedKeepsState ==
    /\ upc = "startFailed"
    /\ UNCHANGED entry
    /\ upc' = "read"
    /\ uret' = "loop"
    /\ UNCHANGED <<storeVars, held, wentLive, inhibit, handle, handlerVars,
                   usaw, cur, todo, stopVars, unreported>>

StartFailed ==
    /\ upc = "startFailed"
    /\ entry' = [entry EXCEPT ![cur] = "error"]
    /\ upc' = "read"
    /\ uret' = "loop"
    /\ UNCHANGED <<storeVars, held, wentLive, inhibit, handle, handlerVars,
                   usaw, cur, todo, stopVars, unreported>>

-----------------------------------------------------------------------------
(* UpdateSleepInhibit on the UI thread: AnyLive is read under the lock and *)
(* the inhibitor is set after it is released.                              *)

UiReadAnyLive ==
    /\ upc = "read"
    /\ usaw' = AnyLive
    /\ upc' = "set"
    /\ UNCHANGED <<storeVars, liveVars, inhibit, handle, handlerVars, uret,
                   cur, todo, stopVars, unreported>>

UiSetInhibit ==
    /\ upc = "set"
    /\ inhibit' = usaw
    /\ usaw' = FALSE
    /\ upc' = uret
    /\ uret' = "idle"
    /\ UNCHANGED <<storeVars, liveVars, handle, handlerVars, cur, todo,
                   stopVars, unreported>>

-----------------------------------------------------------------------------
(* StopOutput, StopAll and the bridge methods that call StopOutput.        *)

\* Both collect the entries under the lock, then stop the outputs outside it.
BeginStop(bs, b, all, then) ==
    /\ halt' = bs
    /\ todo' = bs
    /\ cur' = b
    /\ stopAll' = all
    /\ after' = then
    /\ upc' = "stopping"
    /\ UNCHANGED <<uret, usaw>>

\* Mutant: only an output that is up is found.
HasLiveSettled(b) == entry[b] = "live"

\* FindLive: the binding has an entry, in whatever state.
HasLive(b) == entry[b] # "none"

StopOutput(b) ==
    /\ UiIdle
    /\ HasLive(b)
    /\ BeginStop({b}, b, FALSE, "idle")
    /\ UNCHANGED <<storeVars, liveVars, inhibit, handle, handlerVars, pick,
                   unreported>>

StopAll ==
    /\ UiIdle
    /\ BeginStop({b \in Binding : entry[b] # "none"}, None, TRUE, "idle")
    /\ UNCHANGED <<storeVars, liveVars, inhibit, handle, handlerVars, pick,
                   unreported>>

EnableBinding(b) ==
    /\ UiIdle
    /\ b \notin enabled
    /\ ~ProfileEnabledElsewhere(b, profile[b])
    /\ enabled' = enabled \cup {b}
    /\ UNCHANGED <<profile, liveVars, inhibit, handle, handlerVars, uiVars,
                   unreported>>

\* A disabled binding must not stay live: the flag drops, then StopOutput.
DisableBinding(b) ==
    /\ UiIdle
    /\ b \in enabled
    /\ enabled' = enabled \ {b}
    /\ IF HasLive(b) THEN BeginStop({b}, b, FALSE, "idle")
                     ELSE UNCHANGED <<upc, uret, usaw, cur, todo, halt,
                                      stopAll, after>>
    /\ UNCHANGED <<profile, liveVars, inhibit, handle, handlerVars, pick,
                   unreported>>

\* outputBinding.update with another profile: a live output is stopped before
\* the new pair is committed and is not restarted.
UpdateProfile(b, p) ==
    /\ UiIdle
    /\ p # profile[b]
    /\ ~(b \in enabled /\ ProfileEnabledElsewhere(b, p))
    /\ IF IsActiveState(entry[b])
       THEN /\ BeginStop({b}, b, FALSE, "commit")
            /\ pick' = p
            /\ UNCHANGED profile
       ELSE /\ profile' = [profile EXCEPT ![b] = p]
            /\ UNCHANGED uiVars
    /\ UNCHANGED <<enabled, liveVars, inhibit, handle, handlerVars, unreported>>

\* outputBinding.update with another canvas only: stop, then start again.
MoveCanvas(b) ==
    /\ UiIdle
    /\ IsActiveState(entry[b])
    /\ ~(b \in enabled /\ ProfileEnabledElsewhere(b, profile[b]))
    /\ BeginStop({b}, b, FALSE, "restart")
    /\ UNCHANGED <<storeVars, liveVars, inhibit, handle, handlerVars, pick,
                   unreported>>

\* obs_output_stop.  A running output is asked to stop; one still connecting
\* ignores the call and is only stopped by ~LiveOutput.  When nothing is left
\* to send (it is reconnecting, its capture is ending), "stop" is signalled on
\* this very thread: OnOutputStop runs here, its tail is the "read" section.
StopHandle(b) ==
    /\ upc = "stopping"
    /\ b \in todo
    /\ todo' = todo \ {b}
    /\ handle' = [handle EXCEPT ![b] = IF @ \in Running THEN "stopping" ELSE @]
    /\ \/ UNCHANGED <<entry, unreported, cur, upc, uret>>
       \/ /\ handle[b] \in {"active", "retrying", "draining"}
          /\ entry' = [entry EXCEPT ![b] = "idle"]
          /\ unreported' = IF IsActiveState(entry[b]) THEN unreported \cup {b}
                                                     ELSE unreported
          /\ cur' = b
          /\ upc' = "read"
          /\ uret' = "syncReport"
    /\ UNCHANGED <<storeVars, held, wentLive, inhibit, handlerVars, usaw,
                   stopVars>>

SyncReport ==
    /\ upc = "syncReport"
    /\ unreported' = unreported \ {cur}
    /\ upc' = "stopping"
    /\ UNCHANGED <<storeVars, liveVars, inhibit, handle, handlerVars, uret,
                   usaw, cur, todo, stopVars>>

\* The entries leave `live` in one critical section; StopAll also ends the
\* session's wentLive.
TakeLive ==
    /\ upc = "stopping"
    /\ todo = {}
    /\ entry' = [b \in Binding |-> IF b \in halt THEN "none" ELSE entry[b]]
    /\ wentLive' = IF stopAll THEN {} ELSE wentLive
    /\ unreported' = unreported \cup {b \in halt : IsActiveState(entry[b])}
    /\ upc' = "read"
    /\ uret' = "report"
    /\ UNCHANGED <<storeVars, held, inhibit, handle, handlerVars, usaw, cur,
                   todo, stopVars>>

\* Mutant: StopAll does not report the endings.
EndedSingle == IF stopAll THEN {} ELSE halt

\* The bindings onOutputEnded is called for when a stop returns.
Ended == halt

ReportEnded ==
    /\ upc = "report"
    /\ unreported' = unreported \ Ended
    /\ upc' = "destroy"
    /\ UNCHANGED <<storeVars, liveVars, inhibit, handle, handlerVars, uret,
                   usaw, cur, todo, stopVars>>

\* ~LiveOutput of a taken entry, outside the lock (see Reap).
DestroyOutput(b) ==
    /\ upc = "destroy"
    /\ b \in halt
    /\ sig[b] = "none"
    /\ handle' = [handle EXCEPT ![b] = "none"]
    /\ held' = [held EXCEPT ![b] = None]
    /\ halt' = halt \ {b}
    /\ UNCHANGED <<storeVars, entry, wentLive, inhibit, handlerVars, upc, uret, usaw,
                   cur, todo, stopAll, after, pick, unreported>>

\* The stop returned; outputBinding.update commits the profile it was given,
\* or starts the moved output again if it is still enabled.
StopReturns ==
    /\ upc = "destroy"
    /\ halt = {}
    /\ profile' = IF after = "commit" THEN [profile EXCEPT ![cur] = pick]
                                      ELSE profile
    /\ IF after = "restart" /\ cur \in enabled
       THEN upc' = "enter" /\ UNCHANGED cur
       ELSE upc' = "idle" /\ cur' = None
    /\ stopAll' = FALSE
    /\ after' = "idle"
    /\ pick' = None
    /\ UNCHANGED <<enabled, liveVars, inhibit, handle, handlerVars, uret, usaw,
                   todo, halt, unreported>>

-----------------------------------------------------------------------------
(* The libobs output of a binding.  It winds through the phases of          *)
(* OutputPhases by itself and dispatches at most one signal at a time.     *)

Dispatch(b, from, to, s) ==
    /\ handle[b] \in from
    /\ sig[b] = "none"
    /\ handle' = [handle EXCEPT ![b] = to]
    /\ sig' = [sig EXCEPT ![b] = s]
    /\ UNCHANGED <<storeVars, liveVars, inhibit, saw, matched, uiVars,
                   unreported>>

Connects(b) == Dispatch(b, {"connecting"}, "active", "start")

ConnectFailed(b) == Dispatch(b, {"connecting"}, "down", "stopError")

\* A drop libobs retries; with a stream delay it may precede "start".
Dropped(b) == Dispatch(b, {"connecting", "active"}, "retrying", "reconnect")

RetryFailed(b) == Dispatch(b, {"retrying"}, "retrying", "reconnect")

Reconnected(b) == Dispatch(b, {"retrying"}, "active", "reconnectSuccess")

GaveUp(b) == Dispatch(b, {"retrying"}, "down", "stopError")

\* "stop" is signalled while the encoders are still being detached.
StreamEnded(b) == Dispatch(b, {"active"}, "draining", "stopError")

\* A stop that crosses a connect, a drop or a retry may still be followed by
\* any signal, and by more than one.
SignalWhileStopping(b) ==
    \E s \in {"start", "reconnect", "reconnectSuccess"} \cup StopSignals :
        Dispatch(b, {"stopping"}, "stopping", s)

Drained(b) ==
    /\ handle[b] = "draining"
    /\ handle' = [handle EXCEPT ![b] = "down"]
    /\ UNCHANGED <<storeVars, liveVars, inhibit, handlerVars, uiVars, unreported>>

-----------------------------------------------------------------------------
(* The signal handlers, on the output's thread.  Each finds its entry by   *)
(* the output pointer; an entry taken out of `live` is not found.          *)

OnOutputStart(b) ==
    /\ sig[b] = "start"
    /\ upc \notin LockedPcs
    /\ sig' = [sig EXCEPT ![b] = "none"]
    /\ IF entry[b] # "none"
       THEN /\ entry' = [entry EXCEPT ![b] = "live"]
            /\ wentLive' = wentLive \cup {b}
       ELSE UNCHANGED <<entry, wentLive>>
    /\ UNCHANGED <<storeVars, held, inhibit, handle, saw, matched, uiVars,
                   unreported>>

OnOutputReconnect(b) ==
    /\ sig[b] = "reconnect"
    /\ upc \notin LockedPcs
    /\ sig' = [sig EXCEPT ![b] = "none"]
    /\ entry' = [entry EXCEPT ![b] = IF @ = "none" THEN @ ELSE "reconnecting"]
    /\ UNCHANGED <<storeVars, held, wentLive, inhibit, handle, saw, matched,
                   uiVars, unreported>>

OnOutputReconnectSuccess(b) ==
    /\ sig[b] = "reconnectSuccess"
    /\ upc \notin LockedPcs
    /\ sig' = [sig EXCEPT ![b] = "none"]
    /\ IF entry[b] # "none"
       THEN /\ entry' = [entry EXCEPT ![b] = "live"]
            /\ wentLive' = wentLive \cup {b}
       ELSE UNCHANGED <<entry, wentLive>>
    /\ UNCHANGED <<storeVars, held, inhibit, handle, saw, matched, uiVars,
                   unreported>>

OnOutputStop(b) ==
    /\ sig[b] \in StopSignals
    /\ upc \notin LockedPcs
    /\ matched' = [matched EXCEPT ![b] = entry[b] # "none"]
    /\ entry' = [entry EXCEPT ![b] =
                    IF @ = "none" THEN @
                    ELSE IF sig[b] = "stopOk" THEN "idle" ELSE "error"]
    /\ unreported' = IF IsActiveState(entry[b]) THEN unreported \cup {b}
                                               ELSE unreported
    /\ sig' = [sig EXCEPT ![b] = "read"]
    /\ UNCHANGED <<storeVars, held, wentLive, inhibit, handle, saw, uiVars>>

\* UpdateSleepInhibit in the handler: read under the lock, set after it.
HandlerReadAnyLive(b) ==
    /\ sig[b] = "read"
    /\ upc \notin LockedPcs
    /\ saw' = [saw EXCEPT ![b] = AnyLive]
    /\ sig' = [sig EXCEPT ![b] = "set"]
    /\ UNCHANGED <<storeVars, liveVars, inhibit, handle, matched, uiVars,
                   unreported>>

HandlerSetInhibit(b) ==
    /\ sig[b] = "set"
    /\ inhibit' = saw[b]
    /\ saw' = [saw EXCEPT ![b] = FALSE]
    /\ sig' = [sig EXCEPT ![b] = "report"]
    /\ UNCHANGED <<storeVars, liveVars, handle, matched, uiVars, unreported>>

HandlerReport(b) ==
    /\ sig[b] = "report"
    /\ unreported' = IF matched[b] THEN unreported \ {b} ELSE unreported
    /\ matched' = [matched EXCEPT ![b] = FALSE]
    /\ sig' = [sig EXCEPT ![b] = "none"]
    /\ UNCHANGED <<storeVars, liveVars, inhibit, handle, saw, uiVars>>

-----------------------------------------------------------------------------
(* The specification.                                                      *)

UserRequest ==
    \/ StartAllEnabled
    \/ StopAll
    \/ \E b \in Binding : \/ ArmBindingLive(b)
                          \/ StopOutput(b)
                          \/ EnableBinding(b)
                          \/ DisableBinding(b)
                          \/ MoveCanvas(b)
                          \/ \E p \in Profile : UpdateProfile(b, p)

UiStep ==
    \/ StartReturns
    \/ StartEnter
    \/ Reap
    \/ CheckGates
    \/ Refuse
    \/ PushConnecting
    \/ StartHandle
    \/ StartFailed
    \/ UiReadAnyLive
    \/ UiSetInhibit
    \/ SyncReport
    \/ TakeLive
    \/ ReportEnded
    \/ StopReturns
    \/ \E b \in Binding : \/ VisitBinding(b)
                          \/ StopHandle(b)
                          \/ DestroyOutput(b)

OutputStep(b) ==
    \/ Connects(b)
    \/ ConnectFailed(b)
    \/ Dropped(b)
    \/ RetryFailed(b)
    \/ Reconnected(b)
    \/ GaveUp(b)
    \/ StreamEnded(b)
    \/ SignalWhileStopping(b)
    \/ Drained(b)

HandlerStep(b) ==
    \/ OnOutputStart(b)
    \/ OnOutputReconnect(b)
    \/ OnOutputReconnectSuccess(b)
    \/ OnOutputStop(b)
    \/ HandlerReadAnyLive(b)
    \/ HandlerSetInhibit(b)
    \/ HandlerReport(b)

Next ==
    \/ UserRequest
    \/ UiStep
    \/ \E b \in Binding : OutputStep(b) \/ HandlerStep(b)

Spec == Init /\ [][Next]_vars

\* The scheduler runs every thread that can run.  The UI thread's wait for a
\* signal's mutex in ~LiveOutput is strongly fair: between two dispatches of
\* a retrying output the mutex is free for the whole retry delay.  Nothing is
\* assumed of the user or of the network.
Fairness ==
    /\ SF_vars(UiStep)
    /\ \A b \in Binding : WF_vars(HandlerStep(b))

FairSpec == Spec /\ Fairness

-----------------------------------------------------------------------------
(* Properties.                                                             *)

\* Every variable ranges over the values the code can give it.
TypeOK ==
    /\ enabled \in SUBSET Binding
    /\ profile \in [Binding -> Profile]
    /\ entry \in [Binding -> EntryStates]
    /\ held \in [Binding -> Profile \cup {None}]
    /\ wentLive \in SUBSET Binding
    /\ inhibit \in BOOLEAN
    /\ handle \in [Binding -> HandleStates]
    /\ sig \in [Binding -> Signals]
    /\ saw \in [Binding -> BOOLEAN]
    /\ matched \in [Binding -> BOOLEAN]
    /\ upc \in UiPcs
    /\ uret \in {"idle", "loop", "start", "syncReport", "report"}
    /\ usaw \in BOOLEAN
    /\ cur \in Binding \cup {None}
    /\ todo \in SUBSET Binding
    /\ halt \in SUBSET Binding
    /\ stopAll \in BOOLEAN
    /\ after \in {"idle", "commit", "restart"}
    /\ pick \in Profile \cup {None}
    /\ unreported \in SUBSET Binding

\* No task and no signal handler is in the middle of anything.
Quiet == UiIdle /\ \A b \in Binding : sig[b] = "none"

\* One stream key is one live stream: two outputs that are connecting, up,
\* reconnecting or being stopped never carry the same profile, whatever the
\* persisted flags, the retargeting and the reconnects of either
\* (ProfileLiveElsewhere and the gate in StartOutput).
KeyExclusive ==
    \A b, c \in Binding :
        b # c /\ handle[b] \in OnAir /\ handle[c] \in OnAir => held[b] # held[c]

\* Once the UI thread is idle and b's signals are delivered, the row of b
\* says connecting, live or reconnecting exactly when its output is going
\* out: no output runs that the UI shows as dead, no dead one reads as live.
TruthfulStatus ==
    \A b \in Binding :
        UiIdle /\ sig[b] = "none" =>
            (IsActiveState(entry[b]) <=> handle[b] \in Running)

\* An output the UI calls live has reached the platform this session, also
\* when a stream delay let "reconnect_success" arrive without a "start"
\* (WentLiveThisSession decides whether a retry re-creates a broadcast).
LiveWentLive == \A b \in Binding : entry[b] = "live" => b \in wentLive

\* A destination's "went live" mark is only dropped when no output is left
\* running: a go-live pressed while others stream is the same session.
WentLiveKept ==
    [][ \A b \in Binding : b \in wentLive /\ b \notin wentLive' =>
            \A c \in Binding : ~IsActiveState(entry'[c]) ]_vars

\* Between UI tasks no output of a disabled binding is on the air
\* (SetOutputBindingEnabled stops it; Statuses lists enabled bindings only,
\* so it could not be seen or stopped).
DisabledNotLive ==
    UiIdle => \A b \in Binding : handle[b] \in OnAir => b \in enabled

\* Every output that ended was reported through onOutputEnded once all
\* pending work is done, whichever of StopOutput, StopAll, a synchronous and
\* an unrequested stop signal ended it.
EndingsReported == Quiet => unreported = {}

\* The sleep inhibitor is held exactly while an output is connecting or
\* streaming, whenever nothing is in flight.
InhibitTracksLive == Quiet => (inhibit = AnyLive)

\* Every UI task comes to its end: no stop or start waits for a handler that
\* waits for liveMutex.
UiReturns == upc # "idle" ~> upc = "idle"

\* The profile whose key each output is using.
using == [b \in Binding |-> IF handle[b] \in OnAir THEN held[b] ELSE None]

Keys == INSTANCE StreamKeys WITH key <- using

\* The engine implements the one-key-one-stream contract: an output's key is
\* taken only when free and never changes while the output is up, whatever
\* the binding store is edited to meanwhile.
KeysImplemented == Keys!Spec

=============================================================================
