----------------------- MODULE MultistreamEngineProofs -----------------------
(***************************************************************************)
(* Proofs about the fan-out engine, for any number of bindings and         *)
(* profiles: its type invariant, the exclusive use of stream keys and the  *)
(* refinement of StreamKeys (from IInv), and then what it tells its        *)
(* callers: truthful rows, went-live marks, disabled bindings off the air  *)
(* and every ending reported (from StatusInv, which builds on IInv).       *)
(***************************************************************************)
EXTENDS MultistreamEngine, TLAPS

\* StartOutput is working on `cur`.
StartPcs == {"enter", "reap", "check", "refuse", "push", "start", "startFailed"}

\* The UI thread is idle or inside a start, UpdateSleepInhibit included.
Starting ==
    \/ upc \in {"idle", "loop"} \cup StartPcs
    \/ upc \in {"read", "set"} /\ uret \in {"loop", "start"}

\* What the UI thread's local variables hold at each program point.
LocalsInv ==
    /\ upc \in StartPcs => cur \in Binding
    /\ uret = "start" => cur \in Binding
    /\ uret # "idle" <=> upc \in {"read", "set"}
    /\ after # "idle" => cur \in Binding
    /\ after = "commit" => pick \in Profile
    /\ Starting => halt = {} /\ after = "idle"
    /\ upc \in {"stopping", "syncReport"} \/ uret = "syncReport" => todo \subseteq halt

\* The output created by the running StartOutput, before obs_output_start.
ReadyInv ==
    \A b \in Binding : handle[b] = "ready" =>
        b = cur /\ (upc = "start" \/ (upc \in {"read", "set"} /\ uret = "start"))

\* The other direction: at obs_output_start that output exists, with its key.
StartInv ==
    upc = "start" \/ (upc \in {"read", "set"} /\ uret = "start") =>
        handle[cur] = "ready" /\ held[cur] \in Profile

\* A binding without an entry has no output, except the one being reaped; a
\* start that failed at once left its output down and silent.
FreshInv ==
    /\ upc \in {"reap", "check", "refuse", "push"} => entry[cur] = "none"
    /\ upc = "startFailed" => handle[cur] = "down" /\ sig[cur] = "none"
    /\ \A b \in Binding : entry[b] = "none" /\ b \notin halt
                            /\ ~(upc = "reap" /\ b = cur) => handle[b] = "none"

\* A stop is only signalled by an output that has left the air or was asked to
\* stop; an output that does not run signals nothing.
SignalInv ==
    \A b \in Binding :
        /\ sig[b] \in StopSignals \cup StopTail =>
               handle[b] \in {"stopping", "draining", "down"}
        /\ handle[b] \in {"none", "ready"} => sig[b] = "none"

\* An output asked to stop is one the running stop takes down.
StoppingInv == \A b \in Binding : handle[b] = "stopping" => b \in halt

\* An output on the air has an active entry, unless a stop is taking it down.
EntryInv ==
    \A b \in Binding :
        handle[b] \in OnAir \cup {"ready"} => IsActiveState(entry[b]) \/ b \in halt

\* A dead entry stays dead: no signal that would revive it is pending.
DeadInv ==
    \A b \in Binding : ~IsActiveState(entry[b]) /\ b \notin halt =>
        sig[b] \in {"none"} \cup StopSignals \cup StopTail

\* The gate passed at "check" still holds when the entry is pushed.
GateInv == upc = "push" => ~ProfileLiveElsewhere(cur)

\* Two outputs that use a key, or are about to, carry different profiles.
ClaimInv ==
    \A b, c \in Binding :
        b # c /\ handle[b] \in OnAir \cup {"ready"} /\ handle[c] \in OnAir \cup {"ready"}
            => held[b] # held[c]

\* The inductive invariant.
IInv ==
    /\ TypeOK
    /\ LocalsInv
    /\ ReadyInv
    /\ StartInv
    /\ FreshInv
    /\ SignalInv
    /\ StoppingInv
    /\ EntryInv
    /\ DeadInv
    /\ GateInv
    /\ ClaimInv

-----------------------------------------------------------------------------

LEMMA InitIInv == Init => IInv
  BY NoneAssumption, Zenon
     DEF Init, IInv, TypeOK, LocalsInv, ReadyInv, StartInv, FreshInv,
         SignalInv, StoppingInv, EntryInv, DeadInv, GateInv, ClaimInv,
         Starting, StartPcs, EntryStates, HandleStates, Signals, StopSignals,
         StopTail, UiPcs, OnAir, Running, IsActiveState

LEMMA StutterIInv == IInv /\ UNCHANGED vars => IInv'
  BY DEF IInv, vars, storeVars, liveVars, handlerVars, uiVars, stopVars,
         TypeOK, LocalsInv, ReadyInv, StartInv, FreshInv, SignalInv,
         StoppingInv, EntryInv, DeadInv, GateInv, ClaimInv, Starting,
         ProfileLiveElsewhere

-----------------------------------------------------------------------------
(* Every step preserves the invariant, one lemma per actor.                *)

\* Steps of the libobs output: phases and pending signals move together.
LEMMA OutputStepIInv ==
  ASSUME NEW b \in Binding, IInv, OutputStep(b)
  PROVE  IInv'
<1> USE DEF IInv, TypeOK, LocalsInv, ReadyInv, StartInv, FreshInv, SignalInv,
            StoppingInv, EntryInv, DeadInv, GateInv, ClaimInv, Starting,
            StartPcs, EntryStates, HandleStates, Signals, StopSignals,
            StopTail, UiPcs, OnAir, Running, IsActiveState, storeVars,
            liveVars, handlerVars, uiVars, stopVars, ProfileLiveElsewhere,
            Dispatch
<1>1. CASE Connects(b)
  BY <1>1 DEF Connects
<1>2. CASE ConnectFailed(b)
  BY <1>2 DEF ConnectFailed
<1>3. CASE Dropped(b)
  BY <1>3 DEF Dropped
<1>4. CASE RetryFailed(b)
  BY <1>4 DEF RetryFailed
<1>5. CASE Reconnected(b)
  BY <1>5 DEF Reconnected
<1>6. CASE GaveUp(b)
  BY <1>6 DEF GaveUp
<1>7. CASE StreamEnded(b)
  BY <1>7 DEF StreamEnded
<1>8. CASE SignalWhileStopping(b)
  BY <1>8 DEF SignalWhileStopping
<1>9. CASE Drained(b)
  BY <1>9 DEF Drained
<1> QED
  BY <1>1, <1>2, <1>3, <1>4, <1>5, <1>6, <1>7, <1>8, <1>9, Zenon DEF OutputStep

\* Steps of the signal handlers: by SignalInv a stop finds the output off the
\* air, by DeadInv no other signal revives a dead entry.
LEMMA HandlerStepIInv ==
  ASSUME NEW b \in Binding, IInv, HandlerStep(b)
  PROVE  IInv'
<1> USE DEF IInv, TypeOK, LocalsInv, ReadyInv, StartInv, FreshInv, SignalInv,
            StoppingInv, EntryInv, DeadInv, GateInv, ClaimInv, Starting,
            StartPcs, EntryStates, HandleStates, Signals, StopSignals,
            StopTail, UiPcs, OnAir, Running, IsActiveState, storeVars,
            liveVars, handlerVars, uiVars, stopVars, ProfileLiveElsewhere,
            AnyLive, LockedPcs
<1>1. CASE OnOutputStart(b)
  BY <1>1 DEF OnOutputStart
<1>2. CASE OnOutputReconnect(b)
  BY <1>2 DEF OnOutputReconnect
<1>3. CASE OnOutputReconnectSuccess(b)
  BY <1>3 DEF OnOutputReconnectSuccess
<1>4. CASE OnOutputStop(b)
  BY <1>4 DEF OnOutputStop
<1>5. CASE HandlerReadAnyLive(b)
  BY <1>5 DEF HandlerReadAnyLive
<1>6. CASE HandlerSetInhibit(b)
  BY <1>6 DEF HandlerSetInhibit
<1>7. CASE HandlerReport(b)
  BY <1>7 DEF HandlerReport
<1> QED
  BY <1>1, <1>2, <1>3, <1>4, <1>5, <1>6, <1>7, Zenon DEF HandlerStep

\* Steps of StartOutput and StartAllEnabled: the gate read at "check" and
\* EntryInv make the profile free when the output gets its key.
LEMMA StartStepIInv ==
  ASSUME IInv,
         \/ StartAllEnabled \/ StartReturns \/ StartEnter \/ Reap \/ CheckGates
         \/ Refuse \/ PushConnecting \/ StartHandle \/ StartFailed
         \/ \E b \in Binding : VisitBinding(b) \/ ArmBindingLive(b)
  PROVE  IInv'
<1> USE NoneAssumption
        DEF IInv, TypeOK, LocalsInv, ReadyInv, StartInv, FreshInv, SignalInv,
            StoppingInv, EntryInv, DeadInv, GateInv, ClaimInv, Starting,
            StartPcs, EntryStates, HandleStates, Signals, StopSignals,
            StopTail, UiPcs, OnAir, Running, IsActiveState, storeVars,
            liveVars, handlerVars, uiVars, stopVars, ProfileLiveElsewhere,
            UiIdle
<1>1. CASE StartAllEnabled
  BY <1>1 DEF StartAllEnabled, SessionMarks, AnyLive
<1>2. CASE StartReturns
  BY <1>2 DEF StartReturns
<1>3. CASE StartEnter
  BY <1>3 DEF StartEnter
<1>4. CASE Reap
  BY <1>4 DEF Reap
<1>5. CASE CheckGates
  BY <1>5 DEF CheckGates
<1>6. CASE Refuse
  BY <1>6 DEF Refuse
<1>7. CASE PushConnecting
  BY <1>7 DEF PushConnecting
<1>8. CASE StartHandle
  BY <1>8 DEF StartHandle
<1>9. CASE StartFailed
  BY <1>9 DEF StartFailed
<1>10. CASE \E b \in Binding : VisitBinding(b)
  BY <1>10 DEF VisitBinding
<1>11. CASE \E b \in Binding : ArmBindingLive(b)
  BY <1>11 DEF ArmBindingLive, AnyLive
<1> QED
  BY <1>1, <1>2, <1>3, <1>4, <1>5, <1>6, <1>7, <1>8, <1>9, <1>10, <1>11, Zenon

\* Steps of UpdateSleepInhibit on the UI thread.
LEMMA InhibitStepIInv ==
  ASSUME IInv, UiReadAnyLive \/ UiSetInhibit
  PROVE  IInv'
<1> USE DEF IInv, TypeOK, LocalsInv, ReadyInv, StartInv, FreshInv, SignalInv,
            StoppingInv, EntryInv, DeadInv, GateInv, ClaimInv, Starting,
            StartPcs, EntryStates, HandleStates, Signals, StopSignals,
            StopTail, UiPcs, OnAir, Running, IsActiveState, storeVars,
            liveVars, handlerVars, uiVars, stopVars, ProfileLiveElsewhere
<1>1. CASE UiReadAnyLive
  BY <1>1 DEF UiReadAnyLive, AnyLive
<1>2. CASE UiSetInhibit
  <2>1. inhibit' \in BOOLEAN /\ usaw' \in BOOLEAN
    BY <1>2, Zenon DEF UiSetInhibit
  <2> QED
    BY <1>2, <2>1 DEF UiSetInhibit
<1> QED
  BY <1>1, <1>2, Zenon

\* Steps that begin a stop: halt grows, which only weakens the invariant.
LEMMA BeginStopIInv ==
  ASSUME IInv,
         \/ StopAll
         \/ \E b \in Binding : \/ StopOutput(b)
                               \/ EnableBinding(b)
                               \/ DisableBinding(b)
                               \/ MoveCanvas(b)
                               \/ \E p \in Profile : UpdateProfile(b, p)
  PROVE  IInv'
<1> USE DEF IInv, TypeOK, LocalsInv, ReadyInv, StartInv, FreshInv, SignalInv,
            StoppingInv, EntryInv, DeadInv, GateInv, ClaimInv, Starting,
            StartPcs, EntryStates, HandleStates, Signals, StopSignals,
            StopTail, UiPcs, OnAir, Running, IsActiveState, storeVars,
            liveVars, handlerVars, uiVars, stopVars, ProfileLiveElsewhere,
            UiIdle, BeginStop
<1>0. \A b \in Binding : {b} \in SUBSET Binding
  BY Zenon
<1>1. CASE StopAll
  BY <1>1 DEF StopAll
<1>2. ASSUME NEW b \in Binding, StopOutput(b)
      PROVE  IInv'
  <2>1. stopAll' \in BOOLEAN
    BY <1>2, Zenon DEF StopOutput
  <2> QED
    BY <1>0, <1>2, <2>1 DEF StopOutput
<1>3. ASSUME NEW b \in Binding, EnableBinding(b)
      PROVE  IInv'
  BY <1>3 DEF EnableBinding
<1>4. ASSUME NEW b \in Binding, DisableBinding(b)
      PROVE  IInv'
  <2>1. stopAll' \in BOOLEAN
    BY <1>4, Zenon DEF DisableBinding
  <2> QED
    BY <1>0, <1>4, <2>1 DEF DisableBinding
<1>5. ASSUME NEW b \in Binding, MoveCanvas(b)
      PROVE  IInv'
  <2>1. stopAll' \in BOOLEAN
    BY <1>5, Zenon DEF MoveCanvas
  <2> QED
    BY <1>0, <1>5, <2>1 DEF MoveCanvas
<1>6. ASSUME NEW b \in Binding, NEW p \in Profile, UpdateProfile(b, p)
      PROVE  IInv'
  <2>1. stopAll' \in BOOLEAN
    BY <1>6, Zenon DEF UpdateProfile
  <2> QED
    BY <1>0, <1>6, <2>1 DEF UpdateProfile
<1> QED
  BY <1>1, <1>2, <1>3, <1>4, <1>5, <1>6, Zenon

\* Steps of a running stop: entries leave `live` before their outputs are
\* destroyed, and halt remembers them until then.
LEMMA StopStepIInv ==
  ASSUME IInv,
         \/ SyncReport \/ TakeLive \/ ReportEnded \/ StopReturns
         \/ \E b \in Binding : StopHandle(b) \/ DestroyOutput(b)
  PROVE  IInv'
<1> USE DEF IInv, TypeOK, LocalsInv, ReadyInv, StartInv, FreshInv, SignalInv,
            StoppingInv, EntryInv, DeadInv, GateInv, ClaimInv, Starting,
            StartPcs, EntryStates, HandleStates, Signals, StopSignals,
            StopTail, UiPcs, OnAir, Running, IsActiveState, storeVars,
            liveVars, handlerVars, uiVars, stopVars, ProfileLiveElsewhere
<1>1. CASE SyncReport
  BY <1>1 DEF SyncReport
<1>2. CASE TakeLive
  BY <1>2 DEF TakeLive
<1>3. CASE ReportEnded
  BY <1>3 DEF ReportEnded, Ended
<1>4. CASE StopReturns
  <2>1. profile' \in [Binding -> Profile] /\ pick' \in Profile \cup {None}
    BY <1>4 DEF StopReturns
  <2>2. stopAll' \in BOOLEAN
    BY <1>4, Zenon DEF StopReturns
  <2> QED
    BY <1>4, <2>1, <2>2 DEF StopReturns
<1>5. CASE \E b \in Binding : StopHandle(b)
  BY <1>5 DEF StopHandle
<1>6. CASE \E b \in Binding : DestroyOutput(b)
  BY NoneAssumption, <1>6 DEF DestroyOutput
<1> QED
  BY <1>1, <1>2, <1>3, <1>4, <1>5, <1>6, Zenon

LEMMA NextIInv == IInv /\ [Next]_vars => IInv'
<1> SUFFICES ASSUME IInv, [Next]_vars PROVE IInv'
  OBVIOUS
<1>1. CASE UserRequest
  <2>1. CASE \/ StartAllEnabled
            \/ \E b \in Binding : ArmBindingLive(b)
    BY <2>1, StartStepIInv
  <2>2. CASE \/ StopAll
            \/ \E b \in Binding : \/ StopOutput(b)
                                  \/ EnableBinding(b)
                                  \/ DisableBinding(b)
                                  \/ MoveCanvas(b)
                                  \/ \E p \in Profile : UpdateProfile(b, p)
    BY <2>2, BeginStopIInv
  <2> QED
    BY <1>1, <2>1, <2>2 DEF UserRequest
<1>2. CASE UiStep
  BY <1>2, StartStepIInv, InhibitStepIInv, StopStepIInv DEF UiStep
<1>3. CASE \E b \in Binding : OutputStep(b)
  BY <1>3, OutputStepIInv
<1>4. CASE \E b \in Binding : HandlerStep(b)
  BY <1>4, HandlerStepIInv
<1>5. CASE UNCHANGED vars
  BY <1>5, StutterIInv
<1> QED
  BY <1>1, <1>2, <1>3, <1>4, <1>5 DEF Next

LEMMA InvariantHolds == Spec => []IInv
  BY InitIInv, NextIInv, PTL DEF Spec

\* The engine's variables keep their types (the program points' locals are
\* defined when used, the profile committed by outputBinding.update is one).
THEOREM TypeCorrect == Spec => []TypeOK
<1>1. IInv => TypeOK
  BY DEF IInv
<1> QED
  BY <1>1, InvariantHolds, PTL

\* Two outputs never use the same stream key at the same time, for any number
\* of bindings, any persisted flags and every interleaving of the UI thread
\* with the output threads (ProfileLiveElsewhere is checked on the entries,
\* the theorem is about the libobs outputs themselves).
THEOREM KeysExclusive == Spec => []KeyExclusive
<1>1. IInv => KeyExclusive
  BY DEF IInv, ClaimInv, KeyExclusive
<1> QED
  BY <1>1, InvariantHolds, PTL

-----------------------------------------------------------------------------
(* The refinement of StreamKeys.                                           *)

\* A step that leaves the outputs and their profiles alone is a stutter.
LEMMA UsingUnchanged == UNCHANGED <<handle, held>> => UNCHANGED using
  BY DEF using

\* A step that moves the phase of one output releases its key or stutters,
\* unless it brings the output on the air.
LEMMA UsingReleased ==
  ASSUME NEW b \in Binding, NEW h \in HandleStates, TypeOK,
         handle' = [handle EXCEPT ![b] = h], UNCHANGED held,
         h \in OnAir => handle[b] \in OnAir
  PROVE  [Keys!Next]_using
<1>1. CASE h \in OnAir \/ using[b] = None
  <2>1. \A c \in Binding : (handle'[c] \in OnAir /\ held'[c] = using[c])
                          \/ (handle'[c] \notin OnAir /\ using[c] = None)
    BY <1>1 DEF TypeOK, using
  <2>2. using' = using
    BY <2>1, Zenon DEF using
  <2> QED
    BY <2>2
<1>2. CASE h \notin OnAir /\ using[b] # None
  <2>1. using' = [using EXCEPT ![b] = None]
    BY <1>2, Zenon DEF TypeOK, using
  <2> QED
    BY <1>2, <2>1, Zenon DEF Keys!Next, Keys!Release
<1> QED
  BY <1>1, <1>2

\* obs_output_start takes the key: by ClaimInv no output on the air has it.
LEMMA UsingAcquired ==
  ASSUME IInv, StartHandle
  PROVE  [Keys!Next]_using
<1> USE DEF IInv, TypeOK, LocalsInv, StartPcs, StartInv
<1>1. cur \in Binding /\ handle[cur] = "ready" /\ held[cur] \in Profile
  BY DEF StartHandle
<1>2. CASE handle' = [handle EXCEPT ![cur] = "down"]
  BY <1>1, <1>2, UsingReleased, Zenon
     DEF StartHandle, liveVars, HandleStates, OnAir, Running
<1>3. CASE handle' = [handle EXCEPT ![cur] = "connecting"]
  <2>1. using[cur] = None
    BY <1>1 DEF using, OnAir, Running
  <2>2. \A c \in Binding : using[c] # held[cur]
    BY <1>1, NoneAssumption DEF using, ClaimInv, OnAir, Running
  <2>3. using' = [using EXCEPT ![cur] = held[cur]]
    BY <1>1, <1>3, Zenon DEF StartHandle, liveVars, using, OnAir, Running
  <2> QED
    BY <1>1, <2>1, <2>2, <2>3, Zenon DEF Keys!Next, Keys!Acquire
<1> QED
  BY <1>2, <1>3 DEF StartHandle

\* A destroyed output gives its key back, if it still had one.
LEMMA UsingDestroyed ==
  ASSUME NEW b \in Binding, TypeOK,
         handle' = [handle EXCEPT ![b] = "none"],
         held' = [held EXCEPT ![b] = None]
  PROVE  [Keys!Next]_using
<1>1. using' = [using EXCEPT ![b] = None]
  BY Zenon DEF TypeOK, using, OnAir, Running
<1>2. CASE using[b] = None
  BY <1>1, <1>2 DEF using
<1>3. CASE using[b] # None
  BY <1>1, <1>3, Zenon DEF Keys!Next, Keys!Release
<1> QED
  BY <1>2, <1>3

\* A new entry's profile is written while its output is not on the air.
LEMMA UsingPushed ==
  ASSUME IInv, Refuse \/ PushConnecting
  PROVE  UNCHANGED using
<1> USE DEF IInv, TypeOK, LocalsInv, StartPcs, FreshInv, Starting
<1>1. cur \in Binding /\ handle[cur] = "none"
  BY Zenon DEF Refuse, PushConnecting
<1>2. handle'[cur] \in {"none", "ready"}
  BY <1>1, Zenon DEF Refuse, PushConnecting
<1>3. \A c \in Binding \ {cur} : handle'[c] = handle[c] /\ held'[c] = held[c]
  BY DEF Refuse, PushConnecting
<1> QED
  BY <1>1, <1>2, <1>3, Zenon DEF using, OnAir, Running

LEMMA StepRefines == IInv /\ [Next]_vars => [Keys!Next]_using
<1> SUFFICES ASSUME IInv, [Next]_vars PROVE [Keys!Next]_using
  OBVIOUS
<1> USE DEF storeVars, liveVars, handlerVars, uiVars, stopVars
<1>0. TypeOK
  BY DEF IInv
<1>1. CASE UserRequest
  <2>1. UNCHANGED <<handle, held>>
    BY <1>1, Zenon
       DEF UserRequest, StartAllEnabled, StopAll, ArmBindingLive, StopOutput,
           EnableBinding, DisableBinding, MoveCanvas, UpdateProfile
  <2> QED
    BY <2>1, UsingUnchanged
<1>2. CASE UiStep
  <2>1. CASE \/ StartReturns \/ StartEnter \/ CheckGates \/ StartFailed
            \/ UiReadAnyLive \/ UiSetInhibit \/ SyncReport \/ TakeLive
            \/ ReportEnded \/ StopReturns \/ \E b \in Binding : VisitBinding(b)
    <3>1. UNCHANGED <<handle, held>>
      BY <2>1
         DEF StartReturns, StartEnter, CheckGates, StartFailed, UiReadAnyLive,
             UiSetInhibit, SyncReport, TakeLive, ReportEnded, StopReturns,
             VisitBinding
    <3> QED
      BY <3>1, UsingUnchanged
  <2>2. CASE Reap
    <3>1. cur \in Binding
      BY <2>2 DEF Reap, IInv, LocalsInv, StartPcs
    <3> QED
      BY <1>0, <2>2, <3>1, UsingDestroyed, Zenon DEF Reap
  <2>3. CASE \E b \in Binding : DestroyOutput(b)
    BY <1>0, <2>3, UsingDestroyed, Zenon DEF DestroyOutput
  <2>4. CASE Refuse \/ PushConnecting
    BY <2>4, UsingPushed
  <2>5. CASE StartHandle
    BY <2>5, UsingAcquired
  <2>6. CASE \E b \in Binding : StopHandle(b)
    <3>1. PICK b \in Binding : StopHandle(b)
      BY <2>6
    <3> DEFINE h == IF handle[b] \in Running THEN "stopping" ELSE handle[b]
    <3>2. h \in HandleStates /\ (h \in OnAir => handle[b] \in OnAir)
      BY <1>0 DEF TypeOK, HandleStates, OnAir
    <3>3. handle' = [handle EXCEPT ![b] = h] /\ UNCHANGED held
      BY <3>1 DEF StopHandle
    <3> HIDE DEF h
    <3> QED
      BY <1>0, <3>2, <3>3, UsingReleased, Zenon
  <2> QED
    BY <1>2, <2>1, <2>2, <2>3, <2>4, <2>5, <2>6 DEF UiStep
<1>3. CASE \E b \in Binding : OutputStep(b)
  <2>1. PICK b \in Binding : OutputStep(b)
    BY <1>3
  <2>2. \E h \in HandleStates : handle' = [handle EXCEPT ![b] = h]
                                /\ (h \in OnAir => handle[b] \in OnAir)
    BY <2>1, Zenon
       DEF OutputStep, Connects, ConnectFailed, Dropped, RetryFailed,
           Reconnected, GaveUp, StreamEnded, SignalWhileStopping, Drained,
           Dispatch, HandleStates, OnAir, Running
  <2>3. UNCHANGED held
    BY <2>1, Zenon
       DEF OutputStep, Connects, ConnectFailed, Dropped, RetryFailed,
           Reconnected, GaveUp, StreamEnded, SignalWhileStopping, Drained,
           Dispatch
  <2> QED
    BY <1>0, <2>2, <2>3, UsingReleased, Zenon
<1>4. CASE \E b \in Binding : HandlerStep(b)
  <2>1. UNCHANGED <<handle, held>>
    BY <1>4
       DEF HandlerStep, OnOutputStart, OnOutputReconnect,
           OnOutputReconnectSuccess, OnOutputStop, HandlerReadAnyLive,
           HandlerSetInhibit, HandlerReport
  <2> QED
    BY <2>1, UsingUnchanged
<1>5. CASE UNCHANGED vars
  BY <1>5, UsingUnchanged DEF vars
<1> QED
  BY <1>1, <1>2, <1>3, <1>4, <1>5 DEF Next

\* The engine implements StreamKeys: obs_output_start is the only step that
\* takes a key, it takes a free one, and no edit of the binding store changes
\* the key of a running output.
THEOREM EngineImplementsKeys == Spec => KeysImplemented
<1>1. Init => Keys!Init
  BY DEF Init, Keys!Init, using, OnAir, Running
<1> QED
  BY <1>1, InvariantHolds, StepRefines, PTL
     DEF Spec, Keys!Spec, KeysImplemented

-----------------------------------------------------------------------------
(* What the engine tells its callers.                                      *)

\* The UI thread is at program point p, or in UpdateSleepInhibit on its way
\* to it.
At(p) == upc = p \/ (upc \in {"read", "set"} /\ uret = p)

\* StopAll takes every entry there is, and no entry is added while it runs.
\* What a stop has taken out of `live` stays out.
TakenInv ==
    /\ stopAll => ~Starting /\ \A b \in Binding \ halt : entry[b] = "none"
    /\ At("report") \/ upc = "destroy" => \A b \in halt : entry[b] = "none"

\* Only an enabled binding is started, and its output stays enabled until a
\* stop takes it down.
EnabledInv ==
    /\ upc \in StartPcs \/ At("start") => cur \in enabled
    /\ \A b \in Binding :
           handle[b] \in OnAir \cup {"ready"} => b \in enabled \cup halt

\* An active entry outside a stop belongs to an output that runs, is being
\* started, or has its stop signal on the way.
ActiveInv ==
    \A b \in Binding \ halt : IsActiveState(entry[b]) =>
        \/ handle[b] \in Running
        \/ sig[b] \in StopSignals
        \/ b = cur /\ (At("start") \/ upc = "startFailed")

\* An ending not yet reported is owed by the handler that matched the entry,
\* by the synchronous stop, or by the stop that took the entry.
OwedInv ==
    \A b \in unreported :
        \/ sig[b] \in StopTail /\ matched[b]
        \/ b = cur /\ At("syncReport")
        \/ b \in halt /\ At("report")

\* The inductive invariant, given IInv.
StatusInv == TakenInv /\ EnabledInv /\ LiveWentLive /\ ActiveInv /\ OwedInv

-----------------------------------------------------------------------------

LEMMA InitStatusInv == Init => StatusInv
  BY Zenon DEF Init, StatusInv, TakenInv, EnabledInv, LiveWentLive, ActiveInv,
         OwedInv, At, Starting, StartPcs, IsActiveState, Running, OnAir,
         StopSignals, StopTail

LEMMA StutterStatusInv == StatusInv /\ UNCHANGED vars => StatusInv'
  BY DEF vars, storeVars, liveVars, handlerVars, uiVars, stopVars, StatusInv,
         TakenInv, EnabledInv, LiveWentLive, ActiveInv, OwedInv, At, Starting

-----------------------------------------------------------------------------
(* Every step preserves the invariant, one lemma per actor.                *)

\* An output leaves the air together with its stop signal, unless a stop is
\* taking it down.
LEMMA OutputStepStatusInv ==
  ASSUME IInv, StatusInv,
         NEW b \in Binding, OutputStep(b)
  PROVE  StatusInv'
<1> USE DEF IInv, TypeOK, SignalInv, StoppingInv, StatusInv, TakenInv,
            EnabledInv, LiveWentLive, ActiveInv, OwedInv, At, Starting,
            StartPcs, IsActiveState, Running, OnAir, StopSignals, StopTail,
            storeVars, liveVars, handlerVars, uiVars, stopVars, Dispatch
<1>1. CASE Connects(b)
  BY <1>1 DEF Connects
<1>2. CASE ConnectFailed(b)
  BY <1>2 DEF ConnectFailed
<1>3. CASE Dropped(b)
  BY <1>3 DEF Dropped
<1>4. CASE RetryFailed(b)
  BY <1>4 DEF RetryFailed
<1>5. CASE Reconnected(b)
  BY <1>5 DEF Reconnected
<1>6. CASE GaveUp(b)
  BY <1>6 DEF GaveUp
<1>7. CASE StreamEnded(b)
  BY <1>7 DEF StreamEnded
<1>8. CASE SignalWhileStopping(b)
  BY <1>8 DEF SignalWhileStopping
<1>9. CASE Drained(b)
  BY <1>9 DEF Drained
<1> QED
  BY <1>1, <1>2, <1>3, <1>4, <1>5, <1>6, <1>7, <1>8, <1>9, Zenon DEF OutputStep

\* By DeadInv a signal that makes an entry live finds it active; a stop handler
\* that finds the entry owes the report.
LEMMA HandlerStepStatusInv ==
  ASSUME IInv, StatusInv,
         NEW b \in Binding, HandlerStep(b)
  PROVE  StatusInv'
<1> USE DEF IInv, TypeOK, SignalInv, DeadInv, StatusInv, TakenInv, EnabledInv,
            LiveWentLive, ActiveInv, OwedInv, At, Starting, StartPcs,
            IsActiveState, Running, OnAir, StopSignals, StopTail, storeVars,
            liveVars, handlerVars, uiVars, stopVars, LockedPcs
<1>1. CASE OnOutputStart(b)
  BY <1>1 DEF OnOutputStart
<1>2. CASE OnOutputReconnect(b)
  BY <1>2 DEF OnOutputReconnect
<1>3. CASE OnOutputReconnectSuccess(b)
  BY <1>3 DEF OnOutputReconnectSuccess
<1>4. CASE OnOutputStop(b)
  <2>1. TakenInv' /\ EnabledInv' /\ LiveWentLive' /\ ActiveInv'
    BY <1>4 DEF OnOutputStop
  <2>2. ASSUME NEW c \in unreported' PROVE OwedInv!(c)'
    <3>1. CASE c # b
      BY <1>4, <2>2, <3>1, Zenon DEF OnOutputStop
    <3>2. CASE c = b /\ b \in unreported
      BY <1>4, <3>2, Zenon DEF OnOutputStop
    <3>3. CASE c = b /\ IsActiveState(entry[b])
      <4>1. entry[b] # "none"
        BY <3>3, Zenon
      <4>2. matched' = [matched EXCEPT ![b] = entry[b] # "none"]
        BY <1>4 DEF OnOutputStop
      <4>3. matched'[b]
        BY <4>1, <4>2, Zenon
      <4>4. sig'[b] \in StopTail
        BY <1>4, Zenon DEF OnOutputStop
      <4> QED
        BY <3>3, <4>3, <4>4, Zenon
    <3> QED
      BY <1>4, <2>2, <3>1, <3>2, <3>3, Zenon DEF OnOutputStop
  <2> QED
    BY <2>1, <2>2, Zenon
<1>5. CASE HandlerReadAnyLive(b)
  BY <1>5 DEF HandlerReadAnyLive
<1>6. CASE HandlerSetInhibit(b)
  BY <1>6 DEF HandlerSetInhibit
<1>7. CASE HandlerReport(b)
  BY <1>7 DEF HandlerReport
<1> QED
  BY <1>1, <1>2, <1>3, <1>4, <1>5, <1>6, <1>7, Zenon DEF HandlerStep

\* StartOutput works on an enabled binding and leaves an active entry only
\* with an output behind it.
LEMMA StartStepStatusInv ==
  ASSUME IInv, StatusInv,
         \/ StartAllEnabled \/ StartReturns \/ StartEnter \/ Reap \/ CheckGates
         \/ Refuse \/ PushConnecting \/ StartHandle \/ StartFailed
         \/ \E b \in Binding : VisitBinding(b) \/ ArmBindingLive(b)
  PROVE  StatusInv'
<1> USE DEF IInv, TypeOK, LocalsInv, StatusInv, TakenInv, EnabledInv,
            LiveWentLive, ActiveInv, OwedInv, At, Starting, StartPcs,
            IsActiveState, Running, OnAir, StopSignals, StopTail, storeVars,
            liveVars, handlerVars, uiVars, stopVars, UiIdle
<1>1. CASE StartAllEnabled
  BY <1>1, Zenon DEF StartAllEnabled, SessionMarks, AnyLive
<1>2. CASE StartReturns
  BY <1>2, Zenon DEF StartReturns
<1>3. CASE StartEnter
  BY <1>3 DEF StartEnter
<1>4. CASE Reap
  BY <1>4 DEF Reap, FreshInv
<1>5. CASE CheckGates
  BY <1>5, Zenon DEF CheckGates
<1>6. CASE Refuse
  BY <1>6 DEF Refuse
<1>7. CASE PushConnecting
  BY <1>7 DEF PushConnecting
<1>8. CASE StartHandle
  BY <1>8 DEF StartHandle
<1>9. CASE StartFailed
  BY <1>9 DEF StartFailed
<1>10. CASE \E b \in Binding : VisitBinding(b)
  BY <1>10 DEF VisitBinding
<1>11. CASE \E b \in Binding : ArmBindingLive(b)
  BY <1>11 DEF ArmBindingLive
<1> QED
  BY <1>1, <1>2, <1>3, <1>4, <1>5, <1>6, <1>7, <1>8, <1>9, <1>10, <1>11, Zenon

LEMMA InhibitStepStatusInv ==
  ASSUME IInv, StatusInv, UiReadAnyLive \/ UiSetInhibit
  PROVE  StatusInv'
<1> USE DEF IInv, TypeOK, LocalsInv, StatusInv, TakenInv, EnabledInv,
            LiveWentLive, ActiveInv, OwedInv, At, Starting, StartPcs,
            IsActiveState, Running, OnAir, StopSignals, StopTail, storeVars,
            liveVars, handlerVars, uiVars, stopVars
<1>1. CASE UiReadAnyLive
  BY <1>1, Zenon DEF UiReadAnyLive
<1>2. CASE UiSetInhibit
  BY <1>2 DEF UiSetInhibit
<1> QED
  BY <1>1, <1>2, Zenon

\* A stop begins with every output it concerns in halt; by FreshInv a binding
\* without an entry that is disabled has no output to stop.
LEMMA BeginStopStatusInv ==
  ASSUME IInv, StatusInv,
         \/ StopAll
         \/ \E b \in Binding : \/ StopOutput(b)
                               \/ EnableBinding(b)
                               \/ DisableBinding(b)
                               \/ MoveCanvas(b)
                               \/ \E p \in Profile : UpdateProfile(b, p)
  PROVE  StatusInv'
<1> USE DEF IInv, TypeOK, LocalsInv, FreshInv, StatusInv, TakenInv,
            EnabledInv, LiveWentLive, ActiveInv, OwedInv, At, Starting,
            StartPcs, IsActiveState, Running, OnAir, StopSignals, StopTail,
            storeVars, liveVars, handlerVars, uiVars, stopVars, UiIdle,
            BeginStop
<1>1. CASE StopAll
  BY <1>1, Zenon DEF StopAll
<1>2. ASSUME NEW b \in Binding, StopOutput(b)
      PROVE  StatusInv'
  BY <1>2, Zenon DEF StopOutput
<1>3. ASSUME NEW b \in Binding, EnableBinding(b)
      PROVE  StatusInv'
  BY <1>3, Zenon DEF EnableBinding
<1>4. ASSUME NEW b \in Binding, DisableBinding(b)
      PROVE  StatusInv'
  BY <1>4 DEF DisableBinding, HasLive
<1>5. ASSUME NEW b \in Binding, MoveCanvas(b)
      PROVE  StatusInv'
  BY <1>5 DEF MoveCanvas
<1>6. ASSUME NEW b \in Binding, NEW p \in Profile, UpdateProfile(b, p)
      PROVE  StatusInv'
  BY <1>6, Zenon DEF UpdateProfile
<1> QED
  BY <1>1, <1>2, <1>3, <1>4, <1>5, <1>6, Zenon

LEMMA StopStepStatusInv ==
  ASSUME IInv, StatusInv,
         \/ SyncReport \/ TakeLive \/ ReportEnded \/ StopReturns
         \/ \E b \in Binding : StopHandle(b) \/ DestroyOutput(b)
  PROVE  StatusInv'
<1> USE DEF IInv, TypeOK, LocalsInv, StatusInv, TakenInv, EnabledInv,
            LiveWentLive, ActiveInv, OwedInv, At, Starting, StartPcs,
            IsActiveState, Running, OnAir, StopSignals, StopTail, storeVars,
            liveVars, handlerVars, uiVars, stopVars
<1>1. CASE SyncReport
  BY <1>1, Zenon DEF SyncReport
<1>2. CASE TakeLive
  BY <1>2, Zenon DEF TakeLive
<1>3. CASE ReportEnded
  BY <1>3, Zenon DEF ReportEnded, Ended
<1>4. CASE StopReturns
  BY <1>4 DEF StopReturns
<1>5. CASE \E b \in Binding : StopHandle(b)
  BY <1>5 DEF StopHandle
<1>6. CASE \E b \in Binding : DestroyOutput(b)
  BY <1>6 DEF DestroyOutput
<1> QED
  BY <1>1, <1>2, <1>3, <1>4, <1>5, <1>6, Zenon

-----------------------------------------------------------------------------
(* The theorems.                                                           *)

LEMMA NextStatusInv == IInv /\ StatusInv /\ [Next]_vars => StatusInv'
<1> SUFFICES ASSUME IInv, StatusInv, [Next]_vars PROVE StatusInv'
  OBVIOUS
<1>1. CASE UserRequest
  <2>1. CASE \/ StartAllEnabled
            \/ \E b \in Binding : ArmBindingLive(b)
    BY <2>1, StartStepStatusInv
  <2>2. CASE \/ StopAll
            \/ \E b \in Binding : \/ StopOutput(b)
                                  \/ EnableBinding(b)
                                  \/ DisableBinding(b)
                                  \/ MoveCanvas(b)
                                  \/ \E p \in Profile : UpdateProfile(b, p)
    BY <2>2, BeginStopStatusInv
  <2> QED
    BY <1>1, <2>1, <2>2 DEF UserRequest
<1>2. CASE UiStep
  BY <1>2, StartStepStatusInv, InhibitStepStatusInv, StopStepStatusInv
     DEF UiStep
<1>3. CASE \E b \in Binding : OutputStep(b)
  BY <1>3, OutputStepStatusInv
<1>4. CASE \E b \in Binding : HandlerStep(b)
  BY <1>4, HandlerStepStatusInv
<1>5. CASE UNCHANGED vars
  BY <1>5, StutterStatusInv
<1> QED
  BY <1>1, <1>2, <1>3, <1>4, <1>5 DEF Next

LEMMA StatusInvariant == Spec => [](IInv /\ StatusInv)
  BY InitStatusInv, NextStatusInv, InvariantHolds, PTL DEF Spec

\* A row says connecting, live or reconnecting exactly when its output is
\* going out, once the UI thread is idle and the row's signals are delivered:
\* for any number of bindings and every interleaving of starts, drops,
\* retries and stops (the handlers look their entry up by the output).
THEOREM RowsTruthful == Spec => []TruthfulStatus
<1>1. IInv /\ StatusInv => TruthfulStatus
  BY Zenon
     DEF IInv, LocalsInv, EntryInv, Starting, StatusInv, ActiveInv, At,
         TruthfulStatus, UiIdle, OnAir, StopSignals
<1> QED
  BY <1>1, StatusInvariant, PTL

\* An output the UI calls live is marked as having reached the platform.
THEOREM LiveIsMarked == Spec => []LiveWentLive
<1>1. StatusInv => LiveWentLive
  BY DEF StatusInv
<1> QED
  BY <1>1, StatusInvariant, PTL

\* Between UI tasks no output of a disabled binding is on the air
\* (SetOutputBindingEnabled stops it first).
THEOREM DisabledOffAir == Spec => []DisabledNotLive
<1>1. IInv /\ StatusInv => DisabledNotLive
  BY Zenon DEF IInv, LocalsInv, Starting, StatusInv, EnabledInv, DisabledNotLive,
         UiIdle
<1> QED
  BY <1>1, StatusInvariant, PTL

\* Every ending has been reported through onOutputEnded when nothing is
\* pending, whichever thread and whichever stop ended the output.
THEOREM EndingsAreReported == Spec => []EndingsReported
<1>1. IInv /\ StatusInv => EndingsReported
  BY DEF IInv, TypeOK, StatusInv, OwedInv, At, EndingsReported, Quiet, UiIdle,
         StopTail
<1> QED
  BY <1>1, StatusInvariant, PTL

\* The marks are only dropped when no output is left running: by a StopAll
\* that takes every entry, or by a go-live that found none active.
THEOREM MarksKept == Spec => WentLiveKept
<1>1. ASSUME IInv, StatusInv, [Next]_vars,
             NEW b \in Binding, b \in wentLive, b \notin wentLive',
             NEW c \in Binding
      PROVE  ~IsActiveState(entry'[c])
  <2>1. StartAllEnabled \/ TakeLive
    BY <1>1, Zenon
       DEF Next, UserRequest, UiStep, OutputStep, HandlerStep, vars,
           storeVars, liveVars, StopAll, ArmBindingLive, StopOutput,
           EnableBinding, DisableBinding, MoveCanvas, UpdateProfile,
           StartReturns, StartEnter, Reap, CheckGates, Refuse, PushConnecting,
           StartHandle, StartFailed, UiReadAnyLive, UiSetInhibit, SyncReport,
           ReportEnded, StopReturns, VisitBinding, StopHandle, DestroyOutput,
           Connects, ConnectFailed, Dropped, RetryFailed, Reconnected, GaveUp,
           StreamEnded, SignalWhileStopping, Drained, Dispatch, OnOutputStart,
           OnOutputReconnect, OnOutputReconnectSuccess, OnOutputStop,
           HandlerReadAnyLive, HandlerSetInhibit, HandlerReport
  <2>2. CASE StartAllEnabled
    BY <1>1, <2>2 DEF StartAllEnabled, SessionMarks, AnyLive
  <2>3. CASE TakeLive
    BY <1>1, <2>3 DEF TakeLive, StatusInv, TakenInv, IsActiveState
  <2> QED
    BY <2>1, <2>2, <2>3
<1>2. IInv /\ StatusInv /\ [Next]_vars
        => [ \A b \in Binding : b \in wentLive /\ b \notin wentLive' =>
                \A c \in Binding : ~IsActiveState(entry'[c]) ]_vars
  BY <1>1
<1> QED
  BY <1>2, StatusInvariant, PTL DEF Spec, WentLiveKept
=============================================================================
