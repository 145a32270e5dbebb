----------------------------- MODULE OutputLife -----------------------------
(***************************************************************************)
(* The life of one RTMP output as libobs and the rtmp-stream plugin run it *)
(* under the fan-out engine: created, started, perhaps dropped and         *)
(* reconnected, stopped and destroyed.                                     *)
(*                                                                         *)
(* Five threads share the output's flags without a lock: the UI thread     *)
(* that starts, stops and destroys it, the connect thread and the send     *)
(* thread of rtmp-stream, the reconnect thread and the thread that ends    *)
(* the data capture.  A step is one access to the flags another thread     *)
(* acts on, or one wait.  The stream delay is off.                         *)
(***************************************************************************)
EXTENDS Naturals

CONSTANTS
    RetryLimits,    \* retry limits an output may have; 0 for no reconnect
    QuickRetry      \* the retry delay may end before the drop's own threads do

ASSUME RetryAssumption == RetryLimits \subseteq Nat /\ QuickRetry \in BOOLEAN

VARIABLES
    exists,         \* the output is created and not yet freed
    active,         \* obs_output.active
    dataActive,     \* obs_output.data_active
    reconnecting,   \* obs_output.reconnecting
    stopping,       \* stopping_event is reset
    retryStop,      \* reconnect_stop_event is set
    retryMax,       \* obs_output.reconnect_retry_max
    retries,        \* obs_output.reconnect_retries
    code,           \* obs_output.stop_code
    connecting,     \* rtmp_stream.connecting
    sending,        \* rtmp_stream.active
    stopEvent,      \* rtmp_stream.stop_event is set
    stopNow,        \* rtmp_stream.stop_ts is 0
    encodeError,    \* rtmp_stream.encode_error
    bound,          \* the output's encoders are connected to the canvas mix
    pc,             \* pc[t]: where thread t is, "none" when it does not run
    ret,            \* ret[t]: where t continues after obs_output_signal_stop
    arg,            \* arg[t]: code t passed to obs_output_signal_stop
    force,          \* the running obs_output_actual_stop is a forced one
    leaving,        \* the UI thread is inside obs_output_destroy
    call,           \* what the UI thread last had accepted or refused
    said,           \* last signal dispatched to the listeners
    lost,           \* this output lost its connection at least once
    late            \* stopping_event was reset behind an ended capture

lifeVars == <<exists, retryMax>>
obsVars == <<lifeVars, active, dataActive, reconnecting, stopping, retryStop,
             retries, code>>
rtmpVars == <<connecting, sending, stopEvent, stopNow, encodeError>>
callVars == <<ret, arg, force, leaving>>
faultVars == <<lost, late>>
outputVars == <<obsVars, rtmpVars, bound, pc, callVars, call, said, faultVars>>

Thread == {"ui", "connect", "send", "retry", "end"}
Code == {"ok", "fail", "encode", "disconnected"}
StopSaid == {"stopOk", "stopError"}
Said == {"none", "start", "reconnect", "reconnectSuccess"} \cup StopSaid

Calls == {"created", "started", "refused", "stopping"}

Goto(t, p) == pc' = [pc EXCEPT ![t] = p]

\* Thread t calls obs_output_signal_stop(c) and continues at r.
Call(t, c, r) ==
    /\ Goto(t, "report")
    /\ arg' = [arg EXCEPT ![t] = c]
    /\ ret' = [ret EXCEPT ![t] = r]

\* obs_output_active.
ObsOutputActive == active \/ reconnecting

OutputInit ==
    /\ exists = FALSE
    /\ active = FALSE
    /\ dataActive = FALSE
    /\ reconnecting = FALSE
    /\ stopping = FALSE
    /\ retryStop = FALSE
    /\ retryMax \in RetryLimits
    /\ retries = 0
    /\ code = "ok"
    /\ connecting = FALSE
    /\ sending = FALSE
    /\ stopEvent = FALSE
    /\ stopNow = FALSE
    /\ encodeError = FALSE
    /\ bound = FALSE
    /\ pc = [t \in Thread |-> IF t = "ui" THEN "idle" ELSE "none"]
    /\ ret = [t \in Thread |-> "none"]
    /\ arg = [t \in Thread |-> "ok"]
    /\ force = FALSE
    /\ leaving = FALSE
    /\ call = "created"
    /\ said = "none"
    /\ lost = FALSE
    /\ late = FALSE

-----------------------------------------------------------------------------
(* The UI thread: obs_output_create and obs_output_start, obs_output_stop, *)
(* obs_output_destroy.                                                     *)

\* Every thread but the UI's has come to its end.
ThreadsGone == \A t \in Thread \ {"ui"} : pc[t] = "none"

\* obs_output_create: a fresh structure, every field cleared.
ObsOutputCreate ==
    /\ pc["ui"] = "idle"
    /\ ~exists
    /\ ThreadsGone
    /\ exists' = TRUE
    /\ active' = FALSE
    /\ dataActive' = FALSE
    /\ reconnecting' = FALSE
    /\ stopping' = FALSE
    /\ retryStop' = FALSE
    /\ retryMax' \in RetryLimits
    /\ retries' = 0
    /\ code' = "ok"
    /\ connecting' = FALSE
    /\ sending' = FALSE
    /\ stopEvent' = FALSE
    /\ stopNow' = FALSE
    /\ encodeError' = FALSE
    /\ bound' = FALSE
    /\ ret' = [t \in Thread |-> "none"]
    /\ arg' = [t \in Thread |-> "ok"]
    /\ force' = FALSE
    /\ leaving' = FALSE
    /\ call' = "created"
    /\ said' = "none"
    /\ lost' = FALSE
    /\ late' = FALSE
    /\ UNCHANGED pc

\* obs_output_start: the service or the encoders may refuse; else the connect
\* thread runs and the call has returned.
ObsOutputStart ==
    /\ pc["ui"] = "idle"
    /\ exists
    /\ call = "created"
    /\ \/ call' = "refused" /\ UNCHANGED <<pc, connecting>>
       \/ call' = "started" /\ Goto("connect", "init") /\ connecting' = TRUE
    /\ UNCHANGED <<obsVars, sending, stopEvent, stopNow, encodeError, bound,
                   callVars, said, faultVars>>

\* obs_output_stop, called by StopOutput and StopAll before they destroy the
\* output: a connecting or dead output ignores it, a reconnecting one is
\* forced, an active one is told to stop at this time.
ObsOutputStop ==
    /\ pc["ui"] = "idle"
    /\ exists
    /\ call # "created"
    /\ call' = IF said \in StopSaid \/ call = "refused" THEN call
                                                     ELSE "stopping"
    /\ \/ /\ ~ObsOutputActive
          /\ Goto("ui", "destroy")
          /\ UNCHANGED <<code, force>>
       \/ /\ reconnecting
          /\ Goto("ui", "quiesce")
          /\ force' = TRUE
          /\ code' = "ok"
       \/ /\ active
          /\ ~reconnecting
          /\ Goto("ui", "quiesce")
          /\ force' = FALSE
          /\ UNCHANGED code
    /\ UNCHANGED <<lifeVars, active, dataActive, reconnecting, stopping,
                   retryStop, retries, rtmpVars, bound, ret, arg, leaving,
                   said, faultVars>>

\* obs_output_actual_stop up to the join of the reconnect thread.
Quiesce ==
    /\ pc["ui"] = "quiesce"
    /\ stopping' = TRUE
    /\ retryStop' = (retryStop \/ reconnecting)
    /\ late' = (late \/ (leaving /\ ~dataActive))
    /\ Goto("ui", IF reconnecting /\ pc["retry"] # "none" THEN "joinRetry"
                                                         ELSE "infoStop")
    /\ UNCHANGED <<lifeVars, active, dataActive, reconnecting, retries, code,
                   rtmpVars, bound, callVars, call, said, lost>>

JoinRetry ==
    /\ pc["ui"] = "joinRetry"
    /\ pc["retry"] = "none"
    /\ Goto("ui", "infoStop")
    /\ UNCHANGED <<obsVars, rtmpVars, bound, callVars, call, said, faultVars>>

\* Where obs_output_actual_stop returns to.
AfterStop == IF leaving THEN "await" ELSE "destroy"

\* rtmp_stream_stop: join a connect in progress, then end the send thread or
\* report a stop from here.
RtmpStreamStop ==
    /\ pc["ui"] = "infoStop"
    /\ \/ /\ stopEvent /\ ~force
          /\ Goto("ui", AfterStop)
          /\ UNCHANGED <<stopEvent, stopNow, arg, ret>>
       \/ /\ ~stopEvent \/ force
          /\ connecting => pc["connect"] = "none"
          /\ stopNow' = force
          /\ IF sending
             THEN /\ stopEvent' = TRUE
                  /\ Goto("ui", AfterStop)
                  /\ UNCHANGED <<arg, ret>>
             ELSE /\ Call("ui", "ok", AfterStop)
                  /\ UNCHANGED stopEvent
    /\ UNCHANGED <<obsVars, connecting, sending, encodeError, bound, force,
                   leaving, call, said, faultVars>>

\* StartOutput reaps the entry of an output that reported its end or never
\* started; it does not call obs_output_stop.
Reap ==
    /\ pc["ui"] = "idle"
    /\ exists
    /\ said \in StopSaid \/ call = "refused"
    /\ Goto("ui", "destroy")
    /\ UNCHANGED <<obsVars, rtmpVars, bound, callVars, call, said, faultVars>>

\* obs_output_destroy: an active output is stopped by force first.
ObsOutputDestroy ==
    /\ pc["ui"] = "destroy"
    /\ leaving' = TRUE
    /\ IF active THEN Goto("ui", "quiesce") /\ force' = TRUE
                 ELSE Goto("ui", "await") /\ UNCHANGED force
    /\ UNCHANGED <<obsVars, rtmpVars, bound, ret, arg, call, said, faultVars>>

\* os_event_wait(stopping_event), then the join of the ending capture.
AwaitStopped ==
    /\ pc["ui"] = "await"
    /\ ~stopping
    /\ pc["end"] = "none"
    /\ Goto("ui", "rtmpDestroy")
    /\ UNCHANGED <<obsVars, rtmpVars, bound, callVars, call, said, faultVars>>

\* rtmp_stream_destroy up to the join of the send thread.
RtmpStreamDestroy ==
    /\ pc["ui"] = "rtmpDestroy"
    /\ \/ /\ stopEvent /\ ~connecting
          /\ Goto("ui", "joinSend")
          /\ UNCHANGED <<stopNow, stopEvent, ret>>
       \/ /\ connecting \/ (sending /\ ~stopEvent)
          /\ connecting => pc["connect"] = "none"
          /\ stopNow' = TRUE
          /\ stopEvent' = TRUE
          /\ IF sending THEN /\ Goto("ui", "endLoud")
                             /\ ret' = [ret EXCEPT !["ui"] = "joinSend"]
                        ELSE Goto("ui", "free") /\ UNCHANGED ret
       \/ /\ ~connecting /\ ~sending /\ ~stopEvent
          /\ Goto("ui", "free")
          /\ UNCHANGED <<stopNow, stopEvent, ret>>
    /\ UNCHANGED <<obsVars, connecting, sending, encodeError, bound, arg,
                   force, leaving, call, said, faultVars>>

JoinSend ==
    /\ pc["ui"] = "joinSend"
    /\ pc["send"] = "none"
    /\ Goto("ui", "free")
    /\ UNCHANGED <<obsVars, rtmpVars, bound, callVars, call, said, faultVars>>

\* The memory is gone.
Free ==
    /\ pc["ui"] = "free"
    /\ Goto("ui", "idle")
    /\ exists' = FALSE
    /\ UNCHANGED <<active, dataActive, reconnecting, stopping, retryStop,
                   retryMax, retries, code, rtmpVars, bound, callVars, call,
                   said, faultVars>>

-----------------------------------------------------------------------------
(* obs_output_signal_stop and what it calls, on whichever thread.          *)

\* can_reconnect.
CanReconnect(c) ==
    \/ reconnecting /\ c # "ok"
    \/ retryMax # 0 /\ c = "disconnected"

SignalStop(t) ==
    /\ pc[t] = "report"
    /\ code' = arg[t]
    /\ IF CanReconnect(arg[t])
       THEN Goto(t, "endQuiet") /\ UNCHANGED reconnecting
       ELSE Goto(t, "endLoud") /\ reconnecting' = FALSE
    /\ UNCHANGED <<lifeVars, active, dataActive, stopping, retryStop, retries,
                   rtmpVars, bound, callVars, call, said, faultVars>>

\* signal_stop: the listeners hear whether the output ended well.
SayStop ==
    /\ said' = IF code = "ok" THEN "stopOk" ELSE "stopError"
    /\ code' = "ok"

\* Mutant: the end of a capture that will be retried is signalled as well.
SaysStopAlways(t) == pc[t] \in {"endQuiet", "endLoud"}

\* The signal argument of obs_output_end_data_capture_internal.
SaysStop(t) == pc[t] = "endLoud"

\* obs_output_end_data_capture_internal: without a capture to end only the
\* signal is left to do; else the capture ends on a thread of its own, which
\* an earlier one has to leave first.
EndDataCapture(t) ==
    /\ pc[t] \in {"endQuiet", "endLoud"}
    /\ LET done == IF pc[t] = "endQuiet" THEN "reconnect" ELSE ret[t]
       IN  IF active /\ dataActive
           THEN /\ pc["end"] = "none"
                /\ dataActive' = FALSE
                /\ pc' = [pc EXCEPT ![t] = done, !["end"] = "detach"]
                /\ UNCHANGED stopping
           ELSE /\ Goto(t, done)
                /\ stopping' = (stopping /\ ~SaysStop(t))
                /\ UNCHANGED dataActive
    /\ IF SaysStop(t) THEN SayStop ELSE UNCHANGED <<said, code>>
    /\ UNCHANGED <<lifeVars, active, reconnecting, retryStop, retries,
                   rtmpVars, bound, callVars, call, faultVars>>

\* Mutant: every drop starts counting again.
TriesSoFarReset == 0

\* Retries already made for the drop being handled.
TriesSoFar == IF reconnecting THEN retries ELSE 0

RetriesLeft == TriesSoFar < retryMax

\* output_reconnect: a stop in progress ends the retries, so does their
\* limit; else one more reconnect thread waits.
OutputReconnect(t) ==
    /\ pc[t] = "reconnect"
    /\ \/ /\ reconnecting /\ retryStop
          /\ reconnecting' = FALSE
          /\ Goto(t, ret[t])
          /\ UNCHANGED <<retries, retryStop, code, said>>
       \/ /\ ~(reconnecting /\ retryStop)
          /\ ~RetriesLeft
          /\ reconnecting' = FALSE
          /\ retries' = TriesSoFar
          /\ code' = "disconnected"
          /\ Goto(t, "endLoud")
          /\ UNCHANGED <<retryStop, said>>
       \/ /\ ~(reconnecting /\ retryStop)
          /\ RetriesLeft
          /\ reconnecting' = TRUE
          /\ retryStop' = FALSE
          /\ retries' = TriesSoFar + 1
          /\ code' = "disconnected"
          /\ said' = "reconnect"
          /\ pc' = [pc EXCEPT ![t] = ret[t], !["retry"] = "wait"]
    /\ UNCHANGED <<lifeVars, active, dataActive, stopping, rtmpVars, bound,
                   callVars, call, faultVars>>

-----------------------------------------------------------------------------
(* end_data_capture_thread and reconnect_thread.                           *)

\* Mutant: the encoders stay attached.
StopEncodersForgets ==
    /\ pc["end"] = "detach"
    /\ Goto("end", "deactivate")
    /\ UNCHANGED <<obsVars, rtmpVars, bound, callVars, call, said, faultVars>>

StopEncoders ==
    /\ pc["end"] = "detach"
    /\ bound' = FALSE
    /\ Goto("end", "deactivate")
    /\ UNCHANGED <<obsVars, rtmpVars, callVars, call, said, faultVars>>

\* Mutant: stopping_event is not set.
DeactivateSilent ==
    /\ pc["end"] = "deactivate"
    /\ active' = FALSE
    /\ Goto("end", "none")
    /\ UNCHANGED <<lifeVars, dataActive, reconnecting, stopping, retryStop,
                   retries, code, rtmpVars, bound, callVars, call, said,
                   faultVars>>

Deactivate ==
    /\ pc["end"] = "deactivate"
    /\ active' = FALSE
    /\ stopping' = FALSE
    /\ Goto("end", "none")
    /\ UNCHANGED <<lifeVars, dataActive, reconnecting, retryStop, retries,
                   code, rtmpVars, bound, callVars, call, said, faultVars>>

\* The retry delay outlasts what was running when it began: the threads that
\* report the drop, and a call the UI thread was in.
RetryDelay ==
    /\ pc["retry"] = "wait"
    /\ \/ QuickRetry
       \/ /\ pc["ui"] = "idle"
          /\ \A t \in {"connect", "send", "end"} : pc[t] = "none"
    /\ Goto("retry", "due")
    /\ UNCHANGED <<obsVars, rtmpVars, bound, callVars, call, said, faultVars>>

\* Mutant: the end of the delay is taken for a stop.
RetryWaitLeaves ==
    /\ pc["retry"] \in {"wait", "due"}
    /\ retryStop \/ pc["retry"] = "due"
    /\ Goto("retry", "leave")
    /\ UNCHANGED <<obsVars, rtmpVars, bound, callVars, call, said, faultVars>>

\* os_event_timedwait: ended by a stop, or at its time.
RetryWait ==
    /\ \/ /\ pc["retry"] \in {"wait", "due"} /\ retryStop
          /\ Goto("retry", "leave")
       \/ pc["retry"] = "due" /\ ~retryStop /\ Goto("retry", "restart")
    /\ UNCHANGED <<obsVars, rtmpVars, bound, callVars, call, said, faultVars>>

\* obs_output_actual_start: waits for a stop in progress; an output whose
\* capture has not ended cannot start again.
RetryStart ==
    /\ pc["retry"] = "restart"
    /\ ~stopping
    /\ code' = "ok"
    /\ \/ /\ active
          /\ Goto("retry", "leave")
          /\ UNCHANGED connecting
       \/ /\ ~active
          /\ pc["end"] = "none"
          /\ pc["connect"] = "none"
          /\ connecting' = TRUE
          /\ pc' = [pc EXCEPT !["retry"] = "leave", !["connect"] = "init"]
    /\ UNCHANGED <<lifeVars, active, dataActive, reconnecting, stopping,
                   retryStop, retries, sending, stopEvent, stopNow,
                   encodeError, bound, callVars, call, said, faultVars>>

RetryLeave ==
    /\ pc["retry"] = "leave"
    /\ reconnecting' = (reconnecting /\ ~retryStop)
    /\ Goto("retry", "none")
    /\ UNCHANGED <<lifeVars, active, dataActive, stopping, retryStop, retries,
                   code, rtmpVars, bound, callVars, call, said, faultVars>>

-----------------------------------------------------------------------------
(* rtmp-stream: connect_thread and send_thread.                            *)

\* init_connect and try_connect: a bad path ends the thread with connecting
\* left set, a failed connect does not; else init_send runs the send thread.
Connect ==
    /\ pc["connect"] = "init"
    /\ stopEvent => pc["send"] = "none"
    /\ encodeError' = FALSE
    /\ \/ /\ \E r \in {"none", "leave"} : Call("connect", "fail", r)
          /\ UNCHANGED sending
       \/ /\ pc' = [pc EXCEPT !["connect"] = "capture", !["send"] = "loop"]
          /\ sending' = TRUE
          /\ UNCHANGED <<arg, ret>>
    /\ UNCHANGED <<obsVars, connecting, stopEvent, stopNow, bound, force,
                   leaving, call, said, faultVars>>

\* obs_output_begin_data_capture: the encoders are hooked up first,
BeginDataCapture ==
    /\ pc["connect"] = "capture"
    /\ ~active
    /\ dataActive' = TRUE
    /\ bound' = TRUE
    /\ Goto("connect", "activate")
    /\ UNCHANGED <<lifeVars, active, reconnecting, stopping, retryStop,
                   retries, code, rtmpVars, callVars, call, said, faultVars>>

\* then the output counts as active,
Activate ==
    /\ pc["connect"] = "activate"
    /\ active' = TRUE
    /\ Goto("connect", "announce")
    /\ UNCHANGED <<lifeVars, dataActive, reconnecting, stopping, retryStop,
                   retries, code, rtmpVars, bound, callVars, call, said,
                   faultVars>>

\* and the listeners hear of it.
Announce ==
    /\ pc["connect"] = "announce"
    /\ \/ /\ reconnecting
          /\ said' = "reconnectSuccess"
          /\ Goto("connect", "settle")
       \/ ~reconnecting /\ said' = "start" /\ Goto("connect", "leave")
    /\ UNCHANGED <<obsVars, rtmpVars, bound, callVars, call, faultVars>>

Settle ==
    /\ pc["connect"] = "settle"
    /\ reconnecting' = FALSE
    /\ Goto("connect", "leave")
    /\ UNCHANGED <<lifeVars, active, dataActive, stopping, retryStop, retries,
                   code, rtmpVars, bound, callVars, call, said, faultVars>>

ConnectLeave ==
    /\ pc["connect"] = "leave"
    /\ connecting' = FALSE
    /\ Goto("connect", "none")
    /\ UNCHANGED <<obsVars, sending, stopEvent, stopNow, encodeError, bound,
                   callVars, call, said, faultVars>>

\* The send loop ends at once for a forced stop, at the stop's packet for a
\* timed one, or when a packet cannot be sent.  After an encoder failure no
\* more packets come.  The first packet fails only once the start is told.
SendLoop ==
    /\ pc["send"] = "loop"
    /\ \/ stopEvent /\ (stopNow \/ ~encodeError) /\ UNCHANGED lost
       \/ /\ bound /\ ~encodeError
          /\ pc["connect"] \notin {"capture", "activate", "announce",
                                 "settle"}
          /\ lost' = TRUE
    /\ Goto("send", "close")
    /\ UNCHANGED <<obsVars, rtmpVars, bound, callVars, call, said, late>>

\* rtmp_stream_data with no packet: the encoder failed.
EncodeFails ==
    /\ pc["send"] = "loop"
    /\ bound
    /\ ~encodeError
    /\ encodeError' = TRUE
    /\ UNCHANGED <<obsVars, connecting, sending, stopEvent, stopNow, bound, pc,
                   callVars, call, said, faultVars>>

\* What the loop's end is reported as.
SendClose ==
    /\ pc["send"] = "close"
    /\ \/ ~stopEvent /\ Call("send", "disconnected", "leave")
       \/ stopEvent /\ encodeError /\ Call("send", "encode", "leave")
       \/ /\ stopEvent /\ ~encodeError
          /\ Goto("send", "endLoud")
          /\ ret' = [ret EXCEPT !["send"] = "leave"]
          /\ UNCHANGED arg
    /\ UNCHANGED <<obsVars, rtmpVars, bound, force, leaving, call, said,
                   faultVars>>

SendLeave ==
    /\ pc["send"] = "leave"
    /\ stopEvent' = FALSE
    /\ sending' = FALSE
    /\ Goto("send", "none")
    /\ UNCHANGED <<obsVars, connecting, stopNow, encodeError, bound, callVars,
                   call, said, faultVars>>

-----------------------------------------------------------------------------
(* The specification.                                                      *)

UserStep == ObsOutputCreate \/ ObsOutputStart \/ ObsOutputStop \/ Reap

UiThread ==
    \/ Quiesce
    \/ JoinRetry
    \/ RtmpStreamStop
    \/ ObsOutputDestroy
    \/ AwaitStopped
    \/ RtmpStreamDestroy
    \/ JoinSend
    \/ Free

ReportStep(t) == SignalStop(t) \/ EndDataCapture(t) \/ OutputReconnect(t)

EndThread == StopEncoders \/ Deactivate

RetryThread == RetryDelay \/ RetryWait \/ RetryStart \/ RetryLeave

ConnectThread ==
    \/ Connect
    \/ BeginDataCapture
    \/ Activate
    \/ Announce
    \/ Settle
    \/ ConnectLeave

SendThread == SendClose \/ SendLeave

OutputNext ==
    \/ UserStep
    \/ UiThread
    \/ \E t \in {"ui", "connect", "send"} : ReportStep(t)
    \/ EndThread
    \/ RetryThread
    \/ ConnectThread
    \/ SendLoop
    \/ EncodeFails
    \/ SendThread

OutputSpec == OutputInit /\ [][OutputNext]_outputVars

\* The scheduler runs every thread that can run, a connect attempt comes to
\* an end and a requested stop reaches its packet.  Nothing is assumed of the
\* user, nor that a connection ever drops or an encoder ever fails.
OutputFairness ==
    /\ WF_outputVars(UiThread)
    /\ \A t \in {"ui", "connect", "send"} : WF_outputVars(ReportStep(t))
    /\ WF_outputVars(EndThread)
    /\ WF_outputVars(RetryThread)
    /\ WF_outputVars(ConnectThread)
    /\ WF_outputVars(stopEvent /\ SendLoop)
    /\ WF_outputVars(SendThread)

OutputFairSpec == OutputSpec /\ OutputFairness

-----------------------------------------------------------------------------
(* Properties.                                                             *)

UiPc == {"idle", "quiesce", "joinRetry", "infoStop", "destroy", "await",
         "rtmpDestroy", "joinSend", "free"}
ReportPc == {"report", "endQuiet", "endLoud", "reconnect"}
WorkerPc == {"none", "init", "capture", "activate", "announce", "settle",
             "loop", "close", "wait", "due", "restart", "detach", "deactivate",
             "leave"}

\* Every variable ranges over the values the code can give it; the retries
\* made never exceed the limit the output was given.
OutputTypeOK ==
    /\ exists \in BOOLEAN /\ active \in BOOLEAN /\ dataActive \in BOOLEAN
    /\ reconnecting \in BOOLEAN /\ stopping \in BOOLEAN
    /\ retryStop \in BOOLEAN /\ connecting \in BOOLEAN /\ sending \in BOOLEAN
    /\ stopEvent \in BOOLEAN /\ stopNow \in BOOLEAN
    /\ encodeError \in BOOLEAN /\ bound \in BOOLEAN /\ force \in BOOLEAN
    /\ leaving \in BOOLEAN /\ lost \in BOOLEAN /\ late \in BOOLEAN
    /\ retryMax \in RetryLimits
    /\ retries \in 0..retryMax
    /\ code \in Code
    /\ pc \in [Thread -> UiPc \cup ReportPc \cup WorkerPc]
    /\ ret \in [Thread -> UiPc \cup WorkerPc]
    /\ arg \in [Thread -> Code]
    /\ call \in Calls
    /\ said \in Said

\* What a started output is doing, by the last signal.
Heard ==
    CASE said = "none" -> "connecting"
      [] said = "reconnect" -> "retrying"
      [] said \in StopSaid -> IF active THEN "draining" ELSE "down"
      [] said \in {"start", "reconnectSuccess"} -> "active"

\* What a listener that hears the signals and asks obs_output_active may
\* take the output to be doing; nothing once ~LiveOutput disconnected it.
Phase ==
    IF ~exists \/ leaving THEN "none"
    ELSE CASE call = "created" -> "ready"
           [] call = "refused" -> "down"
           [] call = "stopping" -> "stopping"
           [] call = "started" -> Heard

Contract == INSTANCE OutputPhases WITH phase <- Phase

\* libobs and rtmp-stream keep the contract the fan-out engine is written
\* against: until a stop is requested the signals come in one of the orders
\* OutputPhases lists, whatever the five threads' interleaving.
ContractKept == Contract!Spec

\* While the encoders pull from the canvas mix obs_output_active says so,
\* which is what CanvasHasActiveOutput relies on: the end thread detaches
\* them before it clears the flag, in a drop, a stop or a forced destroy.
\* The one gap is the connect thread's, between hooking them up and setting
\* the flag.
BoundIsActive == bound => active \/ pc["connect"] = "activate"

\* What the listener was told last is some thread's business.  An output it
\* takes for live has a send thread at work or about to report the end, and
\* one it takes for reconnecting has a thread at the retry: the one waiting,
\* the one connecting, or the one still reporting the drop.
StreamIsAttended ==
    /\ Phase = "active" => pc["send"] # "none"
    /\ Phase = "retrying" =>
         \E t \in {"retry", "connect", "send"} : pc[t] # "none"

\* A drop the user does not act on is recovered or reported within the
\* retries that reconnect_retry_max allows.
RetriesEnd ==
    Phase = "retrying" ~> Phase \in {"active", "down", "stopping", "none"}

\* Stopping and destroying an output that kept its connection ends: each join
\* and each event wait of the UI thread is answered, whether the output was
\* connecting, streaming, had failed or had lost its encoder.  The exception
\* is a forced stop that resets stopping_event behind an ended capture.
StopReturns == pc["ui"] # "idle" ~> pc["ui"] = "idle" \/ lost \/ late
=============================================================================
