-------------------------- MODULE OutputLifeProofs --------------------------
(***************************************************************************)
(* Proofs about the life of an output, for any retry limits and any retry  *)
(* delay: the retries stay within their limit, and encoders hooked to the  *)
(* canvas mix show as an active output.                                    *)
(***************************************************************************)
EXTENDS OutputLife, TLAPS

\* The retries made so far, and where the threads return to.
RetryInv ==
    /\ retryMax \in RetryLimits
    /\ retries \in 0..retryMax
    /\ ret \in [Thread -> UiPc \cup WorkerPc]

\* A thread comes back from obs_output_signal_stop to a point of its own.
ReturnInv ==
    /\ ret["ui"] \in {"none", "await", "destroy", "joinSend"}
    /\ ret["connect"] \in {"none", "leave"}
    /\ ret["send"] \in {"none", "leave"}
    /\ pc["ui"] \in ReportPc => ret["ui"] # "none"

\* The threads' program counters.
PcInv ==
    /\ pc \in [Thread -> UiPc \cup ReportPc \cup WorkerPc]
    /\ pc["ui"] \in UiPc \cup ReportPc
    /\ pc["connect"] \in {"none", "init", "capture", "activate", "announce",
                          "settle", "leave"} \cup ReportPc
    /\ pc["send"] \in {"none", "loop", "close", "leave"} \cup ReportPc
    /\ pc["retry"] \in {"none", "wait", "due", "restart", "leave"}
    /\ pc["end"] \in {"none", "detach", "deactivate"}

\* The capture's two ends: the connect thread hooks the encoders up before the
\* output is active, the end thread detaches them while it is.
CaptureInv ==
    /\ BoundIsActive
    /\ pc["connect"] = "activate" => ~active
    /\ pc["end"] = "detach" => active
    /\ pc["end"] = "deactivate" => active /\ ~bound

\* An output that was created and not started has no thread at work.
FreshInv ==
    call = "created" => ThreadsGone /\ pc["ui"] = "idle" /\ said = "none"

\* The inductive invariant.
OutputInv == RetryInv /\ PcInv /\ ReturnInv /\ CaptureInv /\ FreshInv

\* Names, and an output that was created and not started is as it was made.
NamesInv ==
    /\ said \in Said /\ call \in Calls /\ arg \in [Thread -> Code]
    /\ call = "created" =>
         ~active /\ ~dataActive /\ ~reconnecting /\ ~stopping /\ ~retryStop
         /\ ~stopEvent /\ ~leaving

\* The connect thread of a start or a retry is at work: up to the capture
\* nothing else is, and then only the send loop.
Connecting ==
    /\ pc["retry"] \in {"none", "leave"} /\ pc["end"] = "none"
    /\ pc["connect"] = "report" => arg["connect"] = "fail"
    /\ \/ /\ pc["connect"] \in {"init", "report", "endQuiet", "reconnect",
                                "endLoud"}
          /\ pc["send"] = "none" /\ ~active /\ ~dataActive
       \/ /\ pc["connect"] = "capture" /\ pc["send"] = "loop"
          /\ ~active /\ ~dataActive
       \/ /\ pc["connect"] = "activate" /\ pc["send"] = "loop"
          /\ ~active /\ dataActive
       \/ /\ pc["connect"] = "announce" /\ pc["send"] = "loop"
          /\ active /\ dataActive

\* The connection dropped and the retry thread has not restarted it yet.
Waiting ==
    /\ pc["connect"] \in {"none", "leave"} /\ pc["send"] \in {"none", "leave"}
    /\ reconnecting /\ ~dataActive
    /\ pc["end"] = "none" => ~active
    /\ \/ pc["retry"] = "wait"
       \/ /\ pc["retry"] \in {"due", "restart"}
          /\ \A t \in {"connect", "send", "end"} : pc[t] = "none"

\* The output is live, up to the report of a drop.
Live ==
    /\ pc["retry"] \in {"none", "leave"}
    /\ \/ /\ pc["connect"] = "settle" /\ pc["send"] = "loop"
          /\ pc["end"] = "none" /\ active /\ dataActive
       \/ /\ pc["connect"] \in {"none", "leave"} /\ ~reconnecting
          /\ \/ /\ pc["send"] \in {"loop", "close", "report", "endQuiet",
                                   "endLoud"}
                /\ pc["end"] = "none" /\ active /\ dataActive
                /\ pc["send"] = "endQuiet" => retryMax # 0
             \/ /\ pc["send"] = "reconnect" /\ ~dataActive /\ retryMax # 0
                /\ pc["end"] = "none" => ~active

\* The listeners heard the end, and no thread will begin anything.
Over ==
    /\ pc["connect"] \in {"none", "leave"} /\ pc["send"] \in {"none", "leave"}
    /\ pc["retry"] \in {"none", "leave"}
    /\ ~reconnecting /\ ~dataActive
    /\ pc["ui"] \in {"idle", "quiesce", "infoStop", "destroy", "report",
                     "endLoud"}
    /\ pc["ui"] \in {"report", "endLoud"} => ret["ui"] = "destroy"
    /\ pc["ui"] = "report" => arg["ui"] = "ok"

\* Nobody has asked a started output to stop.
Undisturbed == pc["ui"] = "idle" /\ ~stopping /\ ~retryStop /\ ~stopEvent

\* What the threads are doing agrees with what the listeners heard last.
StageInv ==
    call = "started" /\ exists /\ ~leaving =>
        \/ said \in StopSaid /\ Over
        \/ Undisturbed /\ said = "none" /\ Connecting /\ ~reconnecting
           /\ pc["connect"] \notin {"endQuiet", "reconnect"}
        \/ /\ Undisturbed /\ said = "reconnect"
           /\ \/ Waiting
              \/ Connecting /\ (reconnecting <=> pc["connect"] # "endLoud")
        \/ Undisturbed /\ said \in {"start", "reconnectSuccess"} /\ Live

\* The inductive invariant of an output whose retries are not quick.
StagedInv == NamesInv /\ StageInv

-----------------------------------------------------------------------------

LEMMA InitOutputInv == OutputInit => OutputInv
<1> SUFFICES ASSUME OutputInit PROVE OutputInv
  OBVIOUS
<1> USE DEF OutputInit, Thread
<1>1. RetryInv
  BY RetryAssumption DEF RetryInv, UiPc, WorkerPc
<1>2. PcInv
  BY DEF PcInv, UiPc, WorkerPc
<1>3. ReturnInv
  BY DEF ReturnInv, ReportPc
<1>4. CaptureInv
  BY DEF CaptureInv, BoundIsActive
<1>5. FreshInv
  BY DEF FreshInv, ThreadsGone
<1> QED
  BY <1>1, <1>2, <1>3, <1>4, <1>5 DEF OutputInv

LEMMA StutterOutputInv ==
  ASSUME OutputInv, UNCHANGED outputVars
  PROVE  OutputInv'
  BY DEF OutputInv, outputVars, obsVars, lifeVars, rtmpVars, callVars,
         faultVars, RetryInv, PcInv, ReturnInv, CaptureInv, BoundIsActive,
         FreshInv, ThreadsGone

-----------------------------------------------------------------------------
(* The UI thread.                                                          *)

LEMMA CreateOutputInv ==
  ASSUME OutputInv, ObsOutputCreate
  PROVE  OutputInv'
<1> USE DEF ObsOutputCreate, OutputInv, Thread
<1>1. RetryInv'
  BY RetryAssumption DEF RetryInv, UiPc, WorkerPc
<1>2. PcInv'
  BY DEF PcInv
<1>3. ReturnInv'
  BY DEF ReturnInv, ReportPc
<1>4. CaptureInv'
  BY DEF CaptureInv, BoundIsActive, ThreadsGone
<1>5. FreshInv'
  BY DEF FreshInv, ThreadsGone
<1> QED
  BY <1>1, <1>2, <1>3, <1>4, <1>5

LEMMA UserOutputInv ==
  ASSUME OutputInv, ObsOutputStart \/ ObsOutputStop \/ Reap
  PROVE  OutputInv'
<1> USE DEF ObsOutputStart, ObsOutputStop, Reap, Goto, OutputInv, Thread,
            obsVars, lifeVars, rtmpVars, callVars, faultVars
<1>1. RetryInv'
  BY DEF RetryInv, UiPc, WorkerPc
<1>2. PcInv'
  BY DEF PcInv, UiPc, WorkerPc
<1>3. ReturnInv'
  BY DEF ReturnInv, PcInv, ReportPc
<1>4. CaptureInv'
  BY DEF CaptureInv, BoundIsActive, PcInv, FreshInv, ThreadsGone
<1>5. FreshInv'
  BY Zenon DEF FreshInv, ThreadsGone, PcInv, StopSaid
<1> QED
  BY <1>1, <1>2, <1>3, <1>4, <1>5

LEMMA UiOutputInv ==
  ASSUME OutputInv, UiThread
  PROVE  OutputInv'
<1> USE DEF UiThread, Quiesce, JoinRetry, RtmpStreamStop, AfterStop, Call,
            ObsOutputDestroy, AwaitStopped, RtmpStreamDestroy, JoinSend, Free,
            Goto, OutputInv, Thread, obsVars, lifeVars, rtmpVars, callVars,
            faultVars
<1>1. RetryInv'
  BY DEF RetryInv, UiPc, WorkerPc, ReportPc
<1>2. PcInv'
  BY DEF PcInv, UiPc, ReportPc
<1>3. ReturnInv'
  BY DEF ReturnInv, RetryInv, PcInv, ReportPc
<1>4. CaptureInv'
  BY DEF CaptureInv, BoundIsActive, PcInv, FreshInv, ThreadsGone
<1>5. FreshInv'
  BY DEF FreshInv, ThreadsGone, PcInv
<1> QED
  BY <1>1, <1>2, <1>3, <1>4, <1>5, Zenon
-----------------------------------------------------------------------------
(* obs_output_signal_stop, on the UI, connect or send thread.              *)

LEMMA SignalOutputInv ==
  ASSUME OutputInv, NEW t \in {"ui", "connect", "send"},
         SignalStop(t) \/ EndDataCapture(t)
  PROVE  OutputInv'
<1> USE DEF SignalStop, EndDataCapture, Goto, OutputInv, Thread, obsVars,
            lifeVars, rtmpVars, callVars, faultVars
<1>1. RetryInv'
  BY DEF RetryInv
<1>2. PcInv'
  BY DEF PcInv, ReturnInv, ReportPc, UiPc, WorkerPc
<1>3. ReturnInv'
  BY DEF ReturnInv, PcInv, ReportPc
<1>4. CaptureInv'
  BY DEF CaptureInv, BoundIsActive, PcInv, ReturnInv, ReportPc
<1>5. FreshInv'
  BY DEF FreshInv, ThreadsGone
<1> QED
  BY <1>1, <1>2, <1>3, <1>4, <1>5

LEMMA ReconnectOutputInv ==
  ASSUME OutputInv, NEW t \in {"ui", "connect", "send"}, OutputReconnect(t)
  PROVE  OutputInv'
<1> USE DEF OutputReconnect, Goto, OutputInv, Thread, obsVars, lifeVars,
            rtmpVars, callVars, faultVars
<1>1. RetryInv'
  BY RetryAssumption DEF RetryInv, RetriesLeft, TriesSoFar
<1>2. PcInv'
  BY DEF PcInv, ReturnInv, ReportPc, UiPc, WorkerPc
<1>3. ReturnInv'
  BY DEF ReturnInv, PcInv, ReportPc
<1>4. CaptureInv'
  BY DEF CaptureInv, BoundIsActive, PcInv, ReturnInv
<1>5. FreshInv'
  BY DEF FreshInv, ThreadsGone
<1> QED
  BY <1>1, <1>2, <1>3, <1>4, <1>5

-----------------------------------------------------------------------------
(* The other threads.                                                      *)

LEMMA EndOutputInv ==
  ASSUME OutputInv, EndThread
  PROVE  OutputInv'
<1> USE DEF EndThread, StopEncoders, Deactivate, Goto, OutputInv, Thread,
            obsVars, lifeVars, rtmpVars, callVars, faultVars
<1>1. RetryInv'
  BY DEF RetryInv
<1>2. PcInv' /\ ReturnInv'
  BY DEF PcInv, ReturnInv, WorkerPc
<1>3. CaptureInv'
  BY DEF CaptureInv, BoundIsActive, PcInv
<1>4. FreshInv'
  BY Zenon DEF FreshInv, ThreadsGone
<1> QED
  BY <1>1, <1>2, <1>3, <1>4

LEMMA RetryOutputInv ==
  ASSUME OutputInv, RetryThread
  PROVE  OutputInv'
<1> USE DEF RetryThread, RetryDelay, RetryWait, RetryStart, RetryLeave, Goto,
            OutputInv, Thread, obsVars, lifeVars, rtmpVars, callVars,
            faultVars
<1>1. RetryInv'
  BY Zenon DEF RetryInv
<1>2. PcInv' /\ ReturnInv'
  BY DEF PcInv, ReturnInv, WorkerPc
<1>3. CaptureInv'
  BY DEF CaptureInv, BoundIsActive, PcInv
<1>4. FreshInv'
  BY Zenon DEF FreshInv, ThreadsGone
<1> QED
  BY <1>1, <1>2, <1>3, <1>4, Zenon

LEMMA ConnectOutputInv ==
  ASSUME OutputInv, ConnectThread
  PROVE  OutputInv'
<1> USE DEF ConnectThread, Connect, BeginDataCapture, Activate, Announce,
            Settle, ConnectLeave, Call, Goto, OutputInv, Thread, obsVars,
            lifeVars, rtmpVars, callVars, faultVars
<1>1. RetryInv'
  BY DEF RetryInv, WorkerPc
<1>2. PcInv'
  BY DEF PcInv, WorkerPc, ReportPc
<1>3. ReturnInv'
  BY DEF ReturnInv, RetryInv, PcInv
<1>4. CaptureInv'
  BY DEF CaptureInv, BoundIsActive, PcInv
<1>5. FreshInv'
  BY Zenon DEF FreshInv, ThreadsGone
<1> QED
  BY <1>1, <1>2, <1>3, <1>4, <1>5, Zenon

LEMMA SendOutputInv ==
  ASSUME OutputInv, SendLoop \/ EncodeFails \/ SendThread
  PROVE  OutputInv'
<1> USE DEF SendLoop, EncodeFails, SendThread, SendClose, SendLeave, Call,
            Goto, OutputInv, Thread, obsVars, lifeVars, rtmpVars, callVars,
            faultVars
<1>1. RetryInv'
  BY DEF RetryInv, WorkerPc
<1>2. PcInv'
  BY DEF PcInv, WorkerPc, ReportPc
<1>3. ReturnInv'
  BY DEF ReturnInv, RetryInv, PcInv
<1>4. CaptureInv'
  BY DEF CaptureInv, BoundIsActive, PcInv
<1>5. FreshInv'
  BY DEF FreshInv, ThreadsGone
<1> QED
  BY <1>1, <1>2, <1>3, <1>4, <1>5, Zenon

LEMMA InitStage == OutputInit => StagedInv
  BY DEF OutputInit, StagedInv, NamesInv, StageInv, Said, Calls, Code, Thread

LEMMA UserStage ==
  ASSUME OutputInv, StagedInv, UserStep
  PROVE  StagedInv'
<1> USE DEF OutputInv, StagedInv, PcInv, ReturnInv, ReportPc, Goto, Thread,
            obsVars, lifeVars, rtmpVars, callVars, faultVars
<1>1. NamesInv'
  BY DEF NamesInv, Said, Calls, Code, StopSaid, FreshInv, ThreadsGone,
         UserStep, ObsOutputCreate, ObsOutputStart, ObsOutputStop, Reap,
         ObsOutputActive
<1> USE DEF StageInv, Over, Undisturbed, Connecting, Waiting, Live
<1>2. ASSUME ObsOutputCreate PROVE StageInv'
  BY <1>2, Zenon DEF ObsOutputCreate, ThreadsGone, StopSaid
<1>3. ASSUME ObsOutputStart PROVE StageInv'
  BY <1>3, Zenon
     DEF ObsOutputStart, FreshInv, ThreadsGone, NamesInv, StopSaid, RetryInv
<1>4. ASSUME ObsOutputStop PROVE StageInv'
  BY <1>4, Zenon DEF ObsOutputStop, ObsOutputActive, StopSaid
<1>5. ASSUME Reap PROVE StageInv'
  BY <1>5 DEF Reap, StopSaid
<1> QED
  BY <1>1, <1>2, <1>3, <1>4, <1>5, Zenon DEF UserStep

LEMMA UiStage ==
  ASSUME OutputInv, StagedInv, UiThread
  PROVE  StagedInv'
<1> USE DEF OutputInv, StagedInv, PcInv, ReturnInv, ReportPc, Goto, Thread,
            obsVars, lifeVars, rtmpVars, callVars, faultVars
<1>1. NamesInv'
  BY DEF NamesInv, Said, Calls, Code, StopSaid, FreshInv, ThreadsGone,
         UiThread, Quiesce, JoinRetry, RtmpStreamStop, ObsOutputDestroy,
         AwaitStopped, RtmpStreamDestroy, JoinSend, Free, AfterStop, Call
<1> USE DEF StageInv, Over, Undisturbed, Connecting, Waiting, Live
<1>2. ASSUME Quiesce PROVE StageInv'
  BY <1>2, Zenon DEF Quiesce, StopSaid
<1>3. ASSUME JoinRetry PROVE StageInv'
  BY <1>3 DEF JoinRetry, StopSaid
<1>4. ASSUME RtmpStreamStop PROVE StageInv'
  <2> SUFFICES ASSUME call = "started", exists, ~leaving PROVE StageInv'
    BY <1>4, Zenon DEF RtmpStreamStop
  <2>1. said \in StopSaid /\ Over
    BY <1>4, Zenon DEF RtmpStreamStop
  <2>2. UNCHANGED <<said, reconnecting, dataActive>>
    BY <1>4, Zenon DEF RtmpStreamStop
  <2>3. CASE pc' = [pc EXCEPT !["ui"] = "destroy"] /\ UNCHANGED <<arg, ret>>
    BY <1>4, <2>1, <2>2, <2>3 DEF RtmpStreamStop
  <2>4. CASE Call("ui", "ok", "destroy")
    BY <1>4, <2>1, <2>2, <2>4 DEF RtmpStreamStop, Call, RetryInv, NamesInv
  <2> QED
    BY <1>4, <2>3, <2>4, Zenon DEF RtmpStreamStop, AfterStop
<1>5. ASSUME ObsOutputDestroy PROVE StageInv'
  BY <1>5, Zenon DEF ObsOutputDestroy, StopSaid
<1>6. ASSUME AwaitStopped PROVE StageInv'
  BY <1>6, Zenon DEF AwaitStopped, StopSaid
<1>7. ASSUME RtmpStreamDestroy PROVE StageInv'
  BY <1>7, Zenon DEF RtmpStreamDestroy, StopSaid
<1>8. ASSUME JoinSend PROVE StageInv'
  BY <1>8, Zenon DEF JoinSend, StopSaid
<1>9. ASSUME Free PROVE StageInv'
  BY <1>9 DEF Free, StopSaid
<1> QED
  BY <1>1, <1>2, <1>3, <1>4, <1>5, <1>6, <1>7, <1>8, <1>9, Zenon DEF UiThread

LEMMA SignalStopStage ==
  ASSUME OutputInv, StagedInv, ~QuickRetry,
         NEW t \in {"ui", "connect", "send"}, SignalStop(t)
  PROVE  StagedInv'
<1> USE DEF OutputInv, StagedInv, SignalStop, CanReconnect, Goto, Thread,
            obsVars, lifeVars, rtmpVars, callVars, faultVars
<1>1. NamesInv'
  BY DEF NamesInv, Said, Calls, Code, StopSaid, FreshInv, ThreadsGone, PcInv
<1>2. StageInv'
  <2> SUFFICES ASSUME call = "started", exists, ~leaving PROVE StageInv'
    BY DEF StageInv
  <2>1. UNCHANGED <<said, active, dataActive, stopping, retryStop, stopEvent,
                    call, exists, leaving, ret, arg, retryMax>>
    BY Zenon
  <2>2. CASE t = "ui"
    <3>1. said \in StopSaid /\ Over
      BY <2>2 DEF StageInv, Undisturbed
    <3>2. pc' = [pc EXCEPT !["ui"] = "endLoud"] /\ ~reconnecting'
      BY <2>2, <3>1 DEF Over
    <3> QED
      BY <2>1, <2>2, <3>1, <3>2 DEF StageInv, Over, PcInv
  <2>3. CASE t = "connect"
    <3>1. /\ Undisturbed /\ Connecting
          /\ \/ said = "none" /\ ~reconnecting
             \/ said = "reconnect"
      BY <2>3, Zenon DEF StageInv, Over, Waiting, Live
    <3>2. CASE CanReconnect(arg["connect"])
      BY <2>1, <2>3, <3>1, <3>2 DEF StageInv, Undisturbed, Connecting, PcInv
    <3>3. CASE ~CanReconnect(arg["connect"])
      BY <2>1, <2>3, <3>1, <3>3 DEF StageInv, Undisturbed, Connecting, PcInv
    <3> QED
      BY <3>2, <3>3, Zenon
  <2>4. CASE t = "send"
    <3>1. Undisturbed /\ Live /\ said \in {"start", "reconnectSuccess"}
      BY <2>4 DEF StageInv, Over, Connecting, Waiting
    <3> QED
      BY <2>1, <2>4, <3>1 DEF StageInv, Undisturbed, Live, PcInv
  <2> QED
    BY <2>2, <2>3, <2>4, Zenon
<1> QED
  BY <1>1, <1>2

LEMMA EndDataCaptureStage ==
  ASSUME OutputInv, StagedInv, ~QuickRetry,
         NEW t \in {"ui", "connect", "send"}, EndDataCapture(t)
  PROVE  StagedInv'
<1> USE DEF OutputInv, StagedInv, EndDataCapture, SaysStop, SayStop, Goto,
            Thread, obsVars, lifeVars, rtmpVars, callVars, faultVars
<1>1. NamesInv'
  BY DEF NamesInv, Said, Calls, Code, StopSaid, FreshInv, ThreadsGone, PcInv
<1>2. StageInv'
  <2> SUFFICES ASSUME call = "started", exists, ~leaving PROVE StageInv'
    BY DEF StageInv
  <2>1. UNCHANGED <<active, reconnecting, retryStop, stopEvent, call, exists,
                    leaving, ret, arg, retryMax>>
    BY Zenon
  <2>2. CASE t = "ui"
    <3>1. said \in StopSaid /\ Over
      BY <2>2, Zenon DEF StageInv, Undisturbed
    <3> QED
      BY <2>1, <2>2, <3>1 DEF StageInv, Over, PcInv, StopSaid
  <2>3. CASE t = "connect"
    <3>1. /\ Undisturbed /\ Connecting
          /\ IF pc["connect"] = "endQuiet"
             THEN said = "reconnect" /\ reconnecting
             ELSE ~reconnecting
      BY <2>3, Zenon DEF StageInv, Over, Waiting, Live
    <3>2. UNCHANGED dataActive /\ ~active /\ ~dataActive
      BY <2>3, <3>1, Zenon DEF Connecting
    <3>3. CASE pc["connect"] = "endQuiet"
      <4>1. UNCHANGED said /\ ~stopping'
        BY <2>3, <3>1, <3>2, <3>3, Zenon DEF Undisturbed
      <4>2. pc' = [pc EXCEPT !["connect"] = "reconnect"]
        BY <2>3, <3>2, <3>3, Zenon
      <4> QED
        BY <2>1, <3>1, <3>2, <3>3, <4>1, <4>2
           DEF StageInv, Undisturbed, Connecting, PcInv
    <3>4. CASE pc["connect"] = "endLoud"
      <4>1. said' \in StopSaid
        BY <2>3, <3>4 DEF StopSaid
      <4>2. pc' = [pc EXCEPT !["connect"] = ret["connect"]]
        BY <2>3, <3>2, <3>4
      <4> QED
        BY <2>1, <3>1, <3>2, <3>4, <4>1, <4>2
           DEF StageInv, Undisturbed, Connecting, Over, PcInv, ReturnInv
    <3> QED
      BY <2>3, <3>3, <3>4, Zenon
  <2>4. CASE t = "send"
    <3>1. Undisturbed /\ Live /\ said \in {"start", "reconnectSuccess"}
      BY <2>4 DEF StageInv, Over, Connecting, Waiting
    <3> QED
      BY <2>1, <2>4, <3>1
         DEF StageInv, Undisturbed, Live, PcInv, ReturnInv, Over, StopSaid
  <2> QED
    BY <2>2, <2>3, <2>4, Zenon
<1> QED
  BY <1>1, <1>2, Zenon

LEMMA OutputReconnectStage ==
  ASSUME OutputInv, StagedInv, ~QuickRetry,
         NEW t \in {"ui", "connect", "send"}, OutputReconnect(t)
  PROVE  StagedInv'
<1> USE DEF OutputInv, StagedInv, OutputReconnect, RetriesLeft, TriesSoFar,
            Goto, Thread, obsVars, lifeVars, rtmpVars, callVars, faultVars
<1>1. NamesInv'
  BY Zenon DEF NamesInv, Said, Calls, Code, StopSaid, FreshInv, ThreadsGone, PcInv
<1>2. StageInv'
  <2> SUFFICES ASSUME call = "started", exists, ~leaving PROVE StageInv'
    BY Zenon DEF StageInv
  <2>1. UNCHANGED <<active, dataActive, stopping, stopEvent, call, exists,
                    leaving, ret, arg, retryMax>>
    BY Zenon
  <2>2. CASE t = "ui"
    BY <2>2, Zenon DEF StageInv, Undisturbed, Over
  <2>3. CASE t = "connect"
    <3>1. Undisturbed /\ Connecting /\ said = "reconnect" /\ reconnecting
      BY <2>3 DEF StageInv, Over, Waiting, Live
    <3> QED
      BY <2>1, <2>3, <3>1
         DEF StageInv, Undisturbed, Connecting, PcInv, ReturnInv, Waiting
  <2>4. CASE t = "send"
    <3>1. Undisturbed /\ Live /\ said \in {"start", "reconnectSuccess"}
      BY <2>4 DEF StageInv, Over, Connecting, Waiting
    <3> QED
      BY <2>1, <2>4, <3>1, RetryAssumption
         DEF StageInv, Undisturbed, Live, PcInv, ReturnInv, Waiting, RetryInv
  <2> QED
    BY <2>2, <2>3, <2>4, Zenon
<1> QED
  BY <1>1, <1>2, Zenon

LEMMA EndStage ==
  ASSUME OutputInv, StagedInv, EndThread
  PROVE  StagedInv'
<1> USE DEF OutputInv, StagedInv, PcInv, ReturnInv, ReportPc, Goto, Thread,
            obsVars, lifeVars, rtmpVars, callVars, faultVars
<1>1. NamesInv'
  BY DEF NamesInv, Said, Calls, Code, StopSaid, FreshInv, ThreadsGone,
         EndThread, StopEncoders, Deactivate
<1> USE DEF StageInv, Over, Undisturbed, Connecting, Waiting, Live
<1>2. ASSUME StopEncoders PROVE StageInv'
  BY <1>2, Zenon DEF StopEncoders, StopSaid
<1>3. ASSUME Deactivate PROVE StageInv'
  BY <1>3, Zenon DEF Deactivate, StopSaid
<1> QED
  BY <1>1, <1>2, <1>3, Zenon DEF EndThread

LEMMA RetryStage ==
  ASSUME OutputInv, StagedInv, ~QuickRetry, RetryThread
  PROVE  StagedInv'
<1> USE DEF OutputInv, StagedInv, PcInv, ReturnInv, ReportPc, Goto, Thread,
            obsVars, lifeVars, rtmpVars, callVars, faultVars
<1>1. NamesInv'
  BY Zenon DEF NamesInv, Said, Calls, Code, StopSaid, FreshInv, ThreadsGone,
         RetryThread, RetryDelay, RetryWait, RetryStart, RetryLeave
<1> USE DEF StageInv, Over, Undisturbed, Connecting, Waiting, Live
<1>2. ASSUME RetryDelay PROVE StageInv'
  BY <1>2, Zenon DEF RetryDelay, StopSaid
<1>3. ASSUME RetryWait PROVE StageInv'
  BY <1>3, Zenon DEF RetryWait, StopSaid
<1>4. ASSUME RetryStart PROVE StageInv'
  BY <1>4, Zenon DEF RetryStart, StopSaid
<1>5. ASSUME RetryLeave PROVE StageInv'
  <2> SUFFICES ASSUME call = "started", exists, ~leaving PROVE StageInv'
    BY <1>5, Zenon DEF RetryLeave
  <2>1. UNCHANGED <<said, active, dataActive, stopping, retryStop, stopEvent,
                    call, exists, leaving, ret, arg, retryMax>>
    BY <1>5 DEF RetryLeave
  <2>2. /\ ~reconnecting => ~reconnecting'
        /\ reconnecting /\ ~retryStop => reconnecting'
    BY <1>5, Zenon DEF RetryLeave
  <2>3. pc' = [pc EXCEPT !["retry"] = "none"] /\ pc["retry"] = "leave"
    BY <1>5 DEF RetryLeave
  <2> QED
    BY <2>1, <2>2, <2>3
<1> QED
  BY <1>1, <1>2, <1>3, <1>4, <1>5, Zenon DEF RetryThread

LEMMA ConnectStage ==
  ASSUME OutputInv, StagedInv, ConnectThread
  PROVE  StagedInv'
<1> USE DEF OutputInv, StagedInv, PcInv, ReturnInv, ReportPc, Goto, Thread,
            obsVars, lifeVars, rtmpVars, callVars, faultVars
<1>1. NamesInv'
  BY DEF NamesInv, Said, Calls, Code, StopSaid, FreshInv, ThreadsGone,
         ConnectThread, Connect, BeginDataCapture, Activate, Announce, Settle,
         ConnectLeave, Call
<1> USE DEF StageInv, Over, Undisturbed, Connecting, Waiting, Live
<1>2. ASSUME Connect PROVE StageInv'
  BY <1>2 DEF Connect, Call, NamesInv, StopSaid, RetryInv
<1>3. ASSUME BeginDataCapture PROVE StageInv'
  BY <1>3 DEF BeginDataCapture, StopSaid
<1>4. ASSUME Activate PROVE StageInv'
  BY <1>4, Zenon DEF Activate, StopSaid
<1>5. ASSUME Announce PROVE StageInv'
  BY <1>5, Zenon DEF Announce, StopSaid, NamesInv, RetryInv
<1>6. ASSUME Settle PROVE StageInv'
  BY <1>6, Zenon DEF Settle, StopSaid
<1>7. ASSUME ConnectLeave PROVE StageInv'
  BY <1>7, Zenon DEF ConnectLeave, StopSaid
<1> QED
  BY <1>1, <1>2, <1>3, <1>4, <1>5, <1>6, <1>7, Zenon DEF ConnectThread

LEMMA SendStage ==
  ASSUME OutputInv, StagedInv, SendLoop \/ EncodeFails \/ SendThread
  PROVE  StagedInv'
<1> USE DEF OutputInv, StagedInv, PcInv, ReturnInv, ReportPc, Goto, Thread,
            obsVars, lifeVars, rtmpVars, callVars, faultVars
<1>1. NamesInv'
  BY DEF NamesInv, Said, Calls, Code, StopSaid, FreshInv, ThreadsGone,
         SendThread, SendLoop, EncodeFails, SendClose, SendLeave, Call
<1> USE DEF StageInv, Over, Undisturbed, Connecting, Waiting, Live
<1>2. ASSUME SendLoop PROVE StageInv'
  BY <1>2, Zenon DEF SendLoop, StopSaid
<1>3. ASSUME EncodeFails PROVE StageInv'
  BY <1>3, Zenon DEF EncodeFails, StopSaid
<1>4. ASSUME SendClose PROVE StageInv'
  BY <1>4, Zenon DEF SendClose, Call, StopSaid, NamesInv, RetryInv
<1>5. ASSUME SendLeave PROVE StageInv'
  BY <1>5, Zenon DEF SendLeave, StopSaid
<1> QED
  BY <1>1, <1>2, <1>3, <1>4, <1>5, Zenon DEF SendThread

-----------------------------------------------------------------------------
(* The theorems about any output.                                          *)

\* The invariant holds in every state of an output's life.
THEOREM OutputInvariant == OutputSpec => []OutputInv
<1>1. OutputInv /\ [OutputNext]_outputVars => OutputInv'
  BY StutterOutputInv, CreateOutputInv, UserOutputInv, UiOutputInv,
     SignalOutputInv, ReconnectOutputInv, EndOutputInv, RetryOutputInv,
     ConnectOutputInv, SendOutputInv
     DEF OutputNext, UserStep, ReportStep
<1> QED
  BY <1>1, InitOutputInv, PTL DEF OutputSpec

\* While the encoders pull from the canvas mix the output counts as active,
\* but for the instant in which the connect thread hooks them up: whatever
\* the retry limit, the retry delay and the order of the five threads.
THEOREM CaptureShows == OutputSpec => []BoundIsActive
<1>1. OutputInv => BoundIsActive
  BY DEF OutputInv, CaptureInv
<1> QED
  BY <1>1, OutputInvariant, PTL

\* output_reconnect never makes more retries than reconnect_retry_max.
THEOREM RetriesBounded == OutputSpec => [](retries <= retryMax)
<1>1. OutputInv => retries <= retryMax
  BY RetryAssumption DEF OutputInv, RetryInv
<1> QED
  BY <1>1, OutputInvariant, PTL

LEMMA StutterStage ==
  ASSUME StagedInv, UNCHANGED outputVars
  PROVE  StagedInv'
  BY DEF StagedInv, outputVars, obsVars, lifeVars, rtmpVars, callVars,
         faultVars, NamesInv, StageInv, Over, Undisturbed, Connecting,
         Waiting, Live

\* While the retry delay outlasts what was running as it began, the threads of
\* an output do what its listeners were told last.
THEOREM StagedInvariant ==
  ASSUME ~QuickRetry
  PROVE  OutputSpec => []StagedInv
<1>1. OutputInv /\ StagedInv /\ [OutputNext]_outputVars => StagedInv'
  <2> SUFFICES ASSUME OutputInv, StagedInv, [OutputNext]_outputVars
               PROVE  StagedInv'
    OBVIOUS
  <2> QED
    BY UserStage, UiStage, SignalStopStage, EndDataCaptureStage,
       OutputReconnectStage, EndStage, RetryStage, ConnectStage, SendStage,
       StutterStage
       DEF OutputNext, ReportStep
<1> QED
  BY <1>1, InitStage, OutputInvariant, PTL DEF OutputSpec

-----------------------------------------------------------------------------
(* The contract: the phases that the listeners see.                        *)

\* The phase of an output by what was called and what was said last.
PhaseTable ==
    /\ ~exists \/ leaving => Phase = "none"
    /\ exists /\ ~leaving =>
         /\ call = "created" => Phase = "ready"
         /\ call = "refused" => Phase = "down"
         /\ call = "stopping" => Phase = "stopping"
         /\ call = "started" =>
              /\ said = "none" => Phase = "connecting"
              /\ said = "reconnect" => Phase = "retrying"
              /\ said \in {"start", "reconnectSuccess"} => Phase = "active"
              /\ said \in StopSaid /\ active => Phase = "draining"
              /\ said \in StopSaid /\ ~active => Phase = "down"

LEMMA Tabulated == StagedInv /\ StagedInv' => PhaseTable /\ PhaseTable'
<1>1. StagedInv => PhaseTable
  BY DEF StagedInv, NamesInv, PhaseTable, Phase, Heard, Said, StopSaid, Calls
<1>2. StagedInv' => PhaseTable'
  BY Zenon DEF StagedInv, NamesInv, PhaseTable, Phase, Heard, Said, StopSaid, Calls
<1> QED
  BY <1>1, <1>2

LEMMA UserContract ==
  ASSUME OutputInv, StagedInv, StagedInv', UserStep
  PROVE  [Contract!Next]_Phase
<1> USE Tabulated DEF StagedInv, PhaseTable, Contract!Next, Contract!Move
<1>1. CASE ObsOutputCreate
  BY <1>1 DEF ObsOutputCreate, Contract!Create
<1>2. CASE ObsOutputStart
  <2>1. UNCHANGED <<exists, leaving, said>>
    BY <1>2, Zenon DEF ObsOutputStart, obsVars, lifeVars, callVars
  <2>2. Phase = "ready" /\ said = "none"
    BY <1>2, Zenon DEF ObsOutputStart, NamesInv, OutputInv, FreshInv
  <2>3. Phase' \in {"connecting", "down"}
    BY <1>2, <2>1, <2>2 DEF ObsOutputStart, NamesInv
  <2> QED
    BY <2>2, <2>3, Zenon DEF Contract!Start
<1>3. CASE ObsOutputStop
  <2>1. UNCHANGED <<exists, leaving, said, active>>
    BY <1>3, Zenon DEF ObsOutputStop, lifeVars
  <2>2. CASE UNCHANGED call
    BY <2>1, <2>2 DEF Phase, Heard
  <2>3. CASE ~UNCHANGED call
    <3>1. call = "started" /\ call' = "stopping" /\ said \notin StopSaid
      BY <1>3, <2>3, Zenon DEF ObsOutputStop, NamesInv, Calls
    <3>2. said \in {"none", "start", "reconnect", "reconnectSuccess"}
      BY <3>1, Zenon DEF NamesInv, Said
    <3> QED
      BY <2>1, <3>1, <3>2, Zenon DEF Contract!Stop
  <2> QED
    BY <2>2, <2>3, Zenon
<1>4. CASE Reap
  BY <1>4 DEF Reap, Phase, Heard, obsVars, lifeVars, callVars
<1> QED
  BY <1>1, <1>2, <1>3, <1>4, Zenon DEF UserStep

\* An output that the UI thread takes down was asked to stop or is over.
LEMMA UiContract ==
  ASSUME OutputInv, StagedInv, StagedInv', UiThread
  PROVE  [Contract!Next]_Phase
<1> USE Tabulated DEF StagedInv, PhaseTable
<1>1. CASE ObsOutputDestroy \/ Free
  <2>1. Phase' = "none"
    BY <1>1, Zenon DEF ObsOutputDestroy, Free
  <2>2. pc["ui"] \in {"destroy", "free"}
    BY <1>1, Zenon DEF ObsOutputDestroy, Free
  <2>3. exists /\ ~leaving =>
          call # "created" /\ (call = "started" => said \in StopSaid)
    BY <2>2, Zenon DEF OutputInv, FreshInv, StageInv, Undisturbed
  <2>4. Phase \in {"none", "stopping", "draining", "down"}
    BY <2>3, Zenon DEF NamesInv, Calls
  <2> QED
    BY <2>1, <2>4, Zenon DEF Contract!Next, Contract!Move, Contract!Destroy
<1>2. CASE ~(ObsOutputDestroy \/ Free)
  <2>1. UNCHANGED <<exists, leaving, call, said, active>>
    BY <1>2, Zenon
       DEF UiThread, Quiesce, JoinRetry, RtmpStreamStop, AwaitStopped,
           RtmpStreamDestroy, JoinSend, obsVars, lifeVars, callVars
  <2> QED
    BY <2>1 DEF Phase, Heard
<1> QED
  BY <1>1, <1>2, Zenon

LEMMA ReportContract ==
  ASSUME OutputInv, StagedInv, StagedInv',
         NEW t \in {"ui", "connect", "send"}, ReportStep(t)
  PROVE  [Contract!Next]_Phase
<1> USE Tabulated DEF StagedInv, PhaseTable
<1>1. UNCHANGED <<exists, leaving, call, active>>
  BY Zenon DEF ReportStep, SignalStop, EndDataCapture, OutputReconnect, lifeVars,
         callVars
<1>2. CASE UNCHANGED said \/ ~exists \/ leaving \/ call # "started"
  BY <1>1, <1>2 DEF Phase, Heard, NamesInv, Calls
<1>3. CASE ~UNCHANGED said /\ exists /\ ~leaving /\ call = "started"
  <2>1. CASE EndDataCapture(t)
    <3>1. said' \in StopSaid /\ pc[t] = "endLoud"
      BY <1>3, <2>1, Zenon DEF EndDataCapture, SayStop, SaysStop, StopSaid
    <3>2. CASE said \in StopSaid
      BY <1>1, <1>3, <3>1, <3>2, Zenon
    <3>3. CASE said \notin StopSaid /\ t = "connect"
      <4>1. said \in {"none", "reconnect"} /\ ~active
        BY <1>3, <3>1, <3>3, Zenon DEF StageInv, Waiting, Live, Connecting
      <4> QED
        BY <1>1, <1>3, <3>1, <4>1
           DEF Contract!Next, Contract!Move, Contract!ConnectEnds,
               Contract!RetryEnds
    <3>4. CASE said \notin StopSaid /\ t = "send"
      <4>1. said \in {"start", "reconnectSuccess"} /\ active
        BY <1>3, <3>1, <3>4, Zenon DEF StageInv, Waiting, Live, Connecting
      <4> QED
        BY <1>1, <1>3, <3>1, <4>1
           DEF Contract!Next, Contract!Move, Contract!Drop
    <3>5. CASE said \notin StopSaid /\ t = "ui"
      BY <1>3, <3>1, <3>5, Zenon DEF StageInv, Undisturbed
    <3> QED
      BY <3>2, <3>3, <3>4, <3>5, Zenon
  <2>2. CASE OutputReconnect(t)
    <3>1. said' = "reconnect" /\ pc[t] = "reconnect"
      BY <1>3, <2>2 DEF OutputReconnect
    <3>2. said \in {"start", "reconnectSuccess"}
      BY <1>3, <3>1, Zenon
         DEF StageInv, Over, Undisturbed, Waiting, Live, Connecting
    <3> QED
      BY <1>1, <1>3, <3>1, <3>2, Zenon
         DEF Contract!Next, Contract!Move, Contract!Drop
  <2>3. ~SignalStop(t)
    BY <1>3 DEF SignalStop
  <2> QED
    BY <2>1, <2>2, <2>3, Zenon DEF ReportStep
<1> QED
  BY <1>2, <1>3, Zenon

LEMMA ThreadContract ==
  ASSUME OutputInv, StagedInv, StagedInv',
         EndThread \/ RetryThread \/ ConnectThread \/ SendLoop \/ EncodeFails
         \/ SendThread
  PROVE  [Contract!Next]_Phase
<1> USE Tabulated DEF StagedInv, PhaseTable
<1>1. UNCHANGED <<exists, leaving, call>>
  BY Zenon
     DEF EndThread, StopEncoders, Deactivate, RetryThread, RetryDelay,
         RetryWait, RetryStart, RetryLeave, ConnectThread, Connect,
         BeginDataCapture, Activate, Announce, Settle, ConnectLeave, SendLoop,
         EncodeFails, SendThread, SendClose, SendLeave, obsVars, lifeVars,
         callVars
<1>2. CASE Deactivate
  <2>1. ~active' /\ UNCHANGED said
    BY <1>2, Zenon DEF Deactivate
  <2> QED
    BY <1>1, <2>1
       DEF Phase, Heard, Contract!Next, Contract!Move, Contract!Drain
<1>3. CASE Activate
  <2>1. UNCHANGED said
    BY <1>3, Zenon DEF Activate
  <2>2. exists /\ ~leaving /\ call = "started" => said \notin StopSaid
    BY <1>3, Zenon DEF Activate, StageInv, Over, StopSaid
  <2> QED
    BY <1>1, <2>1, <2>2 DEF Phase, Heard
<1>4. CASE Announce
  <2>1. said' \in {"start", "reconnectSuccess"}
    BY <1>4 DEF Announce
  <2>2. exists /\ ~leaving /\ call = "started" => said \in {"none", "reconnect"}
    BY <1>4, Zenon DEF Announce, StageInv, Over, Waiting, Live
  <2>3. CASE exists /\ ~leaving /\ call = "started"
    BY <1>1, <2>1, <2>2, <2>3, Zenon
       DEF Contract!Next, Contract!Move, Contract!ConnectEnds,
           Contract!RetryEnds
  <2>4. CASE ~(exists /\ ~leaving /\ call = "started")
    BY <1>1, <2>4, Zenon DEF Phase, Heard, NamesInv, Calls
  <2> QED
    BY <2>3, <2>4, Zenon
<1>5. CASE ~(Deactivate \/ Activate \/ Announce)
  <2>1. UNCHANGED <<said, active>>
    BY <1>5, Zenon
       DEF EndThread, StopEncoders, RetryThread, RetryDelay, RetryWait,
           RetryStart, RetryLeave, ConnectThread, Connect, BeginDataCapture,
           Settle, ConnectLeave, SendLoop, EncodeFails, SendThread, SendClose,
           SendLeave, obsVars
  <2> QED
    BY <1>1, <2>1 DEF Phase, Heard
<1> QED
  BY <1>2, <1>3, <1>4, <1>5

\* libobs and rtmp-stream keep the contract of OutputPhases, for every retry
\* limit, when the retry delay outlasts what was running as it began: until
\* the user asks for a stop the listeners hear the signals in one of its
\* orders, whatever the interleaving of the five threads.
THEOREM OutputKeepsContract ==
  ASSUME ~QuickRetry
  PROVE  OutputSpec => ContractKept
<1>1. OutputInit => Phase = "none"
  BY DEF OutputInit, Phase, Heard
<1>2. OutputInv /\ StagedInv /\ StagedInv' /\ [OutputNext]_outputVars
        => [Contract!Next]_Phase
  <2>1. UNCHANGED outputVars => UNCHANGED Phase
    BY DEF outputVars, obsVars, lifeVars, callVars, Phase, Heard
  <2> QED
    BY <2>1, UserContract, UiContract, ReportContract, ThreadContract
       DEF OutputNext
<1> QED
  BY <1>1, <1>2, OutputInvariant, StagedInvariant, PTL
     DEF OutputSpec, ContractKept, Contract!Spec, Contract!Init

\* An output the listeners take for live has its send thread, and one they
\* take for reconnecting has a thread at the retry.
THEOREM StreamAlwaysAttended ==
  ASSUME ~QuickRetry
  PROVE  OutputSpec => []StreamIsAttended
<1>1. StagedInv => StreamIsAttended
  <2> SUFFICES ASSUME StagedInv PROVE StreamIsAttended
    OBVIOUS
  <2>1. Phase = "active" =>
          exists /\ ~leaving /\ call = "started"
          /\ said \in {"start", "reconnectSuccess"}
    BY DEF StagedInv, NamesInv, Phase, Heard, Calls, Said, StopSaid
  <2>2. Phase = "retrying" =>
          exists /\ ~leaving /\ call = "started" /\ said = "reconnect"
    BY DEF StagedInv, NamesInv, Phase, Heard, Calls, Said, StopSaid
  <2> QED
    BY <2>1, <2>2
       DEF StagedInv, StreamIsAttended, StageInv, Live, Waiting, Connecting,
           StopSaid
<1> QED
  BY <1>1, StagedInvariant, PTL
=============================================================================
