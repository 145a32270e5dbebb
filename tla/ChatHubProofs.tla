---------------------------- MODULE ChatHubProofs ----------------------------
(***************************************************************************)
(* Proofs about the chat hub, for any number of destinations and restarts: *)
(* one reader per destination, and rows that tell how a chat ended.        *)
(***************************************************************************)
EXTENDS ChatHub, TLAPS

\* Generations are numbered in the order they are armed; the current one was
\* not told to stop.
GenerationInv ==
    /\ chatGens \in Nat
    /\ gen \in {NoGen, chatGens}
    /\ gen \notin stopGen
    /\ \A g \in stopGen : g \in 1..chatGens

\* What the UI thread has at hand at each point.  While Start arms, the
\* destinations still to do have no worker of this generation.
LocalsInv ==
    /\ upc \in {"idle", "arming"} => taken = {}
    /\ upc = "restarting" => gen = NoGen /\ chatGens + 1 \in ChatGens
    /\ upc = "arming" => /\ gen # NoGen
                         /\ gen \in ChatGens
                         /\ \A d \in todo : readerPc[<<gen, d>>] = "none"

\* Only generations that were armed have workers; what a worker leaves behind
\* shows that it ran.
WorkerInv ==
    \A w \in Reader :
        /\ readerPc[w] # "none" => w[1] \in 1..chatGens
        /\ w \in chatActive \cup taken \cup stopDest \cup latch =>
             readerPc[w] # "none"

\* active_ holds workers of the current generation that were not told to stop,
\* and none of a destination that is being stopped.
ActiveInv ==
    /\ \A w \in chatActive : w[1] = gen /\ gen # NoGen /\ ~ReaderCanceled(w)
    /\ \A w \in chatActive, x \in taken : w[2] # x[2]

\* A worker that reported its ending has nothing else to say, and its row says
\* so once it is past the write.
LatchInv ==
    \A w \in Reader :
        /\ w \in latch => readerSay[w] \in TerminalStates
        /\ readerPc[w] = "report" /\ readerSay[w] \in TerminalStates =>
             w \in latch
        /\ readerPc[w] = "lastReport" => w \in latch
        /\ readerPc[w] \in {"lastCheck", "lastReport"} =>
             readerSay[w] = "failed"
        /\ w \in chatActive /\ readerPc[w] = "ended" => w \in latch
        /\ w \in chatActive /\ w \in latch /\ w[2] \notin chatLate
             /\ readerPc[w] \in {"connect", "ended"} =>
                  chatRow[w[2]] \in TerminalStates

\* A row says unavailable only for a transport that reported just that and was
\* not yet disconnected.
ReasonInv ==
    \A d \in Dest \ chatLate :
        chatRow[d] = "unavailable" =>
            \E w \in chatActive \cup taken :
                w[2] = d /\ w \in latch /\ readerSay[w] = "unavailable"

\* The inductive invariant.
ChatInv ==
    /\ ChatTypeOK
    /\ GenerationInv
    /\ LocalsInv
    /\ WorkerInv
    /\ ActiveInv
    /\ OneReader
    /\ LatchInv
    /\ ReasonInv

-----------------------------------------------------------------------------

\* A worker is its generation and its destination.
LEMMA WorkerIsPair ==
  ASSUME NEW v \in Reader, NEW w \in Reader, v[1] = w[1], v[2] = w[2]
  PROVE  v = w
  BY DEF Reader

\* The current generation has one worker per destination in active_, so a
\* running worker that was not told to stop is the only one of its row.
LEMMA OneActive ==
  ASSUME ChatInv, NEW v \in chatActive, NEW w \in chatActive, v[2] = w[2]
  PROVE  v = w
<1>1. v \in Reader /\ w \in Reader
  BY DEF ChatInv, ChatTypeOK
<1>2. v[1] = w[1]
  BY DEF ChatInv, ActiveInv
<1> QED
  BY <1>1, <1>2, WorkerIsPair

LEMMA InitChatInv == ChatInit => ChatInv
<1> SUFFICES ASSUME ChatInit PROVE ChatInv
  OBVIOUS
<1> USE DEF ChatInit, NoGen
<1>1. ChatTypeOK
  BY DEF ChatTypeOK
<1>2. GenerationInv /\ LocalsInv /\ WorkerInv /\ ActiveInv
  BY DEF GenerationInv, LocalsInv, WorkerInv, ActiveInv
<1>3. OneReader /\ LatchInv /\ ReasonInv
  BY DEF OneReader, LatchInv, ReasonInv
<1> QED
  BY <1>1, <1>2, <1>3 DEF ChatInv

LEMMA StutterChatInv == ChatInv /\ UNCHANGED chatVars => ChatInv'
  BY DEF ChatInv, ChatTypeOK, GenerationInv, LocalsInv, WorkerInv, ActiveInv,
         OneReader, LatchInv, ReasonInv, ReaderCanceled, chatVars, uiVars,
         readerVars, rowVars

-----------------------------------------------------------------------------
(* The UI thread's steps.                                                  *)

\* Stop and Start: the current generation's flag is set as its workers leave
\* active_.
LEMMA TakeAllChatInv ==
  ASSUME ChatInv, Stop \/ Start
  PROVE  ChatInv'
<1> USE DEF ChatInv, Stop, Start, TakeAll, NoGen, ReaderCanceled, readerVars,
            rowVars
<1>1. ChatTypeOK'
  BY DEF ChatTypeOK, GenerationInv
<1>2. GenerationInv'
  BY DEF GenerationInv
<1>3. LocalsInv' /\ WorkerInv'
  BY DEF LocalsInv, WorkerInv, GenerationInv, ChatTypeOK
<1>4. ActiveInv' /\ OneReader'
  BY DEF ActiveInv, OneReader, GenerationInv
<1>5. LatchInv' /\ ReasonInv'
  BY DEF LatchInv, ReasonInv, LocalsInv
<1> QED
  BY <1>1, <1>2, <1>3, <1>4, <1>5

LEMMA StopDestinationChatInv ==
  ASSUME ChatInv, NEW d \in Dest, StopDestination(d)
  PROVE  ChatInv'
<1> USE DEF ChatInv, StopDestination, readerVars, rowVars
<1>1. PICK w \in chatActive : /\ w[2] = d
                          /\ chatActive' = chatActive \ {w}
                          /\ taken' = {w}
                          /\ stopDest' = stopDest \cup {w}
  OBVIOUS
<1>2. w \in Reader /\ \A v \in chatActive : v[2] = d => v = w
  BY <1>1, OneActive DEF ChatTypeOK
<1>3. ChatTypeOK' /\ GenerationInv' /\ LocalsInv'
  BY <1>1, <1>2 DEF ChatTypeOK, GenerationInv, LocalsInv
<1>4. WorkerInv'
  BY <1>1 DEF WorkerInv
<1>5. ActiveInv' /\ OneReader'
  BY <1>1, <1>2 DEF ActiveInv, OneReader, ReaderCanceled
<1>6. LatchInv'
  BY <1>1 DEF LatchInv
<1>7. ReasonInv'
  BY <1>1 DEF ReasonInv, LocalsInv
<1> QED
  BY <1>3, <1>4, <1>5, <1>6, <1>7

LEMMA DisconnectChatInv ==
  ASSUME ChatInv, NEW w \in Reader, Disconnect(w)
  PROVE  ChatInv'
<1> USE DEF ChatInv, Disconnect, readerVars
<1>1. ChatTypeOK' /\ GenerationInv' /\ LocalsInv' /\ WorkerInv'
  BY DEF ChatTypeOK, GenerationInv, LocalsInv, WorkerInv, Reader
<1>2. ActiveInv' /\ OneReader'
  BY DEF ActiveInv, OneReader, ReaderCanceled
<1>3. LatchInv'
  BY DEF LatchInv, ActiveInv, ChatTypeOK
<1>4. ReasonInv'
  <2>1. SUFFICES ASSUME NEW d \in Dest \ chatLate', chatRow'[d] = "unavailable"
                 PROVE  \E x \in chatActive' \cup taken' :
                           /\ x[2] = d /\ x \in latch'
                           /\ readerSay'[x] = "unavailable"
    BY DEF ReasonInv
  <2>2. d # w[2] /\ chatRow[d] = "unavailable" /\ d \notin chatLate
    BY <2>1 DEF ChatTypeOK
  <2> QED
    BY <2>2 DEF ReasonInv
<1> QED
  BY <1>1, <1>2, <1>3, <1>4

LEMMA ReturnsChatInv ==
  ASSUME ChatInv, ChatStopReturns \/ StartReturns
  PROVE  ChatInv'
  BY DEF ChatInv, ChatStopReturns, StartReturns, readerVars, rowVars,
         ChatTypeOK, GenerationInv, LocalsInv, WorkerInv, ActiveInv,
         OneReader, ReaderCanceled, LatchInv, ReasonInv

LEMMA NewGenerationChatInv ==
  ASSUME ChatInv, NewGeneration
  PROVE  ChatInv'
<1> USE DEF ChatInv, NewGeneration, readerVars, rowVars, NoGen
<1>1. ChatTypeOK' /\ GenerationInv'
  BY DEF ChatTypeOK, GenerationInv, LocalsInv
<1>2. WorkerInv'
  BY DEF WorkerInv, GenerationInv
<1>3. chatActive = {}
  BY DEF ActiveInv, LocalsInv
<1>4. LocalsInv'
  <2>1. \A d \in Dest : <<chatGens + 1, d>> \in Reader
    BY DEF LocalsInv, Reader
  <2> QED
    BY <2>1 DEF LocalsInv, WorkerInv, GenerationInv, ChatTypeOK
<1>5. ActiveInv' /\ OneReader'
  BY <1>3 DEF ActiveInv, OneReader, ReaderCanceled
<1>6. LatchInv' /\ ReasonInv'
  BY DEF LatchInv, ReasonInv
<1> QED
  BY <1>1, <1>2, <1>4, <1>5, <1>6

LEMMA ArmChatInv ==
  ASSUME ChatInv, NEW d \in Dest, Arm(d)
  PROVE  ChatInv'
<1> USE DEF ChatInv, Arm, NoGen
<1> DEFINE n == <<gen, d>>
<1>1. /\ n \in Reader /\ n[1] = gen /\ n[2] = d /\ readerPc[n] = "none"
      /\ n \notin chatActive \cup stopDest \cup latch
  BY DEF LocalsInv, Reader, WorkerInv
<1>2. \A w \in chatActive : w[2] # d
  BY <1>1, WorkerIsPair DEF ActiveInv, ChatTypeOK
<1>3. chatActive' = chatActive \cup {n} /\ taken = {}
  BY <1>2 DEF LocalsInv
<1>4. /\ readerPc' = [readerPc EXCEPT ![n] = "check"]
      /\ readerSay' = [readerSay EXCEPT ![n] = "alive"]
  OBVIOUS
<1> HIDE DEF n
<1>5. ChatTypeOK' /\ GenerationInv'
  BY <1>1, <1>3, <1>4 DEF ChatTypeOK, GenerationInv, rowVars
<1>6. WorkerInv'
  BY <1>1, <1>3, <1>4 DEF WorkerInv, GenerationInv, ChatTypeOK, LocalsInv
<1>7. LocalsInv'
  <2>1. \A c \in Dest : c # d => <<gen, c>> # n
    BY DEF n
  <2>2. \A c \in Dest : <<gen, c>> \in Reader
    BY DEF LocalsInv, Reader
  <2> QED
    BY <1>3, <1>4, <2>1, <2>2 DEF LocalsInv, ChatTypeOK
<1>8. ActiveInv' /\ OneReader'
  BY <1>1, <1>3, <1>4
     DEF ActiveInv, OneReader, ReaderCanceled, GenerationInv, LocalsInv,
         ChatTypeOK
<1>9. LatchInv'
  BY <1>1, <1>3, <1>4 DEF LatchInv, ChatTypeOK, rowVars
<1>10. ReasonInv'
  BY <1>1, <1>3, <1>4 DEF ReasonInv, ChatTypeOK, rowVars, Reader
<1> QED
  BY <1>5, <1>6, <1>7, <1>8, <1>9, <1>10

-----------------------------------------------------------------------------
(* A worker's steps.  None of them changes what the UI thread keeps.       *)

LEMMA WorkerFrame ==
  ASSUME ChatInv, NEW w \in Reader, ReaderStep(w)
  PROVE  /\ UNCHANGED uiVars
         /\ ChatTypeOK' /\ GenerationInv' /\ LocalsInv' /\ WorkerInv'
         /\ ActiveInv' /\ OneReader'
<1> USE DEF ReaderStep, ReaderCheck, ReaderReport, TransportReports,
            ConnectReturned, LastCheck, LastReport
<1>1. UNCHANGED uiVars
  OBVIOUS
<1>2. w \in ChatGens \X Dest /\ readerPc[w] # "none"
  BY DEF Reader
<1>3. /\ readerPc' \in [Reader -> {"none", "check", "report", "connect",
                              "lastCheck", "lastReport", "ended"}]
      /\ readerSay' \in [Reader -> {"none", "alive"} \cup TerminalStates]
      /\ latch' \subseteq latch \cup {w}
  BY DEF ChatInv, ChatTypeOK, TerminalStates
<1>4. /\ chatRow' \in [Dest -> {"none", "alive", "disconnected"}
                               \cup TerminalStates]
      /\ chatLate' \subseteq Dest
  <2>1. CASE ReaderReport(w) \/ LastReport(w)
    <3>1. /\ readerSay[w] \in {"none", "alive"} \cup TerminalStates
          /\ w[2] \in Dest
      BY <1>2 DEF ChatInv, ChatTypeOK
    <3> QED
      BY <2>1, <3>1 DEF WriteRow, ChatInv, ChatTypeOK
  <2>2. CASE UNCHANGED rowVars
    BY <2>2, Zenon DEF rowVars, ChatInv, ChatTypeOK
  <2> QED
    BY <2>1, <2>2
<1>5. ChatTypeOK' /\ GenerationInv'
  BY <1>1, <1>3, <1>4 DEF uiVars, ChatInv, ChatTypeOK, GenerationInv
<1>6. /\ \A v \in Reader : v # w => readerPc'[v] = readerPc[v]
      /\ readerPc'[w] # "none"
  BY DEF ChatInv, ChatTypeOK
<1>7. LocalsInv' /\ WorkerInv'
  <2>1. \A d \in Dest : gen \in ChatGens => <<gen, d>> \in Reader
    BY Zenon DEF Reader
  <2>2. LocalsInv'
    BY <1>1, <1>2, <1>6, <2>1, Zenon DEF uiVars, ChatInv, ChatTypeOK, LocalsInv
  <2>3. WorkerInv'
    BY <1>1, <1>2, <1>3, <1>6, Zenon DEF uiVars, ChatInv, WorkerInv
  <2> QED
    BY <2>2, <2>3
<1>8. ActiveInv'
  BY <1>1 DEF uiVars, ChatInv, ActiveInv, ReaderCanceled
<1>9. OneReader'
  <2>1. readerPc[w] # "ended"
    OBVIOUS
  <2> QED
    BY <1>1, <1>2, <1>6, <2>1 DEF uiVars, ChatInv, OneReader, ReaderCanceled
<1> QED
  BY <1>1, <1>5, <1>7, <1>8, <1>9

\* The tests of the flags: what they latch is an ending, and a worker they
\* turn away is not in active_.
LEMMA ChecksChatInv ==
  ASSUME ChatInv, NEW w \in Reader, ReaderCheck(w) \/ LastCheck(w)
  PROVE  ChatInv'
<1>1. ReaderStep(w)
  BY SMTT(30) DEF ReaderStep
<1>2. UNCHANGED <<readerSay, chatRow, chatLate, chatActive, taken>>
  BY Zenon DEF ReaderCheck, LastCheck, uiVars, rowVars
<1>3. ReaderCanceled(w) => w \notin chatActive
  BY DEF ChatInv, ActiveInv
<1>4. LatchInv'
  BY <1>2, <1>3
     DEF ReaderCheck, LastCheck, Latches, ChatInv, ChatTypeOK, LatchInv,
         TerminalStates
<1>5. ReasonInv'
  BY <1>2 DEF ReaderCheck, LastCheck, ChatInv, ReasonInv
<1> QED
  BY <1>1, <1>4, <1>5, WorkerFrame DEF ChatInv

\* The writes: a worker that was not told to stop is the one in active_, and
\* its row is its alone.
LEMMA WritesChatInv ==
  ASSUME ChatInv, NEW w \in Reader, ReaderReport(w) \/ LastReport(w)
  PROVE  ChatInv'
<1>1. ReaderStep(w)
  BY DEF ReaderStep
<1>2. UNCHANGED <<readerSay, latch, chatActive, taken, stopGen, stopDest>>
  BY DEF ReaderReport, LastReport, uiVars
<1>3. WriteRow(w) /\ w[2] \in Dest
  BY DEF ReaderReport, LastReport, Reader
<1>4. /\ \A v \in Reader : v # w => readerPc'[v] = readerPc[v]
      /\ readerPc'[w] \in {"connect", "ended"}
      /\ readerPc[w] \in {"report", "lastReport"}
      /\ readerPc'[w] = "ended" => readerPc[w] = "lastReport"
  BY DEF ReaderReport, LastReport, ChatInv, ChatTypeOK
<1>5. ~ReaderCanceled(w) =>
        w \in chatActive /\ \A v \in chatActive : v[2] = w[2] => v = w
  BY <1>4, OneActive DEF ChatInv, OneReader
<1>6. readerSay[w] \in TerminalStates => w \in latch
  BY <1>4 DEF ChatInv, LatchInv
<1>7. LatchInv'
  <2> SUFFICES ASSUME NEW v \in Reader
               PROVE  LatchInv!(v)'
    BY DEF LatchInv
  <2>1. CASE v = w
    BY <1>2, <1>3, <1>4, <1>6, <2>1
       DEF ChatInv, ChatTypeOK, LatchInv, WriteRow, ActiveInv
  <2>2. CASE v # w
    <3>1. /\ readerPc'[v] = readerPc[v] /\ readerSay'[v] = readerSay[v]
          /\ v \in chatActive' <=> v \in chatActive
          /\ v \in latch' <=> v \in latch
      BY <1>2, <1>4, <2>2
    <3>2. v \in chatActive /\ v[2] \notin chatLate'
            => chatRow'[v[2]] = chatRow[v[2]] /\ v[2] \notin chatLate
      BY <1>3, <1>5, <2>2 DEF WriteRow, ChatInv, ChatTypeOK
    <3> QED
      BY <3>1, <3>2 DEF ChatInv, LatchInv
  <2> QED
    BY <2>1, <2>2
<1>8. ReasonInv'
  <2> SUFFICES ASSUME NEW d \in Dest \ chatLate', chatRow'[d] = "unavailable"
               PROVE  \E x \in chatActive \cup taken :
                         /\ x[2] = d /\ x \in latch
                         /\ readerSay[x] = "unavailable"
    BY <1>2 DEF ReasonInv
  <2>1. CASE d = w[2]
    BY <1>3, <1>5, <1>6, <2>1
       DEF WriteRow, ChatInv, ChatTypeOK, TerminalStates
  <2>2. CASE d # w[2]
    BY <1>3, <2>2 DEF WriteRow, ChatInv, ChatTypeOK, ReasonInv
  <2> QED
    BY <2>1, <2>2
<1> QED
  BY <1>1, <1>7, <1>8, WorkerFrame DEF ChatInv

\* The transport's own reports, and its return: a worker that latched an
\* ending says nothing more.
LEMMA TransportChatInv ==
  ASSUME ChatInv, NEW w \in Reader, TransportReports(w) \/ ConnectReturned(w)
  PROVE  ChatInv'
<1>1. ReaderStep(w)
  BY DEF ReaderStep
<1>2. UNCHANGED <<latch, chatRow, chatLate, chatActive, taken>>
  BY DEF TransportReports, ConnectReturned, uiVars, rowVars
<1>3. w \in latch => readerSay' = readerSay
  BY DEF TransportReports, ConnectReturned, ChatInv, LatchInv
<1>4. ReaderCanceled(w) => w \notin chatActive
  BY DEF ChatInv, ActiveInv
<1>5. LatchInv'
  BY <1>2, <1>3, <1>4
     DEF TransportReports, ConnectReturned, ChatInv, ChatTypeOK, LatchInv
<1>6. ReasonInv'
  BY <1>2, <1>3
     DEF TransportReports, ConnectReturned, ChatInv, ChatTypeOK, ReasonInv
<1> QED
  BY <1>1, <1>5, <1>6, WorkerFrame DEF ChatInv

-----------------------------------------------------------------------------
(* The theorems.                                                           *)

LEMMA NextChatInv ==
  ASSUME ChatInv, [ChatNext]_chatVars
  PROVE  ChatInv'
<1>1. CASE Start \/ Stop
  BY <1>1, TakeAllChatInv
<1>2. CASE ChatStopReturns \/ StartReturns
  BY <1>2, ReturnsChatInv
<1>3. CASE NewGeneration
  BY <1>3, NewGenerationChatInv
<1>4. ASSUME NEW d \in Dest, StopDestination(d) \/ Arm(d)
      PROVE  ChatInv'
  BY <1>4, StopDestinationChatInv, ArmChatInv
<1>5. ASSUME NEW w \in Reader, Disconnect(w)
      PROVE  ChatInv'
  BY <1>5, DisconnectChatInv
<1>6. ASSUME NEW w \in Reader, ReaderStep(w)
      PROVE  ChatInv'
  BY <1>6, ChecksChatInv, WritesChatInv, TransportChatInv DEF ReaderStep
<1>7. CASE UNCHANGED chatVars
  BY <1>7, StutterChatInv
<1> QED
  BY <1>1, <1>2, <1>3, <1>4, <1>5, <1>6, <1>7 DEF ChatNext, UiStep

\* The invariant holds in every state of the hub, whatever the destinations
\* and however often it is restarted.
THEOREM ChatInvariant == ChatSpec => []ChatInv
<1>1. ChatInit => ChatInv
  BY InitChatInv
<1>2. ChatInv /\ [ChatNext]_chatVars => ChatInv'
  BY NextChatInv
<1> QED
  BY <1>1, <1>2, PTL DEF ChatSpec

\* A destination's chat is never read by two workers that were not told to
\* stop (Start stops the old generation before it arms the new one).
THEOREM NeverReadTwice == ChatSpec => []OneReader
<1>1. ChatInv => OneReader
  BY DEF ChatInv
<1> QED
  BY <1>1, ChatInvariant, PTL

\* A transport whose connect() returned by itself leaves a row that says the
\* chat is over (the backstop after connect()).
THEOREM EndingsTold == ChatSpec => []EndedIsTold
<1>1. ChatInv => EndedIsTold
  BY DEF ChatInv, LatchInv, EndedIsTold, ChatTypeOK
<1> QED
  BY <1>1, ChatInvariant, PTL

\* The backstop does not overwrite the reason the transport gave
\* (reportedTerminal).
THEOREM ReasonsKept == ChatSpec => ReasonKept
<1>1. ASSUME ChatInv, [ChatNext]_chatVars,
             NEW d \in Dest \ (chatLate \cup chatLate'),
             chatRow[d] = "unavailable", chatRow'[d] = "failed"
      PROVE  FALSE
  <2>0. ASSUME NEW w \in Reader, Disconnect(w)
        PROVE  FALSE
    <3>1. chatRow' = [chatRow EXCEPT ![w[2]] = "disconnected"]
      BY <2>0 DEF Disconnect
    <3> QED
      BY <1>1, <3>1 DEF ChatInv, ChatTypeOK
  <2>1. PICK w \in Reader : ReaderReport(w) \/ LastReport(w)
    <3>1. chatRow' # chatRow
      BY <1>1
    <3> QED
      BY <1>1, <2>0, <3>1, Zenon
         DEF ChatNext, UiStep, ReaderStep, Start, Stop, ChatStopReturns,
             NewGeneration, StartReturns, StopDestination, Arm, ReaderCheck,
             TransportReports, ConnectReturned, LastCheck, rowVars, chatVars
  <2>2. w[2] = d /\ readerSay[w] = "failed" /\ ~ReaderCanceled(w)
    BY <1>1, <2>1
       DEF ReaderReport, LastReport, WriteRow, ChatInv, ChatTypeOK, Reader
  <2>3. w \in chatActive
    BY <1>1, <2>1, <2>2 DEF ReaderReport, LastReport, ChatInv, OneReader
  <2>4. PICK x \in chatActive \cup taken :
          x[2] = d /\ readerSay[x] = "unavailable"
    BY <1>1 DEF ChatInv, ReasonInv
  <2>5. x \in chatActive
    BY <1>1, <2>2, <2>3, <2>4 DEF ChatInv, ActiveInv
  <2>6. x = w
    BY <1>1, <2>2, <2>3, <2>4, <2>5, OneActive
  <2> QED
    BY <2>2, <2>4, <2>6
<1>2. ChatInv /\ [ChatNext]_chatVars
        => [\A d \in Dest \ (chatLate \cup chatLate') :
              ~(chatRow[d] = "unavailable" /\ chatRow'[d] = "failed")]_chatVars
  BY <1>1
<1> QED
  BY <1>2, ChatInvariant, PTL DEF ChatSpec, ReasonKept
=============================================================================
