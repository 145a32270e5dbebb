------------------------------- MODULE ChatHub -------------------------------
(***************************************************************************)
(* ChatHub: one chat transport per enabled destination of a broadcast.     *)
(* Start stops the running generation and arms a new one, Stop ends it,    *)
(* StopDestination ends one destination of it.  All three run on the UI    *)
(* thread, one at a time, while the transports' workers run on; a worker   *)
(* is told to stop by its generation's flag or by its destination's own,   *)
(* and is never joined.                                                    *)
(***************************************************************************)
EXTENDS Naturals

CONSTANTS
    Dest,       \* destinations with chat
    ChatGens    \* numbers of the generations a behaviour may start

Reader == ChatGens \X Dest

\* No generation, when the hub is stopped.
NoGen == 0

VARIABLES
    gen,        \* generation whose flag is stop_, NoGen for none
    chatGens,   \* generations armed so far
    chatActive, \* workers whose transport is in active_
    stopGen,    \* generations whose stop flag is set
    stopDest,   \* workers whose own stop flag is set
    todo,       \* destinations Start has still to arm
    taken,      \* workers Stop or StopDestination took out of active_
    upc,        \* where the UI thread is
    readerPc,   \* readerPc[w]: where worker w is
    readerSay,  \* readerSay[w]: the state w is reporting; "alive" stands
                \* for Connecting, Connected and Reconnecting
    latch,      \* workers that reported a terminal state
    chatRow,    \* chatRow[d]: the destination's row in TransportHealth
    chatLate    \* ghost: destinations whose row a stopped worker wrote last

uiVars == <<gen, chatGens, chatActive, stopGen, stopDest, todo, taken, upc>>
readerVars == <<readerPc, readerSay, latch>>
rowVars == <<chatRow, chatLate>>
chatVars == <<uiVars, readerVars, rowVars>>

ChatInit ==
    /\ gen = NoGen
    /\ chatGens = 0
    /\ chatActive = {}
    /\ stopGen = {}
    /\ stopDest = {}
    /\ todo = {}
    /\ taken = {}
    /\ upc = "idle"
    /\ readerPc = [w \in Reader |-> "none"]
    /\ readerSay = [w \in Reader |-> "none"]
    /\ latch = {}
    /\ chatRow = [d \in Dest |-> "none"]
    /\ chatLate = {}

ReaderCanceled(w) == w[1] \in stopGen \/ w \in stopDest

-----------------------------------------------------------------------------
(* The UI thread.                                                          *)

\* Stop's lock section and the flag set after it: no worker looks at active_.
TakeAll(next) ==
    /\ taken' = chatActive
    /\ chatActive' = {}
    /\ gen' = NoGen
    /\ stopGen' = stopGen \cup ({gen} \ {NoGen})
    /\ upc' = next

Stop ==
    /\ upc = "idle"
    /\ TakeAll("stopping")
    /\ UNCHANGED <<chatGens, stopDest, todo, readerVars, rowVars>>

\* Mutant: a new generation is armed over the running one.
StartOver ==
    /\ upc = "idle"
    /\ chatGens + 1 \in ChatGens
    /\ upc' = "restarting"
    /\ UNCHANGED <<gen, chatGens, chatActive, stopGen, stopDest, todo, taken,
                   readerVars, rowVars>>

\* Start, a go-live or an arm: stop first.
Start ==
    /\ upc = "idle"
    /\ chatGens + 1 \in ChatGens
    /\ TakeAll("restarting")
    /\ UNCHANGED <<chatGens, stopDest, todo, readerVars, rowVars>>

\* onOutputEnded: the destination of an output that ended.
StopDestination(d) ==
    /\ upc = "idle"
    /\ \E w \in chatActive :
          /\ w[2] = d
          /\ chatActive' = chatActive \ {w}
          /\ taken' = {w}
          /\ stopDest' = stopDest \cup {w}
    /\ upc' = "stopping"
    /\ UNCHANGED <<gen, chatGens, stopGen, todo, readerVars, rowVars>>

\* A taken transport is disconnected and its row told.
Disconnect(w) ==
    /\ upc \in {"stopping", "restarting"}
    /\ w \in taken
    /\ taken' = taken \ {w}
    /\ chatRow' = [chatRow EXCEPT ![w[2]] = "disconnected"]
    /\ chatLate' = chatLate \ {w[2]}
    /\ UNCHANGED <<gen, chatGens, chatActive, stopGen, stopDest, todo, upc,
                   readerVars>>

ChatStopReturns ==
    /\ upc = "stopping"
    /\ taken = {}
    /\ upc' = "idle"
    /\ UNCHANGED <<gen, chatGens, chatActive, stopGen, stopDest, todo, taken,
                   readerVars, rowVars>>

\* A new generation for the destinations enabled now.
NewGeneration ==
    /\ upc = "restarting"
    /\ taken = {}
    /\ chatGens' = chatGens + 1
    /\ gen' = chatGens'
    /\ todo' \in SUBSET Dest
    /\ upc' = "arming"
    /\ UNCHANGED <<chatActive, stopGen, stopDest, taken, readerVars, rowVars>>

\* The next destination's transport is put into active_ and its worker run.
Arm(d) ==
    /\ upc = "arming"
    /\ d \in todo
    /\ todo' = todo \ {d}
    /\ chatActive' = {w \in chatActive : w[2] # d} \cup {<<gen, d>>}
    /\ readerPc' = [readerPc EXCEPT ![<<gen, d>>] = "check"]
    /\ readerSay' = [readerSay EXCEPT ![<<gen, d>>] = "alive"]
    /\ UNCHANGED <<gen, chatGens, stopGen, stopDest, taken, upc, latch,
                   rowVars>>

StartReturns ==
    /\ upc = "arming"
    /\ todo = {}
    /\ upc' = "idle"
    /\ UNCHANGED <<gen, chatGens, chatActive, stopGen, stopDest, todo, taken,
                   readerVars, rowVars>>

-----------------------------------------------------------------------------
(* A transport's worker: one connect() per generation.                     *)

TerminalStates == {"failed", "unavailable"}

\* The states that tell the backstop an ending was reported.
Latches(s) == s \in TerminalStates

\* reportHealth: test the flags and latch a terminal state,
ReaderCheck(w) ==
    /\ readerPc[w] = "check"
    /\ readerPc' = [readerPc EXCEPT ![w] =
                        IF ReaderCanceled(w) THEN "connect" ELSE "report"]
    /\ latch' = IF Latches(readerSay[w]) /\ ~ReaderCanceled(w)
                THEN latch \cup {w}
                ELSE latch
    /\ UNCHANGED <<uiVars, readerSay, rowVars>>

WriteRow(w) ==
    /\ chatRow' = [chatRow EXCEPT ![w[2]] = readerSay[w]]
    /\ chatLate' = IF ReaderCanceled(w) THEN chatLate \cup {w[2]}
                                        ELSE chatLate \ {w[2]}

\* then write the row.
ReaderReport(w) ==
    /\ readerPc[w] = "report"
    /\ readerPc' = [readerPc EXCEPT ![w] = "connect"]
    /\ WriteRow(w)
    /\ UNCHANGED <<uiVars, readerSay, latch>>

\* The transport reports from inside connect(), an ending only last.
TransportReports(w) ==
    /\ readerPc[w] = "connect"
    /\ readerSay[w] \notin TerminalStates
    /\ \E s \in {"alive"} \cup TerminalStates :
          readerSay' = [readerSay EXCEPT ![w] = s]
    /\ readerPc' = [readerPc EXCEPT ![w] = "check"]
    /\ UNCHANGED <<uiVars, latch, rowVars>>

\* connect() returned; an ending nobody reported is filled in.
ConnectReturned(w) ==
    /\ readerPc[w] = "connect"
    /\ IF ReaderCanceled(w) \/ w \in latch
       THEN readerPc' = [readerPc EXCEPT ![w] = "ended"] /\ UNCHANGED readerSay
       ELSE /\ readerPc' = [readerPc EXCEPT ![w] = "lastCheck"]
            /\ readerSay' = [readerSay EXCEPT ![w] = "failed"]
    /\ UNCHANGED <<uiVars, latch, rowVars>>

\* Mutant: the backstop only logs.
LastCheckSilent(w) ==
    /\ readerPc[w] = "lastCheck"
    /\ readerPc' = [readerPc EXCEPT ![w] = "ended"]
    /\ UNCHANGED <<uiVars, readerSay, latch, rowVars>>

\* The backstop's own report.
LastCheck(w) ==
    /\ readerPc[w] = "lastCheck"
    /\ readerPc' = [readerPc EXCEPT ![w] =
                        IF ReaderCanceled(w) THEN "ended" ELSE "lastReport"]
    /\ latch' = IF ReaderCanceled(w) THEN latch ELSE latch \cup {w}
    /\ UNCHANGED <<uiVars, readerSay, rowVars>>

LastReport(w) ==
    /\ readerPc[w] = "lastReport"
    /\ readerPc' = [readerPc EXCEPT ![w] = "ended"]
    /\ WriteRow(w)
    /\ UNCHANGED <<uiVars, readerSay, latch>>

-----------------------------------------------------------------------------
(* The specification.                                                      *)

UiStep ==
    \/ Start
    \/ Stop
    \/ ChatStopReturns
    \/ NewGeneration
    \/ StartReturns
    \/ \E d \in Dest : StopDestination(d) \/ Arm(d)
    \/ \E w \in Reader : Disconnect(w)

ReaderStep(w) ==
    \/ ReaderCheck(w)
    \/ ReaderReport(w)
    \/ TransportReports(w)
    \/ ConnectReturned(w)
    \/ LastCheck(w)
    \/ LastReport(w)

ChatNext == UiStep \/ \E w \in Reader : ReaderStep(w)

ChatSpec == ChatInit /\ [][ChatNext]_chatVars

-----------------------------------------------------------------------------
(* Properties.                                                             *)

\* Every variable ranges over the values the code can give it.
ChatTypeOK ==
    /\ {gen, chatGens} \subseteq {NoGen} \cup ChatGens
    /\ {chatActive, stopDest, taken, latch} \subseteq SUBSET Reader
    /\ stopGen \subseteq ChatGens
    /\ todo \subseteq Dest
    /\ upc \in {"idle", "stopping", "restarting", "arming"}
    /\ readerPc \in [Reader -> {"none", "check", "report", "connect",
                                "lastCheck", "lastReport", "ended"}]
    /\ readerSay \in [Reader -> {"none", "alive"} \cup TerminalStates]
    /\ chatRow \in
          [Dest -> {"none", "alive", "disconnected"} \cup TerminalStates]
    /\ chatLate \subseteq Dest

\* A destination's chat is never read twice: of all generations, at most one
\* worker per destination was not told to stop, and it is the one in active_
\* (Start stops the old generation before it arms the new one).
OneReader ==
    \A w \in Reader :
        readerPc[w] \notin {"none", "ended"} /\ ~ReaderCanceled(w) =>
            w \in chatActive

\* Chat that is over says so: when the one connect() of a destination's
\* transport has returned by itself, the row is not left connecting, connected
\* or reconnecting to a loop that has exited (the backstop after connect()).
\* Only a worker stopped between its test of the flags and its write can
\* spoil it.
EndedIsTold ==
    \A w \in chatActive :
        readerPc[w] = "ended" /\ w[2] \notin chatLate =>
            chatRow[w[2]] \in TerminalStates

\* The reason a transport gave for its end is not overwritten by the backstop:
\* a row that says the chat is unavailable does not turn into a failure
\* (reportedTerminal), late writes of stopped workers aside.
ReasonKept ==
    [][\A d \in Dest \ (chatLate \cup chatLate') :
          ~(chatRow[d] = "unavailable" /\ chatRow'[d] = "failed")]_chatVars
=============================================================================
