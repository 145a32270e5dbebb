------------------------------ MODULE EventHub ------------------------------
(***************************************************************************)
(* EventHub: the live-events transport of one account, across restarts of  *)
(* it.  Every StartAccount is a generation with its own stop flag and its  *)
(* own detached worker; a generation is never joined, only told to stop.   *)
(* The UI thread starts it at boot, stops it when the account is removed   *)
(* and shuts the hub down; a connect worker (oauth.connect) may start it   *)
(* at any of those moments.  The account's row in TransportHealth is       *)
(* written by the workers and by the thread that stops them.               *)
(***************************************************************************)
EXTENDS Naturals

CONSTANT HubGens    \* numbers of the generations a behaviour may start

Threads == {"ui", "connect"}

VARIABLES
    hubActive,  \* generation in active_, 0 for none
    gens,       \* generations started so far
    stopped,    \* generations whose stop flag is set
    wpc,        \* wpc[g]: where g's worker is
    say,        \* say[g]: the health state g's worker is reporting
    row,        \* the account's row in TransportHealth, "none" without one
    hubPc,      \* hubPc[t]: where thread t is in StartAccount, StopAccount
                \* or Shutdown
    old,        \* old[t]: generation t took out of active_ and has to stop
    new,        \* new[t]: generation t put into active_
    life,       \* "up", then the stage Bridge::Shutdown has reached
    timedOut    \* ghost: the drain of Shutdown gave up waiting

workerVars == <<wpc, say>>
threadVars == <<hubPc, old, new>>
hubVars == <<hubActive, gens, stopped, workerVars, row, threadVars, life,
             timedOut>>

HubInit ==
    /\ hubActive = 0
    /\ gens = 0
    /\ stopped = {}
    /\ wpc = [g \in HubGens |-> "none"]
    /\ say = [g \in HubGens |-> "none"]
    /\ row = "none"
    /\ hubPc = [t \in Threads |-> "idle"]
    /\ old = [t \in Threads |-> 0]
    /\ new = [t \in Threads |-> 0]
    /\ life = "up"
    /\ timedOut = FALSE

Canceled(g) == g \in stopped

-----------------------------------------------------------------------------
(* StartAccount, StopAccount and StopAll.                                  *)

\* A connect worker got its account and Shutdown has not begun.
ConnectSucceeds ==
    /\ hubPc["connect"] = "idle"
    /\ life = "up"
    /\ hubPc' = [hubPc EXCEPT !["connect"] = "start"]
    /\ UNCHANGED <<hubActive, gens, stopped, workerVars, row, old, new, life,
                   timedOut>>

\* StartConnectedAccounts, once at boot.
Boot ==
    /\ hubPc["ui"] = "idle"
    /\ gens = 0
    /\ life = "up"
    /\ hubPc' = [hubPc EXCEPT !["ui"] = "start"]
    /\ UNCHANGED <<hubActive, gens, stopped, workerVars, row, old, new, life,
                   timedOut>>

\* One lock section takes the old generation out and puts the new one in.
Install(t) ==
    /\ hubPc[t] = "start"
    /\ gens + 1 \in HubGens
    /\ gens' = gens + 1
    /\ hubActive' = gens'
    /\ old' = [old EXCEPT ![t] = hubActive]
    /\ new' = [new EXCEPT ![t] = gens']
    /\ hubPc' = [hubPc EXCEPT ![t] =
                     IF hubActive = 0 THEN "spawn" ELSE "displace"]
    /\ UNCHANGED <<stopped, workerVars, row, life, timedOut>>

\* The stop flag of the generation t took out; its transport disconnects.
Signal(t) ==
    /\ hubPc[t] \in {"displace", "signal"}
    /\ stopped' = stopped \cup {old[t]}
    /\ old' = [old EXCEPT ![t] = 0]
    /\ hubPc' = [hubPc EXCEPT ![t] =
                     IF @ = "displace" THEN "spawn" ELSE "terminal"]
    /\ UNCHANGED <<hubActive, gens, workerVars, row, new, life, timedOut>>

Spawn(t) ==
    /\ hubPc[t] = "spawn"
    /\ wpc' = [wpc EXCEPT ![new[t]] = "backfill"]
    /\ new' = [new EXCEPT ![t] = 0]
    /\ hubPc' = [hubPc EXCEPT ![t] = "idle"]
    /\ UNCHANGED <<hubActive, gens, stopped, say, row, old, life, timedOut>>

\* Take what is active, or nothing.
Take ==
    /\ hubPc' = [hubPc EXCEPT !["ui"] =
                     IF hubActive = 0 THEN "idle" ELSE "signal"]
    /\ old' = [old EXCEPT !["ui"] = hubActive]
    /\ hubActive' = 0

\* TeardownAccount: the account was disconnected or its last profile removed.
StopAccount ==
    /\ hubPc["ui"] = "idle"
    /\ life = "up"
    /\ hubActive # 0
    /\ Take
    /\ UNCHANGED <<gens, stopped, workerVars, row, new, life, timedOut>>

\* The row's terminal state, written by the thread that stopped it.
Terminal ==
    /\ hubPc["ui"] = "terminal"
    /\ row' = "disconnected"
    /\ hubPc' = [hubPc EXCEPT !["ui"] = "idle"]
    /\ UNCHANGED <<hubActive, gens, stopped, workerVars, old, new, life,
                   timedOut>>

\* Bridge::Shutdown: stop, drain, stop again, drop the rows.
ShutdownStops(from, to) ==
    /\ hubPc["ui"] = "idle"
    /\ life = from
    /\ life' = to
    /\ Take
    /\ UNCHANGED <<gens, stopped, workerVars, row, new, timedOut>>

\* No RunAsync worker is left: no transport's and no connect worker.
Drained ==
    /\ \A g \in HubGens : wpc[g] \in {"none", "ended"}
    /\ hubPc["connect"] = "idle"

\* Mutant: Shutdown drains nothing.
WaitForDrainNot ==
    /\ hubPc["ui"] = "idle"
    /\ life = "stopping"
    /\ life' = "drained"
    /\ UNCHANGED <<hubActive, gens, stopped, workerVars, row, threadVars,
                   timedOut>>

\* AsyncTask::WaitForDrain, at most 5 seconds.
WaitForDrain ==
    /\ hubPc["ui"] = "idle"
    /\ life = "stopping"
    /\ life' = "drained"
    /\ timedOut' = ~Drained
    /\ UNCHANGED <<hubActive, gens, stopped, workerVars, row, threadVars>>

ShutdownClears ==
    /\ hubPc["ui"] = "idle"
    /\ life = "stoppedAgain"
    /\ life' = "down"
    /\ row' = "none"
    /\ UNCHANGED <<hubActive, gens, stopped, workerVars, threadVars, timedOut>>

-----------------------------------------------------------------------------
(* A generation's worker.                                                  *)

HubWorker(g, from, to) ==
    /\ wpc[g] = from
    /\ wpc' = [wpc EXCEPT ![g] = to]

\* Where the worker goes once it has reported a state, or found itself stopped.
After == [connecting |-> "loop", connected |-> "connect",
          reconnecting |-> "sleep", failed |-> "ended"]

\* The backfill is over; the worker reports that it is connecting.
Backfill(g) ==
    /\ HubWorker(g, "backfill", "check")
    /\ say' = [say EXCEPT ![g] = "connecting"]
    /\ UNCHANGED <<hubActive, gens, stopped, row, threadVars, life, timedOut>>

\* ctx.reportHealth tests the stop flag first
CheckStop(g) ==
    /\ HubWorker(g, "check", IF Canceled(g) THEN After[say[g]] ELSE "report")
    /\ UNCHANGED <<hubActive, gens, stopped, say, row, threadVars, life,
                   timedOut>>

\* and then writes the row.
Report(g) ==
    /\ HubWorker(g, "report", After[say[g]])
    /\ row' = say[g]
    /\ UNCHANGED <<hubActive, gens, stopped, say, threadVars, life, timedOut>>

\* Mutant: the loop asks only whether the hub is shutting down.
QuitsAtShutdown(g) == Canceled(g) /\ life # "up"

\* What the reconnect loop asks before it goes on.
Quits(g) == Canceled(g)

Loop(g) ==
    /\ HubWorker(g, "loop", IF Quits(g) THEN "ended" ELSE "connect")
    /\ UNCHANGED <<hubActive, gens, stopped, say, row, threadVars, life,
                   timedOut>>

\* The transport's socket is up.
Connected(g) ==
    /\ ~Canceled(g)
    /\ HubWorker(g, "connect", "check")
    /\ say' = [say EXCEPT ![g] = "connected"]
    /\ UNCHANGED <<hubActive, gens, stopped, row, threadVars, life, timedOut>>

\* connect() returns: stopped, idle between two polls, dropped, or for good.
Returned(g) ==
    /\ \E s \in {"idle", "reconnecting", "failed"} :
          IF Quits(g) \/ s = "idle"
          THEN /\ HubWorker(g, "connect",
                            IF Quits(g) THEN "ended" ELSE "sleep")
               /\ UNCHANGED say
          ELSE /\ HubWorker(g, "connect", "check")
               /\ say' = [say EXCEPT ![g] = s]
    /\ UNCHANGED <<hubActive, gens, stopped, row, threadVars, life, timedOut>>

\* CancelableSleep ends, early when stopped.
Sleep(g) ==
    /\ HubWorker(g, "sleep", IF Quits(g) THEN "ended" ELSE "loop")
    /\ UNCHANGED <<hubActive, gens, stopped, say, row, threadVars, life,
                   timedOut>>

-----------------------------------------------------------------------------
(* The specification.                                                      *)

WorkerStep(g) ==
    \/ Backfill(g)
    \/ CheckStop(g)
    \/ Report(g)
    \/ Loop(g)
    \/ Connected(g)
    \/ Returned(g)
    \/ Sleep(g)

ThreadStep(t) == Install(t) \/ Signal(t) \/ Spawn(t)

ShutdownStep ==
    \/ ShutdownStops("up", "stopping")
    \/ WaitForDrain
    \/ ShutdownStops("drained", "stoppedAgain")
    \/ ShutdownClears

HubNext ==
    \/ ConnectSucceeds
    \/ Boot
    \/ StopAccount
    \/ Terminal
    \/ ShutdownStep
    \/ \E t \in Threads : ThreadStep(t)
    \/ \E g \in HubGens : WorkerStep(g)

HubSpec == HubInit /\ [][HubNext]_hubVars

\* A running thread is scheduled.  A stopped transport's connect() returns:
\* its disconnect() was called, and it polls the cancel flag.
HubFairness ==
    /\ \A t \in Threads : WF_hubVars(Signal(t) \/ Spawn(t))
    /\ \A g \in HubGens :
          WF_hubVars(Backfill(g) \/ CheckStop(g) \/ Report(g) \/ Loop(g)
                  \/ Sleep(g) \/ (Canceled(g) /\ Returned(g)))

HubFairSpec == HubSpec /\ HubFairness

-----------------------------------------------------------------------------
(* Properties.                                                             *)

\* Every variable ranges over the values the code can give it.
HubTypeOK ==
    /\ {hubActive, gens} \subseteq {0} \cup HubGens
    /\ stopped \subseteq HubGens
    /\ wpc \in [HubGens -> {"none", "backfill", "check", "report", "loop",
                         "connect", "sleep", "ended"}]
    /\ say \in [HubGens -> {"none", "connecting", "connected", "reconnecting",
                         "failed"}]
    /\ row \in {"none", "connecting", "connected", "reconnecting", "failed",
                "disconnected"}
    /\ hubPc \in [Threads -> {"idle", "start", "displace", "signal", "spawn",
                           "terminal"}]
    /\ {old, new} \subseteq [Threads -> {0} \cup HubGens]
    /\ life \in {"up", "stopping", "drained", "stoppedAgain", "down"}
    /\ timedOut \in BOOLEAN

\* A transport nobody can stop any more never runs: a generation that was not
\* told to stop is the one in active_, or a thread that displaced it is about
\* to tell it, however boot, connect and teardown interleave (StartAccount).
EveryGenerationReachable ==
    \A g \in HubGens :
        wpc[g] \notin {"none", "ended"} /\ ~Canceled(g) =>
            \/ g = hubActive
            \/ \E t \in Threads : old[t] = g

\* Bridge::Shutdown leaves no transport and no row behind, a connect that
\* finished while it ran included, unless its drain gave up.
DownIsQuiet == life = "down" /\ ~timedOut => Drained /\ row = "none"

\* A generation that is no longer the active one ends, whichever thread took
\* it out and wherever its worker was: it neither sleeps nor reconnects on.
StoppedEnds ==
    \A g \in HubGens :
        (g <= gens /\ g # hubActive) ~> wpc[g] \in {"none", "ended"}
=============================================================================
