--------------------------- MODULE ScheduleRunner ---------------------------
(***************************************************************************)
(* The unit that acts on its own initiative                                *)
(* (frontend/src/history/ScheduleRunner.cpp), composed with what it drives *)
(* and what drives it: the schedule rows, the routing it narrows           *)
(* (SetupOperators), the go-live prelude of bridge.cpp, the outputs, and   *)
(* the live edge of obs_bootstrap.cpp that opens and closes a session.     *)
(*                                                                         *)
(* Everything here runs on the UI thread except the end of an output: an   *)
(* output thread marks it down first and posts the live edge afterwards.   *)
(* On the UI thread the same edge runs inline, inside every StartOutput    *)
(* and StopOutput, so operators return the whole next world and a handler  *)
(* threads it through each of its calls.                                   *)
(***************************************************************************)
EXTENDS SetupOperators, Integers, FiniteSets, SequencesExt

CONSTANTS
    Id,             \* schedule entries
    NoId,           \* no entry
    Order,          \* the bindings in store order
    ArmLead,        \* kArmLeadMs
    Grace,          \* kMissedGraceMs
    StartInFlight,  \* kStartInFlightMs
    Retention,      \* kOccurrenceRetentionMs
    RequireAll,     \* scheduleRequireAllDestinations
    MaxTime,        \* bound on the clock
    StartTimes,     \* starts_at of an entry
    Plans,          \* sets of profiles an entry may name
    AutoStart,      \* values of auto_start
    PreludeMax,     \* how long the platforms let a prelude take
    Outcome,        \* per binding: "up", "failed" or "refused"
    Connected,      \* sets of profiles whose account is connected
    Preludes,       \* whether some destination has something to prepare
    BeginOk,        \* whether SessionRecorder::Begin can write its rows
    EdgeFirst       \* a posted live edge runs before any other UI task

ASSUME NoIdAssumption == NoId \notin Id

ASSUME OrderAssumption == ToSet(Order) = Binding /\ Len(Order) = Cardinality(Binding)

ASSUME TimesAssumption ==
    /\ {ArmLead, Grace, StartInFlight, Retention, MaxTime, PreludeMax} \subseteq Nat
    /\ StartTimes \subseteq 1..MaxTime
    /\ Grace < StartInFlight /\ StartInFlight < Retention

ASSUME InputsAssumption ==
    /\ {RequireAll, EdgeFirst} \subseteq BOOLEAN
    /\ Plans \subseteq SUBSET Profile
    /\ AutoStart \subseteq BOOLEAN /\ Preludes \subseteq BOOLEAN /\ BeginOk \subseteq BOOLEAN
    /\ Outcome \subseteq [Binding -> {"up", "failed", "refused"}]
    /\ Connected \subseteq SUBSET Profile

VARIABLES
    now,   \* the wall clock
    w      \* the world below

vars == <<now, w>>

RowStates == {"none", "planned", "armed", "live", "done", "missed", "deleted"}
Blocks == {"", "streaming", "unroutable"}
Maybe == Id \cup {NoId}

World == [state     : [Id -> RowStates],     \* the rows of schedule_entries
          startsAt  : [Id -> Nat],
          auto      : [Id -> BOOLEAN],
          names     : [Id -> SUBSET Profile],
          canceled  : SUBSET Id,             \* the flags of occurrences_
          requested : SUBSET Id,
          failed    : SUBSET Id,
          askedAt   : [Id -> Nat],
          block     : [Id -> Blocks],
          armedIds  : SUBSET Id,
          starting  : Maybe,                 \* startingId_, liveId_, appliedId_
          live      : Maybe,
          applied   : Maybe,
          config    : Config,                \* the routing and ScheduledSetup
          active    : SUBSET Binding,        \* outputs connecting, live, reconnecting
          listed    : SUBSET Binding,        \* entries of the engine, dead ones included
          prelude   : {"none", "running", "stopped"},
          since     : Nat,                   \* when the prelude began
          edge      : BOOLEAN,               \* a live edge is posted and has not run
          recording : BOOLEAN,               \* SessionRecorder
          link      : Maybe,                 \* schedule_id of the open session
          rows      : SUBSET Binding,        \* its destination rows
          staged    : BOOLEAN,               \* schedule.stageRouting loaded the routing
          autoDone  : SUBSET Id,             \* the clock started this occurrence
          twice     : BOOLEAN,               \* ... and started it again
          plan      : SUBSET Profile,        \* what the last loaded entry named
          own       : SUBSET Binding,        \* the user switched it on since the last load
          offPlan   : SUBSET Binding]        \* brought up by a start that did not name it

\* What one handler is told by the outside.
Oracle == [outcome : Outcome, connected : Connected, prelude : Preludes,
           begin : BeginOk]

-----------------------------------------------------------------------------
(* Questions.                                                              *)

StreamingOrGoingLive(v) == v.active # {} \/ v.prelude # "none"

IsStartInFlight(v, id) ==
    \/ id # NoId /\ v.live = id
    \/ /\ id \in v.requested \ v.failed
       /\ now - v.askedAt[id] < StartInFlight

InFlightIds(v) == {id \in Id : IsStartInFlight(v, id)}

\* Mutant: only what is streaming holds the routing, not a committed entry.
HeldByBroadcastOnly(v, id) == ~ IsStartInFlight(v, id) /\ StreamingOrGoingLive(v)

\* Whether something else already owns the routing.
RoutingHeldElsewhere(v, id) ==
    /\ ~ IsStartInFlight(v, id)
    /\ \/ v.applied \notin {id, NoId} /\ IsStartInFlight(v, v.applied)
       \/ StreamingOrGoingLive(v)

\* canArm: connected, and routed through a binding that is switched on.
CanArm(v, p, o) ==
    /\ p \in o.connected
    /\ \E b \in v.config.enabled : ProfileOf[b] = p

Armable(v, id, o) ==
    LET routable == {p \in v.names[id] : CanArm(v, p, o)}
    IN /\ v.names[id] # {}
       /\ \/ routable = v.names[id]
          \/ ~ RequireAll /\ routable # {}

ImminentArmedId(v) ==
    LET armed == {id \in v.armedIds : v.state[id] = "armed"}
    IN IF armed = {} THEN NoId
       ELSE CHOOSE id \in armed : \A other \in armed : v.startsAt[id] <= v.startsAt[other]

\* The entry a broadcast starting now belongs to.
ActiveEntryId(v) ==
    LET id == IF v.live # NoId THEN v.live ELSE v.starting
    IN IF id # NoId /\ v.state[id] \in {"armed", "live"} THEN id ELSE NoId

-----------------------------------------------------------------------------
(* Putting the routing back.                                               *)

SetState(v, id, s) == [v EXCEPT !.state[id] = s]

\* occurrences_.erase.
Erase(v, ids) ==
    [v EXCEPT !.canceled = @ \ ids, !.requested = @ \ ids, !.failed = @ \ ids,
              !.askedAt = [i \in Id |-> IF i \in ids THEN 0 ELSE @[i]],
              !.block = [i \in Id |-> IF i \in ids THEN "" ELSE @[i]]]

\* ScheduledSetup::Revert as the runner, the modal and the stop edge call it.
SetupRevert(v) ==
    LET c == Revert(v.config, StreamingOrGoingLive(v))
    IN [v EXCEPT !.config = c, !.staged = @ /\ Outstanding(c)]

RevertApplied(v) ==
    IF v.applied = NoId THEN v ELSE SetupRevert([v EXCEPT !.applied = NoId])

-----------------------------------------------------------------------------
(* The live edge.                                                          *)

NoteWentLive(v) ==
    LET id == v.starting
        u  == [v EXCEPT !.starting = NoId]
    IN IF id = NoId THEN u
       ELSE IF v.state[id] # "armed" THEN [u EXCEPT !.armedIds = @ \ {id}]
       ELSE [SetState(u, id, "live") EXCEPT !.live = id, !.armedIds = @ \ {id}]

NoteStoppedStreaming(v) ==
    LET id == v.live
        u  == Erase(SetState([v EXCEPT !.live = NoId], id, "done"), {id})
    IN IF id = NoId THEN v
       ELSE IF v.applied = id THEN RevertApplied(u) ELSE u

\* Mutant: the stop edge closes the session and puts the routing back but does
\* not tell the runner.
EdgeForgetsRunner(v, begin) ==
    IF v.active # {} /\ ~ v.recording
      THEN NoteWentLive([v EXCEPT !.recording = begin,
                                  !.link = IF begin THEN ActiveEntryId(v) ELSE NoId,
                                  !.rows = IF begin THEN v.active ELSE {}])
    ELSE IF v.active = {} /\ v.recording
      THEN SetupRevert([v EXCEPT !.recording = FALSE, !.link = NoId, !.rows = {}])
    ELSE v

\* The task of onLiveStateChanged.
LiveEdge(v, begin) ==
    IF v.active # {} /\ ~ v.recording
      THEN NoteWentLive([v EXCEPT !.recording = begin,
                                  !.link = IF begin THEN ActiveEntryId(v) ELSE NoId,
                                  !.rows = IF begin THEN v.active ELSE {}])
    ELSE IF v.active = {} /\ v.recording
      THEN SetupRevert(NoteStoppedStreaming([v EXCEPT !.recording = FALSE,
                                                      !.link = NoId, !.rows = {}]))
    ELSE v

-----------------------------------------------------------------------------
(* The outputs.                                                            *)

\* StartOutput.  A refusal leaves a dead entry behind; a failure of
\* obs_output_start comes after the edge that reported the output connecting.
StartOutput(v, b, o) ==
    LET up == [v EXCEPT !.active = @ \cup {b}, !.listed = @ \cup {b}]
    IN IF b \in v.active THEN v
       ELSE IF \/ o.outcome[b] = "refused"
               \/ \E other \in v.active : ProfileOf[other] = ProfileOf[b]
         THEN LiveEdge([v EXCEPT !.listed = @ \cup {b}], o.begin)
       ELSE IF o.outcome[b] = "failed"
         THEN LiveEdge([LiveEdge(up, o.begin) EXCEPT !.active = @ \ {b}], o.begin)
       ELSE LiveEdge(up, o.begin)

\* StopOutput: nothing for a binding without an entry.
StopOutput(v, b, begin) ==
    IF b \notin v.listed THEN v
    ELSE LiveEdge([v EXCEPT !.active = @ \ {b}, !.listed = @ \ {b}], begin)

\* StartAllEnabled: the loop reads `enabled` as it goes.  This go-live was asked
\* for at time `at`; `id` is the entry that asked for it, if one did.
StartAllEnabled(v, at, o) ==
    LET id == IF v.starting \in v.requested /\ v.askedAt[v.starting] = at THEN v.starting ELSE NoId
        Visit(u, b) ==
            IF b \notin u.config.enabled THEN u
            ELSE LET n == StartOutput(u, b, o)
                 IN IF id # NoId /\ b \in n.active \ (v.active \cup v.own)
                       /\ ProfileOf[b] \notin v.plan
                      THEN [n EXCEPT !.offPlan = @ \cup {b}] ELSE n
    IN FoldLeft(Visit, v, Order)

\* StartStreamingAllOnUi.
StartStreamingAll(v, o) ==
    IF v.prelude # "none" THEN v
    ELSE IF o.prelude THEN [v EXCEPT !.prelude = "running", !.since = now]
    ELSE StartAllEnabled(v, now, o)

-----------------------------------------------------------------------------
(* Loading an entry.                                                       *)

SetupEntry(v, id) ==
    [names |-> v.names[id], fields |-> [p \in Profile |-> NoFields]]

Position(b) == CHOOSE i \in DOMAIN Order : Order[i] = b

\* NarrowRouting switches bindings off through SetOutputBindingEnabled, which
\* stops a listed output, which runs the live edge.  When a stop edge is still
\* owed it runs there, at the `first` listed one, and puts back the flips made
\* before it.
NarrowInto(v, id, begin) ==
    LET c      == Unstacked(v.config)
        e      == SetupEntry(v, id)
        off    == Unwanted(c, e)
        dead   == off \cap v.listed
        first  == CHOOSE b \in dead : \A d \in dead : Position(b) <= Position(d)
        early  == {b \in off : Position(b) < Position(first)}
        midway == [Flip(c, early) EXCEPT !.enabled = @ \ {first}]
        edged  == LiveEdge([v EXCEPT !.config = midway, !.listed = @ \ {first}], begin)
    IN IF v.recording /\ dead # {}
         THEN [edged EXCEPT !.config = [Flip(@, off \ early) EXCEPT !.applied = TRUE],
                            !.listed = @ \ off]
         ELSE [v EXCEPT !.config = Apply(@, e, off), !.listed = @ \ off]

\* PrepareStart succeeds.
Prepares(v, id) ==
    LET u == RevertApplied(v)
    IN /\ v.block[id] = ""
       /\ ~ StreamingOrGoingLive(u)
       /\ Wanted(Unstacked(u.config), SetupEntry(u, id)) # {}

\* What it leaves behind when it does not.
Refused(v, id) ==
    LET u == RevertApplied(v)
    IN IF v.block[id] # "" THEN v
       ELSE IF StreamingOrGoingLive(u) THEN u ELSE SetupRevert(u)

\* Mutant: the start is committed without the entry's routing.
PrepareUnrouted(v, id, begin) ==
    LET u == RevertApplied(v)
    IN [u EXCEPT !.applied = id, !.staged = FALSE, !.own = {}, !.plan = v.names[id],
                 !.requested = @ \cup {id}, !.askedAt[id] = now,
                 !.starting = id]

PrepareStart(v, id, begin) ==
    LET u == NarrowInto(RevertApplied(v), id, begin)
    IN [u EXCEPT !.applied = id, !.staged = FALSE, !.own = {}, !.plan = v.names[id],
                 !.requested = @ \cup {id}, !.askedAt[id] = now,
                 !.starting = id]

RequestStart(v, id, o) == StartStreamingAll(PrepareStart(v, id, o.begin), o)

\* AdoptImminentArmed.
AdoptImminentArmed(v, begin) ==
    LET id == ImminentArmedId(v)
    IN IF \/ v.starting # NoId \/ v.live # NoId \/ id = NoId
          \/ id \in v.requested
          \/ RoutingHeldElsewhere(v, id)
         THEN v
       ELSE IF Prepares(v, id) THEN PrepareStart(v, id, begin)
       ELSE Refused(v, id)

\* NoteStartFailed.
NoteStartFailed(v) ==
    LET id == v.starting
        u  == [v EXCEPT !.starting = NoId,
                        !.failed = IF id \in v.requested THEN @ \cup {id} ELSE @]
    IN IF id = NoId THEN v
       ELSE IF v.applied = id THEN RevertApplied(u) ELSE u

-----------------------------------------------------------------------------
(* One pass of the clock.                                                  *)

Exists(v, id) == v.state[id] \notin {"none", "deleted"}

DisarmIfOutOfWindow(v, id) ==
    IF \/ v.state[id] # "armed"
       \/ v.startsAt[id] - now <= ArmLead
       \/ IsStartInFlight(v, id)
      THEN v
      ELSE LET u == [Erase(SetState(v, id, "planned"), {id}) EXCEPT !.armedIds = @ \ {id}]
           IN IF v.applied = id THEN RevertApplied(u) ELSE u

PruneStale(v) ==
    LET kept(id) == \/ IsStartInFlight(v, id)
                    \/ /\ Exists(v, id)
                       /\ v.startsAt[id] - now <= ArmLead
                       /\ now - v.startsAt[id] <= Retention
        pruned   == Erase(v, {id \in Id : ~ kept(id)})
        disarmed == FoldSet(LAMBDA id, u : DisarmIfOutOfWindow(u, id), pruned, v.armedIds)
    IN [disarmed EXCEPT
          !.armedIds = {id \in @ : disarmed.state[id] = "armed"},
          !.starting = IF @ # NoId /\ ~ IsStartInFlight(disarmed, @)
                            /\ disarmed.state[@] # "armed" THEN NoId ELSE @,
          !.live     = IF @ # NoId /\ disarmed.state[@] # "live" THEN NoId ELSE @]

ArmIfDue(v, id) ==
    IF /\ v.state[id] = "planned"
       /\ v.startsAt[id] > now /\ v.startsAt[id] - now <= ArmLead
       /\ id \notin v.canceled
      THEN [SetState(v, id, "armed") EXCEPT !.armedIds = @ \cup {id}]
      ELSE v

RefreshArmability(v, id, o) ==
    IF v.state[id] # "armed" THEN v
    ELSE [v EXCEPT !.block[id] = IF RoutingHeldElsewhere(v, id) THEN "streaming"
                                 ELSE IF Armable(v, id, o) THEN "" ELSE "unroutable"]

\* Mutant: a request already made does not stop the clock from making it again.
StartWheneverDue(v, id, o) ==
    IF \/ v.state[id] # "armed" \/ ~ v.auto[id] \/ now < v.startsAt[id]
       \/ id \in v.canceled
      THEN v
    ELSE IF Prepares(v, id)
      THEN RequestStart([v EXCEPT !.twice = @ \/ id \in v.autoDone,
                                  !.autoDone = @ \cup {id}], id, o)
    ELSE [Refused(v, id) EXCEPT !.block[id] = IF @ = "" THEN "unroutable" ELSE @]

StartIfDue(v, id, o) ==
    IF \/ v.state[id] # "armed" \/ ~ v.auto[id] \/ now < v.startsAt[id]
       \/ id \in v.canceled \cup v.requested
      THEN v
    ELSE IF Prepares(v, id)
      THEN RequestStart([v EXCEPT !.twice = @ \/ id \in v.autoDone,
                                  !.autoDone = @ \cup {id}], id, o)
    ELSE [Refused(v, id) EXCEPT !.block[id] = IF @ = "" THEN "unroutable" ELSE @]

\* Mutant: a committed start is swept with the rest.
SweepCommitted(v) ==
    [v EXCEPT !.state =
       [id \in Id |-> IF @[id] \in {"planned", "armed"} /\ v.startsAt[id] < now - Grace
                        THEN "missed" ELSE @[id]]]

\* Mutant: an armed row is left for the go-live to settle.
SweepPlannedOnly(v) ==
    [v EXCEPT !.state =
       [id \in Id |-> IF @[id] = "planned" /\ v.startsAt[id] < now - Grace
                        THEN "missed" ELSE @[id]]]

\* Only planned and armed rows can be missed, and no committed one.
SweepMissed(v) ==
    LET except == InFlightIds(v)
    IN [v EXCEPT !.state =
          [id \in Id |-> IF /\ @[id] \in {"planned", "armed"}
                            /\ v.startsAt[id] < now - Grace
                            /\ id \notin except
                           THEN "missed" ELSE @[id]]]

SettleApplied(v) ==
    IF \/ v.applied = NoId \/ IsStartInFlight(v, v.applied)
       \/ v.state[v.applied] \in {"armed", "live"}
      THEN v ELSE RevertApplied(v)

Due(v) == {id \in Id : Exists(v, id) /\ v.startsAt[id] \in (now - Grace)..(now + ArmLead)}

TickOf(v, o) ==
    LET start == PruneStale(v)
        rows  == SetToSortSeq(Due(start), LAMBDA a, b : start.startsAt[a] <= start.startsAt[b])
        Visit(u, id) == StartIfDue(RefreshArmability(ArmIfDue(u, id), id, o), id, o)
    IN SettleApplied(SweepMissed(FoldLeft(Visit, start, rows)))

\* The UI thread may take another task while an edge is posted to it.
UiFree == EdgeFirst => ~ w.edge

\* A bound: the clock leaves a request made by hand the time to expire.
Horizon == now + StartInFlight < MaxTime

Tick ==
    /\ UiFree
    /\ \E o \in Oracle : w' = TickOf(w, o)
    /\ UNCHANGED now

-----------------------------------------------------------------------------
(* The schedule as the user edits it.                                      *)

Create(id, at, auto, names) ==
    /\ UiFree
    /\ w.state[id] = "none"
    /\ w' = [w EXCEPT !.state[id] = "planned", !.startsAt[id] = at,
                      !.auto[id] = auto, !.names[id] = names]
    /\ UNCHANGED now

\* schedule.update, then NoteEntryChanged.
Update(id, at, auto, names) ==
    /\ UiFree
    /\ w.state[id] \in {"planned", "armed"}
    /\ w' = DisarmIfOutOfWindow(
              [w EXCEPT !.startsAt[id] = at, !.auto[id] = auto, !.names[id] = names,
                        !.autoDone = IF at # w.startsAt[id] THEN @ \ {id} ELSE @], id)
    /\ UNCHANGED now

\* schedule.delete, then NoteEntryChanged.
Delete(id) ==
    /\ UiFree
    /\ Exists(w, id)
    /\ ~ IsStartInFlight(w, id)
    /\ LET u == [Erase(SetState(w, id, "deleted"), {id}) EXCEPT
                   !.armedIds = @ \ {id},
                   !.starting = IF @ = id THEN NoId ELSE @,
                   !.live     = IF @ = id THEN NoId ELSE @,
                   !.link     = IF @ = id THEN NoId ELSE @]
       IN w' = IF w.applied = id THEN RevertApplied(u) ELSE u
    /\ UNCHANGED now

CancelCountdown(id) ==
    /\ UiFree
    /\ w.state[id] = "armed"
    /\ ~ IsStartInFlight(w, id)
    /\ LET u == [SetState(w, id, "planned") EXCEPT
                   !.canceled = @ \cup {id}, !.block[id] = "", !.armedIds = @ \ {id}]
       IN w' = IF w.applied = id THEN RevertApplied(u) ELSE u
    /\ UNCHANGED now

StartNow(id) ==
    /\ UiFree
    /\ Horizon
    /\ w.prelude = "none"
    /\ w.state[id] \in {"planned", "armed", "missed"}
    /\ ~ IsStartInFlight(w, id)
    /\ ~ RoutingHeldElsewhere(w, id)
    /\ \E o \in Oracle :
         /\ Armable(w, id, o)
         /\ LET u == [SetState(w, id, "armed") EXCEPT
                        !.armedIds = IF w.state[id] = "armed" THEN @ ELSE @ \cup {id},
                        !.canceled = @ \ {id}, !.requested = @ \ {id},
                        !.failed = @ \ {id}, !.block[id] = "",
                        !.autoDone = @ \ {id}]
            IN w' = IF Prepares(u, id) THEN RequestStart(u, id, o) ELSE Refused(u, id)
    /\ UNCHANGED now

\* schedule.stageRouting; ApplyRouting refuses while something is streaming.
StageRouting(id) ==
    /\ UiFree
    /\ Exists(w, id)
    /\ InFlightIds(w) = {}
    /\ ~ StreamingOrGoingLive(w)
    /\ \E begin \in BeginOk :
         w' = IF Wanted(Unstacked(w.config), SetupEntry(w, id)) = {}
                THEN SetupRevert(w)
                ELSE [NarrowInto(w, id, begin) EXCEPT !.staged = TRUE, !.own = {}]
    /\ UNCHANGED now

UnstageRouting ==
    /\ UiFree
    /\ InFlightIds(w) = {}
    /\ w' = SetupRevert(w)
    /\ UNCHANGED now

-----------------------------------------------------------------------------
(* The broadcast as the user drives it.                                    *)

StreamingStart(adopt) ==
    /\ UiFree
    /\ adopt => Horizon
    /\ w.prelude = "none"
    /\ \E o \in Oracle :
         w' = StartStreamingAll(IF adopt THEN AdoptImminentArmed(w, o.begin) ELSE w, o)
    /\ UNCHANGED now

\* StopStreamingAll: the generation moves on, so a prelude in flight will not
\* start anything; then StopAll.
StreamingStop ==
    /\ UiFree
    /\ \E begin \in BeginOk :
         w' = LiveEdge([w EXCEPT !.prelude = IF @ = "running" THEN "stopped" ELSE @,
                                 !.active = {}, !.listed = {}], begin)
    /\ UNCHANGED now

\* outputBinding.setEnabled.
SetOutputBindingEnabled(b, on) ==
    /\ UiFree
    /\ on # (b \in w.config.enabled)
    /\ IF on
         THEN /\ w.prelude = "none"
              /\ ~ ProfileEnabledElsewhere(w.config, b)
              /\ w' = [w EXCEPT !.config.enabled = @ \cup {b},
                              !.own = IF w.applied # NoId THEN @ \cup {b} ELSE @]
         ELSE \E begin \in BeginOk :
                w' = StopOutput([w EXCEPT !.config.enabled = @ \ {b}], b, begin)
    /\ UNCHANGED now

\* A destination joins the running broadcast: the synchronous half of
\* ArmBindingLive, or the landing of its preparation.
StartArmedOutput(b) ==
    /\ UiFree
    /\ w.active # {}
    /\ b \in w.config.enabled \ w.active
    /\ \E o \in Oracle : w' = StartOutput(w, b, o)
    /\ UNCHANGED now

\* multistream.stopOutput.
StopOneOutput(b) ==
    /\ UiFree
    /\ b \in w.listed
    /\ \E begin \in BeginOk : w' = StopOutput(w, b, begin)
    /\ UNCHANGED now

-----------------------------------------------------------------------------
(* The system.                                                             *)

\* The prelude's task on the UI thread.
PreludeLands(prepared) ==
    /\ UiFree
    /\ w.prelude # "none"
    /\ LET u == [w EXCEPT !.prelude = "none", !.since = 0]
       IN IF w.prelude = "running" /\ prepared
            THEN \E o \in Oracle : w' = StartAllEnabled(u, w.since, o)
            ELSE w' = NoteStartFailed(u)
    /\ UNCHANGED now

\* OnOutputStop on an output thread: the edge is only posted.
OutputEnds(b) ==
    /\ b \in w.active
    /\ w' = [w EXCEPT !.active = @ \ {b}, !.edge = TRUE]
    /\ UNCHANGED now

EdgeRuns ==
    /\ w.edge
    /\ \E begin \in BeginOk : w' = LiveEdge([w EXCEPT !.edge = FALSE], begin)
    /\ UNCHANGED now

\* The process dies and comes back: RecoverInterrupted, then the startup sweep.
\* The bindings file survives, what ScheduledSetup remembered does not.
Restart ==
    /\ w' = SweepMissed(
              [w EXCEPT !.state = [id \in Id |-> IF @[id] = "live" THEN "done"
                                                 ELSE IF @[id] = "armed" THEN "planned"
                                                 ELSE @[id]],
                        !.canceled = {}, !.requested = {}, !.failed = {},
                        !.askedAt = [id \in Id |-> 0], !.block = [id \in Id |-> ""],
                        !.armedIds = {}, !.starting = NoId, !.live = NoId, !.applied = NoId,
                        !.config.touched = {}, !.config.applied = FALSE,
                        !.active = {}, !.listed = {}, !.prelude = "none", !.since = 0,
                        !.edge = FALSE, !.recording = FALSE, !.link = NoId, !.rows = {},
                        !.staged = FALSE, !.plan = {}, !.own = {}])
    /\ UNCHANGED now

\* The clock; the platforms answer a prelude within PreludeMax.
Advance ==
    /\ now < MaxTime
    /\ w.prelude # "none" => now - w.since < PreludeMax
    /\ now' = now + 1
    /\ UNCHANGED w

InitWorld ==
    [state |-> [id \in Id |-> "none"], startsAt |-> [id \in Id |-> 0],
     auto |-> [id \in Id |-> FALSE], names |-> [id \in Id |-> {}],
     canceled |-> {}, requested |-> {}, failed |-> {},
     askedAt |-> [id \in Id |-> 0], block |-> [id \in Id |-> ""],
     armedIds |-> {}, starting |-> NoId, live |-> NoId, applied |-> NoId,
     config |-> [present |-> Binding, enabled |-> Binding, touched |-> {},
                 applied |-> FALSE, bag |-> [p \in Profile |-> NoFields],
                 planned |-> {}, before |-> [p \in Profile |-> NoFields],
                 after |-> [p \in Profile |-> NoFields]],
     active |-> {}, listed |-> {}, prelude |-> "none", since |-> 0, edge |-> FALSE,
     recording |-> FALSE, link |-> NoId, rows |-> {},
     staged |-> FALSE, autoDone |-> {}, twice |-> FALSE, plan |-> {}, own |-> {}, offPlan |-> {}]

Init == now = 0 /\ w = InitWorld

User ==
    \/ \E id \in Id, at \in StartTimes, auto \in AutoStart, names \in Plans :
         Create(id, at, auto, names) \/ Update(id, at, auto, names)
    \/ \E id \in Id : \/ Delete(id) \/ CancelCountdown(id) \/ StartNow(id)
                      \/ StageRouting(id)
    \/ UnstageRouting
    \/ \E adopt \in BOOLEAN : StreamingStart(adopt)
    \/ StreamingStop
    \/ \E b \in Binding : \/ \E on \in BOOLEAN : SetOutputBindingEnabled(b, on)
                          \/ StartArmedOutput(b) \/ StopOneOutput(b)

System ==
    \/ Tick
    \/ \E prepared \in BOOLEAN : PreludeLands(prepared)
    \/ \E b \in Binding : OutputEnds(b)
    \/ EdgeRuns
    \/ Advance

Next == User \/ System \/ Restart

Spec == Init /\ [][Next]_vars

-----------------------------------------------------------------------------
(* Properties.                                                             *)

\* Types; an active output has an entry, rows belong to an open session.
TypeOK ==
    /\ now \in 0..MaxTime
    /\ w \in World
    /\ w.active \subseteq w.listed
    /\ w.rows # {} => w.recording

\* The clock asks for a go-live at most once per occurrence, through prunes,
\* refusals, cancellations, edits and a restart.
OneStartPerOccurrence == ~ w.twice

\* Session, calendar and outputs agree on what is on air, although each is
\* written at another point of the live edge.  An open session that points at
\* an entry points at one that reads `live`, never at one the sweep settled or
\* the user deleted; and an entry reads `live` only while something is
\* streaming, or its end is about to be processed.
LiveAgrees ==
    /\ w.recording /\ w.link # NoId =>
         w.state[w.link] = "live" /\ w.live = w.link
    /\ (\E id \in DOMAIN w.state : w.state[id] = "live") /\ ~ w.edge => w.active # {}

\* A go-live an entry asked for brings up only destinations the entry names.
OnlyPlannedAired == w.offPlan = {}

\* While the prelude an entry asked for is at work nothing settles the entry and
\* nothing switches a binding on or forgets one the entry switched off: the
\* broadcasts being created are created against that routing.
PreludeKeepsRouting ==
    [][\A id \in DOMAIN w.state :
         /\ w.starting = id /\ w.state[id] = "armed" /\ w.since = w.askedAt[id]
         /\ w.prelude = "running" /\ w'.prelude = "running"
         => /\ w'.state[id] = "armed"
            /\ w'.config.touched = w.config.touched
            /\ w'.config.enabled \subseteq w.config.enabled]_vars

\* While a start is on its way up, or its broadcast is running, no other entry
\* takes over the routing it loaded.
RoutingNotTaken ==
    [][\A id \in DOMAIN w.state : w.applied = id /\ IsStartInFlight(w, id)
                                     => w'.applied \in {id, NoId}]_vars

\* The session holds a row for every destination that is going out.
SessionRecordsAll == w.recording => w.active \subseteq w.rows

\* No entry stays upcoming for ever: it goes live, is missed or is deleted.
EntriesSettle ==
    \A id \in Id : w.state[id] \in {"planned", "armed"}
                     ~> w.state[id] \notin {"planned", "armed"}
=============================================================================
