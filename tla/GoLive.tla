------------------------------- MODULE GoLive -------------------------------
(* How a broadcast is brought up (bridge.cpp): a go-live first prepares every *)
(* enabled destination that needs it on a worker (the prelude) and starts the *)
(* outputs when the worker's result lands on the UI thread; a destination     *)
(* armed while the broadcast runs is prepared and started the same way, one   *)
(* worker each.  A stop, a disarm or a retarget may come at any point between *)
(* the request and the landing.                                               *)
(*                                                                            *)
(* Every action but the workers' and the output threads' runs on the UI       *)
(* thread.  Outputs are reduced to what this code asks the engine (module     *)
(* MultistreamEngine has their life); the session is open while one is live.  *)
(* The fields void and covered, and the variable asked, are bookkeeping of    *)
(* the properties.                                                            *)
EXTENDS Naturals, Functions

CONSTANTS
    Binding, Profile, Account, NoAccount,
    AccountOf,     \* profile -> its account, NoAccount for a stream-key destination
    Persistent,    \* accounts whose channel exists without a broadcast (Twitch, Kick)
    Order,         \* binding -> its position in the store
    Carries,       \* binding -> the profiles it is ever pointed at
    Dialog,        \* profiles the Go Live dialog pushes for
    Idle,          \* the value of prelude when none is in flight
    QuietPrelude,  \* assume nobody creates or retargets a binding during a prelude
    MaxGeneration, MaxToken   \* bounds

ASSUME AccountAssumption == AccountOf \in [Profile -> Account \cup {NoAccount}]
ASSUME PersistentAssumption == Persistent \subseteq Account
ASSUME OrderAssumption ==
    /\ Order \in [Binding -> Nat]
    /\ \A b, c \in Binding : Order[b] = Order[c] => b = c
ASSUME CarriesAssumption == Carries \in [Binding -> SUBSET Profile]
ASSUME DialogAssumption == Dialog \subseteq Profile

VARIABLES
    profile,       \* binding -> profile
    present,       \* bindings in the store
    enabled,
    generation,    \* g_goLiveGeneration
    prelude,       \* the go-live prelude in flight, or Idle
    claims,        \* g_armPreludeClaims: key -> token, 0 for none
    claimSeq,      \* g_armPreludeClaimSeq
    arms,          \* mid-stream arms in flight
    sent,          \* profiles in g_sentMetadata
    active,        \* profiles the providers hold an active broadcast for
    pushing,       \* profiles a streamMeta.set has prepared and not yet recorded
    held,          \* bindings with an entry in the engine
    live,          \* bindings whose entry is active
    wentLive,      \* MultistreamEngine::wentLive
    reports,       \* posted onOutputEnded reports
    asked          \* profiles somebody asked to prepare since the last stop

storeVars == <<profile, present, enabled>>
engineVars == <<held, live, wentLive>>
vars == <<storeVars, generation, prelude, claims, claimSeq, arms, sent, active,
          pushing, engineVars, reports, asked>>

Backed(p) == AccountOf[p] # NoAccount
MetadataOnly(p) == AccountOf[p] \in Persistent

\* What receives the call: the channel, or the destination's own broadcast.
Key == Account \cup Profile
PreludeDedupKey(p) == IF MetadataOnly(p) THEN AccountOf[p] ELSE p

\* The jobs of a prelude, by the position of their binding.
Jobs == UNION {[at -> Profile] : at \in SUBSET {Order[b] : b \in Binding}}

Prelude == [jobs : Jobs, recorded : SUBSET Profile, failed : BOOLEAN,
            generation : Nat, void : BOOLEAN, covered : SUBSET Profile]
Arm == [token : Nat, binding : Binding, profile : Profile, recorded : SUBSET Profile,
        failed : BOOLEAN, generation : Nat, landing : BOOLEAN, void : BOOLEAN]

ASSUME IdleAssumption == Idle \notin Prelude

GoLivePreludeInFlight == prelude # Idle
AnyLive == live # {}

\* Types; the engine holds entries of existing bindings only (remove stops first).
TypeOK ==
    /\ profile \in [Binding -> Profile]
    /\ present \subseteq Binding /\ enabled \subseteq present
    /\ generation \in Nat /\ claimSeq \in Nat
    /\ prelude \in {Idle} \cup Prelude
    /\ claims \in [Key -> Nat]
    /\ arms \subseteq Arm
    /\ sent \subseteq Profile /\ active \subseteq Profile /\ pushing \subseteq Profile
    /\ held \subseteq present /\ live \subseteq held /\ wentLive \subseteq Binding
    /\ reports \subseteq Binding
    /\ asked \subseteq Profile

Init ==
    /\ profile \in [Binding -> Profile]
    /\ \A b \in Binding : profile[b] \in Carries[b]
    /\ present \in SUBSET Binding
    /\ enabled \in SUBSET present
    /\ \A b, c \in enabled : profile[b] = profile[c] => b = c
    /\ generation = 0
    /\ prelude = Idle
    /\ claims = [k \in Key |-> 0]
    /\ claimSeq = 0
    /\ arms = {}
    /\ sent = {} /\ active = {} /\ pushing = {}
    /\ held = {} /\ live = {} /\ wentLive = {}
    /\ reports = {}
    /\ asked = {}

-----------------------------------------------------------------------------
(* Starting and stopping outputs.                                          *)

\* The engine is asked to start the bindings bs, of which up come up; the
\* others keep an entry in error.  The session that opens with the first
\* output takes the records of the outputs that are up at that moment, which
\* is that one.
First(bs) == {b \in bs : \A c \in bs : Order[b] <= Order[c]}

StartOutputs(bs, up) ==
    /\ held' = held \cup bs
    /\ live' = live \cup up
    /\ sent' = IF AnyLive THEN sent ELSE sent \ {profile[b] : b \in First(up)}

\* StartAllEnabled: a go-live with nothing live begins a session.
StartEnabledOutputsNow(up) ==
    /\ up \subseteq enabled \ live
    /\ StartOutputs(enabled, up)
    /\ wentLive' = IF AnyLive THEN wentLive ELSE {}

\* StopOutput reports the end of a binding that has an entry before it returns.
StopOutput(b) ==
    /\ held' = held \ {b}
    /\ live' = live \ {b}
    /\ active' = IF b \in held THEN active \ {profile[b]} ELSE active

-----------------------------------------------------------------------------
(* Preparing one destination.                                              *)

\* Whether MakePreludeJob makes a job of an enabled binding; retrying says the
\* binding's output was up in this session and is down.
NeedsJob(b, retrying) ==
    Backed(profile[b]) /\ (retrying \/ profile[b] \notin sent)

\* CollectBroadcastPrelude: the first binding per key, in store order.
Collected ==
    LET wanting == {b \in enabled : NeedsJob(b, FALSE)}
        rivals(b) == {c \in wanting :
                        PreludeDedupKey(profile[c]) = PreludeDedupKey(profile[b])}
        firsts == {b \in wanting : b \in First(rivals(b))}
    IN  [at \in {Order[b] : b \in firsts} |->
           profile[CHOOSE b \in firsts : Order[b] = at]]

AlreadyRecorded == {profile[b] : b \in {c \in enabled : Backed(profile[c])}} \cap sent

\* How RunPreludeJob can end: the account is gone or no broadcast could be made;
\* a channel's push failed, which is not fatal; the platform holds a visibility
\* nobody asked for; the destination is ready.
Outcome == {"refused", "unpushed", "unsafe", "ready"}

RunPreludeJob(p, outcome) ==
    /\ outcome = "unpushed" => MetadataOnly(p)
    /\ sent' = IF outcome \in {"unsafe", "ready"} /\ MetadataOnly(p) THEN sent \cup {p} ELSE sent
    /\ active' = IF outcome \in {"unsafe", "ready"} /\ ~ MetadataOnly(p)
                 THEN active \cup {p} ELSE active

After(attempt, p, outcome) ==
    [attempt EXCEPT !.recorded = IF outcome \in {"unsafe", "ready"} /\ MetadataOnly(p)
                                 THEN @ \cup {p} ELSE @,
                    !.failed = @ \/ outcome \in {"refused", "unsafe"}]

-----------------------------------------------------------------------------
(* Going live.                                                             *)

\* streaming.start, the hotkey, the tray and the scheduler (StartStreamingAllOnUi).
StartStreamingAll ==
    /\ ~ GoLivePreludeInFlight
    /\ IF DOMAIN Collected = {}
       THEN /\ \E up \in SUBSET (enabled \ live) : StartEnabledOutputsNow(up)
            /\ UNCHANGED <<generation, prelude, asked>>
       ELSE /\ generation < MaxGeneration
            /\ generation' = generation + 1
            /\ prelude' = [jobs |-> Collected, recorded |-> AlreadyRecorded, failed |-> FALSE,
                           generation |-> generation + 1, void |-> FALSE,
                           covered |-> {profile[b] : b \in enabled}]
            /\ asked' = asked \cup {profile[b] : b \in enabled}
            /\ UNCHANGED <<engineVars, sent>>
    /\ UNCHANGED <<storeVars, claims, claimSeq, arms, active, pushing, reports>>

\* The prelude's worker handles its next job.
PreludeWorks ==
    /\ GoLivePreludeInFlight
    /\ \E at \in DOMAIN prelude.jobs, outcome \in Outcome :
         /\ \A later \in DOMAIN prelude.jobs : at <= later
         /\ RunPreludeJob(prelude.jobs[at], outcome)
         /\ prelude' = [After(prelude, prelude.jobs[at], outcome) EXCEPT
                          !.jobs = Restrict(@, DOMAIN @ \ {at})]
    /\ UNCHANGED <<storeVars, generation, claims, claimSeq, arms, pushing, engineVars,
                   reports, asked>>

Cancelled == prelude.generation # generation

\* Mutant: a cancelled prelude leaves the broadcasts it made in the caches.
DropRecordsOnly ==
    /\ sent' = sent \ prelude.recorded
    /\ UNCHANGED active

DropPrepared ==
    /\ sent' = sent \ prelude.recorded
    /\ active' = {}

\* Its result on the UI thread: cancelled by a stop, refused, or started.
PreludeLands ==
    /\ GoLivePreludeInFlight
    /\ DOMAIN prelude.jobs = {}
    /\ prelude' = Idle
    /\ \/ /\ Cancelled
          /\ DropPrepared
          /\ UNCHANGED engineVars
       \/ /\ ~ Cancelled /\ prelude.failed
          /\ sent' = sent \ prelude.recorded
          /\ UNCHANGED <<active, engineVars>>
       \/ /\ ~ Cancelled /\ ~ prelude.failed
          /\ \E up \in SUBSET (enabled \ live) : StartEnabledOutputsNow(up)
          /\ UNCHANGED active
    /\ UNCHANGED <<storeVars, generation, claims, claimSeq, arms, pushing, reports, asked>>

\* streaming.stop: whatever is in flight is from now on void.
StopStreamingAll ==
    /\ generation < MaxGeneration
    /\ generation' = generation + 1
    /\ sent' = {} /\ claims' = [k \in Key |-> 0] /\ active' = {}
    /\ held' = {} /\ live' = {} /\ wentLive' = {}
    /\ prelude' = IF GoLivePreludeInFlight THEN [prelude EXCEPT !.void = TRUE] ELSE Idle
    /\ arms' = {[a EXCEPT !.void = TRUE] : a \in arms}
    /\ asked' = {}
    /\ UNCHANGED <<storeVars, claimSeq, pushing, reports>>

-----------------------------------------------------------------------------
(* Arming one destination while the broadcast runs.                        *)

\* multistream.startOutput (ArmBindingLive).  A refusal changes nothing.
ArmBindingLive(b) ==
    /\ b \in enabled \ live
    /\ ~ GoLivePreludeInFlight
    /\ AnyLive
    /\ LET p == profile[b]
           key == PreludeDedupKey(p)
       IN  \/ /\ ~ NeedsJob(b, b \in wentLive)
              /\ \E up \in SUBSET {b} : StartOutputs({b}, up)
              /\ UNCHANGED <<wentLive, claims, claimSeq, arms, asked>>
           \/ /\ NeedsJob(b, b \in wentLive)
              /\ claims[key] = 0
              /\ claimSeq < MaxToken
              /\ claimSeq' = claimSeq + 1
              /\ claims' = [claims EXCEPT ![key] = claimSeq + 1]
              /\ arms' = arms \cup
                   {[token |-> claimSeq + 1, binding |-> b, profile |-> p, recorded |-> {},
                     failed |-> FALSE, generation |-> generation, landing |-> FALSE,
                     void |-> FALSE]}
              /\ asked' = asked \cup {p}
              /\ UNCHANGED <<engineVars, sent>>
    /\ UNCHANGED <<storeVars, generation, prelude, active, pushing, reports>>

ArmWorks(a) ==
    /\ ~ a.landing
    /\ \E outcome \in Outcome :
         /\ RunPreludeJob(a.profile, outcome)
         /\ arms' = (arms \ {a}) \cup {[After(a, a.profile, outcome) EXCEPT !.landing = TRUE]}
    /\ UNCHANGED <<storeVars, generation, prelude, claims, claimSeq, pushing, engineVars,
                   reports, asked>>

\* Mutant: a landing releases the key whoever holds it.
ReleaseByKey(a) == claims' = [claims EXCEPT ![PreludeDedupKey(a.profile)] = 0]

\* The landing gives up the claim only if it is still its own.
ReleaseClaim(a) ==
    LET key == PreludeDedupKey(a.profile)
    IN  claims' = IF claims[key] = a.token THEN [claims EXCEPT ![key] = 0] ELSE claims

\* Mutant: the landing trusts the enabled flag the request saw.
TrustEnabled(a) == a.generation # generation \/ ~ AnyLive

\* Mutant: the landing looks only at whether something is live.
AnySession(a) == ~ AnyLive \/ a.binding \notin enabled

\* The session this arm was joining is over, or the binding was taken back.
Abandoned(a) ==
    \/ a.generation # generation
    \/ ~ AnyLive
    \/ a.binding \notin enabled

GiveUp(a) ==
    /\ sent' = sent \ a.recorded
    /\ active' = active \ {a.profile}

ArmLands(a) ==
    /\ a.landing
    /\ arms' = arms \ {a}
    /\ ReleaseClaim(a)
    /\ \/ /\ Abandoned(a)
          /\ GiveUp(a)
          /\ UNCHANGED engineVars
       \/ /\ ~ Abandoned(a) /\ a.failed
          /\ sent' = sent \ a.recorded
          /\ UNCHANGED <<active, engineVars>>
       \/ /\ ~ Abandoned(a) /\ ~ a.failed
          /\ \E up \in SUBSET ({a.binding} \ live) : StartOutputs({a.binding}, up)
          /\ UNCHANGED <<active, wentLive>>
    /\ UNCHANGED <<storeVars, generation, prelude, claimSeq, pushing, reports, asked>>

-----------------------------------------------------------------------------
(* The Go Live dialog.                                                     *)

\* streamMeta.set with goingLive, on a worker: the destination is prepared, and
\* recorded once the platform's answer has been read back.
StreamMetaSetPrepares(p) ==
    /\ Backed(p)
    /\ p \notin pushing
    /\ pushing' = pushing \cup {p}
    /\ active' = IF MetadataOnly(p) THEN active ELSE active \cup {p}
    /\ asked' = asked \cup {p}
    /\ UNCHANGED <<storeVars, generation, prelude, claims, claimSeq, arms, sent, engineVars,
                   reports>>

StreamMetaSetReturns(p) ==
    /\ p \in pushing
    /\ pushing' = pushing \ {p}
    /\ \E ok \in BOOLEAN : sent' = IF ok THEN sent \cup {p} ELSE sent
    /\ asked' = asked \cup {p}
    /\ UNCHANGED <<storeVars, generation, prelude, claims, claimSeq, arms, active, engineVars,
                   reports>>

\* streamMeta.forgetSent: the dialog gave up.
StreamMetaForgetSent(ps) ==
    /\ sent' = sent \ ps
    /\ UNCHANGED <<storeVars, generation, prelude, claims, claimSeq, arms, active, pushing,
                   engineVars, reports, asked>>

-----------------------------------------------------------------------------
(* The bindings.                                                           *)

ProfileEnabledElsewhere(b, p) == \E c \in enabled \ {b} : profile[c] = p

\* Mutant: a binding may be switched on while a prelude is in flight.
EnableAnyTime(b) ==
    /\ b \in present
    /\ ~ ProfileEnabledElsewhere(b, profile[b])
    /\ enabled' = enabled \cup {b}
    /\ UNCHANGED <<profile, present, generation, prelude, claims, claimSeq, arms, sent, active,
                   pushing, engineVars, reports, asked>>

\* outputBinding.setEnabled
EnableBinding(b) ==
    /\ b \in present
    /\ ~ GoLivePreludeInFlight
    /\ ~ ProfileEnabledElsewhere(b, profile[b])
    /\ enabled' = enabled \cup {b}
    /\ UNCHANGED <<profile, present, generation, prelude, claims, claimSeq, arms, sent, active,
                   pushing, engineVars, reports, asked>>

DisableBinding(b) ==
    /\ b \in present
    /\ enabled' = enabled \ {b}
    /\ StopOutput(b)
    /\ UNCHANGED <<profile, present, generation, prelude, claims, claimSeq, arms, sent, pushing,
                   wentLive, reports, asked>>

\* outputBinding.create: the new binding is enabled.
CreateBinding(b, p) ==
    /\ QuietPrelude => ~ GoLivePreludeInFlight
    /\ b \notin present
    /\ ~ ProfileEnabledElsewhere(b, p)
    /\ present' = present \cup {b}
    /\ enabled' = enabled \cup {b}
    /\ profile' = [profile EXCEPT ![b] = p]
    /\ UNCHANGED <<generation, prelude, claims, claimSeq, arms, sent, active, pushing, engineVars,
                   reports, asked>>

\* outputBinding.update to another profile: a live output stops and stays down.
RetargetBinding(b, p) ==
    /\ QuietPrelude => ~ GoLivePreludeInFlight
    /\ b \in present
    /\ p # profile[b]
    /\ b \in enabled => ~ ProfileEnabledElsewhere(b, p)
    /\ profile' = [profile EXCEPT ![b] = p]
    /\ IF b \in live THEN StopOutput(b) ELSE UNCHANGED <<held, live, active>>
    /\ UNCHANGED <<present, enabled, generation, prelude, claims, claimSeq, arms, sent, pushing,
                   wentLive, reports, asked>>

\* outputBinding.update to another canvas, of a live binding: it is stopped and
\* started again, and a session of its own ends and opens in between.
MoveBinding(b) ==
    /\ b \in live
    /\ active' = active \ {profile[b]}
    /\ \E up \in SUBSET {b} :
         /\ live' = (live \ {b}) \cup up
         /\ sent' = IF live = {b} /\ up = {b} THEN sent \ {profile[b]} ELSE sent
    /\ UNCHANGED <<storeVars, generation, prelude, claims, claimSeq, arms, pushing, held, wentLive,
                   reports, asked>>

\* outputBinding.remove
RemoveBinding(b) ==
    /\ b \in present
    /\ StopOutput(b)
    /\ present' = present \ {b}
    /\ enabled' = enabled \ {b}
    /\ UNCHANGED <<profile, generation, prelude, claims, claimSeq, arms, sent, pushing, wentLive,
                   reports, asked>>

\* multistream.stopOutput
StopOneOutput(b) ==
    /\ b \in held
    /\ StopOutput(b)
    /\ UNCHANGED <<storeVars, generation, prelude, claims, claimSeq, arms, sent, pushing, wentLive,
                   reports, asked>>

-----------------------------------------------------------------------------
(* The output threads.                                                     *)

\* OnOutputStart
OutputStarted(b) ==
    /\ b \in live \ wentLive
    /\ wentLive' = wentLive \cup {b}
    /\ UNCHANGED <<storeVars, generation, prelude, claims, claimSeq, arms, sent, active, pushing,
                   held, live, reports, asked>>

\* OnOutputStop of an output nobody stopped; it posts its report.
OutputEnds(b) ==
    /\ b \in live
    /\ live' = live \ {b}
    /\ reports' = reports \cup {b}
    /\ UNCHANGED <<storeVars, generation, prelude, claims, claimSeq, arms, sent, active, pushing,
                   held, wentLive, asked>>

\* The posted onOutputEnded: it finds the destination through the binding.
EndedReport(b) ==
    /\ b \in reports
    /\ reports' = reports \ {b}
    /\ active' = IF b \in present THEN active \ {profile[b]} ELSE active
    /\ UNCHANGED <<storeVars, generation, prelude, claims, claimSeq, arms, sent, pushing,
                   engineVars, asked>>

-----------------------------------------------------------------------------
Bridge ==
    \/ StartStreamingAll \/ StopStreamingAll
    \/ \E b \in Binding :
         \/ ArmBindingLive(b) \/ StopOneOutput(b)
         \/ EnableBinding(b) \/ DisableBinding(b) \/ RemoveBinding(b) \/ MoveBinding(b)
         \/ \E p \in Carries[b] : CreateBinding(b, p) \/ RetargetBinding(b, p)
    \/ \E p \in Dialog : StreamMetaSetPrepares(p) \/ StreamMetaSetReturns(p)
    \/ \E ps \in SUBSET Dialog : StreamMetaForgetSent(ps)

Workers ==
    \/ PreludeWorks \/ PreludeLands
    \/ \E a \in arms : ArmWorks(a) \/ ArmLands(a)

Outputs == \E b \in Binding : OutputStarted(b) \/ OutputEnds(b) \/ EndedReport(b)

Next == Bridge \/ Workers \/ Outputs

Spec == Init /\ [][Next]_vars

-----------------------------------------------------------------------------
(* Properties.                                                             *)

\* A stop is never overtaken by what it was meant to cancel: a go-live or an
\* arm asked for before it puts no output on the wire after it.
StopWins ==
    [][/\ GoLivePreludeInFlight /\ prelude.void /\ prelude' = Idle => live' \subseteq live
       /\ \A a \in arms : a.void /\ a \notin arms' => live' \subseteq live]_vars

\* At most one arm that a stop has not cancelled is preparing a channel, or a
\* destination with a broadcast of its own.
OneArmPerChannel ==
    \A a, c \in arms :
        /\ ~ a.void /\ ~ c.void
        /\ PreludeDedupKey(a.profile) = PreludeDedupKey(c.profile)
        => a = c

\* No output is on the wire for a binding that is switched off or removed: it
\* would be absent from Statuses and out of the user's reach.
LiveIsEnabled == live \subseteq enabled

\* Once what a stop cancelled has landed, every record of sent metadata and every
\* active broadcast belongs to a destination somebody asked for since.
StopLeavesNothing ==
    /\ GoLivePreludeInFlight => ~ prelude.void
    /\ \A a \in arms : ~ a.void
    => sent \cup active \subseteq asked

\* The outputs a prelude's landing starts are those of destinations it looked
\* at when it was collected.
PreparedStart ==
    [][GoLivePreludeInFlight /\ prelude' = Idle =>
         \A b \in live' \ live : Backed(profile[b]) => profile[b] \in prelude.covered]_vars

\* A live output of a platform with a broadcast per go-live has the broadcast it
\* was started for among the provider's active ones.
LiveHasBroadcast ==
    \A b \in live : Backed(profile[b]) /\ ~ MetadataOnly(profile[b]) => profile[b] \in active
=============================================================================
