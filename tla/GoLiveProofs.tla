---------------------------- MODULE GoLiveProofs ----------------------------
(* For every set of bindings, profiles and accounts: a stop is not overtaken  *)
(* by what it cancelled and leaves nothing behind, a channel has at most one  *)
(* arm at work, nothing is on the wire that is not enabled, and a go-live     *)
(* starts only what it has looked at.                                         *)
EXTENDS GoLive, TLAPS

Typed ==
    /\ profile \in [Binding -> Profile] /\ enabled \subseteq Binding
    /\ generation \in Nat /\ claimSeq \in Nat
    /\ claims \in [Key -> Nat]
    /\ arms \subseteq Arm
    /\ prelude \in {Idle} \cup Prelude

\* A request knows by its generation that a stop has cancelled it.
Cancellable(r) ==
    /\ r.generation <= generation
    /\ r.void => r.generation < generation

Fenced ==
    /\ GoLivePreludeInFlight => Cancellable(prelude)
    /\ \A a \in arms : Cancellable(a)

\* An arm that was not cancelled holds the claim of its key, and a token is
\* never given out twice.
Claimed ==
    /\ \A a \in arms : a.token \in 1..claimSeq
    /\ \A a, c \in arms : a.token = c.token => a = c
    /\ \A a \in arms : ~ a.void => claims[PreludeDedupKey(a.profile)] = a.token

IInv == Typed /\ Fenced /\ Claimed /\ LiveIsEnabled

LEMMA KeyType ==
    ASSUME NEW p \in Profile
    PROVE  PreludeDedupKey(p) \in Key
BY AccountAssumption, PersistentAssumption
   DEF PreludeDedupKey, MetadataOnly, Key

LEMMA InitInv == Init => IInv
BY DEF Init, IInv, Typed, Fenced, Claimed, LiveIsEnabled, GoLivePreludeInFlight

\* What an action that starts, stops and renames nothing of ours preserves.
LEMMA Unchanged ==
    ASSUME IInv, UNCHANGED <<generation, prelude, claims, claimSeq, arms>>,
           profile' \in [Binding -> Profile], enabled' \subseteq Binding,
           live' \subseteq enabled'
    PROVE  IInv'
BY DEF IInv, Typed, Fenced, Claimed, LiveIsEnabled, GoLivePreludeInFlight,
       Cancellable

\* The actions on bindings, outputs and the dialog are such actions.
LEMMA QuietSteps ==
    ASSUME IInv,
           \/ \E b \in Binding :
                \/ StopOneOutput(b) \/ EnableBinding(b) \/ DisableBinding(b)
                \/ RemoveBinding(b) \/ MoveBinding(b)
                \/ \E p \in Carries[b] : CreateBinding(b, p) \/ RetargetBinding(b, p)
           \/ \E p \in Dialog : StreamMetaSetPrepares(p) \/ StreamMetaSetReturns(p)
           \/ \E ps \in SUBSET Dialog : StreamMetaForgetSent(ps)
           \/ Outputs
    PROVE  IInv'
<1> USE DEF StopOutput, engineVars, storeVars
<1>1. profile \in [Binding -> Profile] /\ enabled \subseteq Binding /\ live \subseteq enabled
  BY Zenon DEF IInv, Typed, LiveIsEnabled
<1>2. ASSUME NEW b \in Binding,
             StopOneOutput(b) \/ EnableBinding(b) \/ DisableBinding(b) \/ RemoveBinding(b)
               \/ MoveBinding(b)
      PROVE  IInv'
  BY <1>1, <1>2, Unchanged
     DEF StopOneOutput, EnableBinding, DisableBinding, RemoveBinding,
         MoveBinding
<1>3. ASSUME NEW b \in Binding, NEW p \in Carries[b], CreateBinding(b, p) \/ RetargetBinding(b, p)
      PROVE  IInv'
  <2>1. p \in Profile
    BY CarriesAssumption
  <2> QED
    BY <1>1, <1>3, <2>1, Unchanged DEF CreateBinding, RetargetBinding
<1>4. ASSUME NEW p \in Dialog, StreamMetaSetPrepares(p) \/ StreamMetaSetReturns(p)
      PROVE  IInv'
  BY <1>1, <1>4, Unchanged DEF StreamMetaSetPrepares, StreamMetaSetReturns
<1>5. ASSUME NEW ps \in SUBSET Dialog, StreamMetaForgetSent(ps)
      PROVE  IInv'
  BY <1>1, <1>5, Unchanged DEF StreamMetaForgetSent
<1>6. ASSUME Outputs
      PROVE  IInv'
  BY <1>1, <1>6, Unchanged DEF Outputs, OutputStarted, OutputEnds, EndedReport
<1> QED
  BY <1>2, <1>3, <1>4, <1>5, <1>6

\* Every job is for a destination that is enabled.
LEMMA CollectedJobs ==
    ASSUME profile \in [Binding -> Profile], enabled \subseteq Binding
    PROVE  /\ Collected \in Jobs
           /\ \A at \in DOMAIN Collected : Collected[at] \in {profile[b] : b \in enabled}
<1> DEFINE wanting == {b \in enabled : NeedsJob(b, FALSE)}
           rivals(b) == {c \in wanting :
                           PreludeDedupKey(profile[c]) = PreludeDedupKey(profile[b])}
           firsts == {b \in wanting : b \in First(rivals(b))}
           Job(at) == profile[CHOOSE b \in firsts : Order[b] = at]
<1>1. Collected = [at \in {Order[b] : b \in firsts} |-> Job(at)]
  BY DEF Collected
<1>2. firsts \subseteq enabled
  BY Zenon
<1> HIDE DEF firsts
<1>3. \A at \in {Order[b] : b \in firsts} : Job(at) \in {profile[b] : b \in enabled}
  BY <1>2, Zenon
<1> HIDE DEF Job
<1>4. {Order[b] : b \in firsts} \subseteq {Order[b] : b \in Binding}
  BY <1>2
<1>5. {profile[b] : b \in enabled} \subseteq Profile
  OBVIOUS
<1>6. Collected \in [{Order[b] : b \in firsts} -> Profile]
  BY <1>1, <1>3, <1>5
<1> QED
  BY <1>1, <1>3, <1>4, <1>6, Zenon DEF Jobs

\* A go-live gets a generation nobody has had.
LEMMA StartStep ==
    ASSUME IInv, StartStreamingAll
    PROVE  IInv'
<1>1. CASE DOMAIN Collected = {}
  BY <1>1, Unchanged
     DEF StartStreamingAll, StartEnabledOutputsNow, StartOutputs, storeVars,
         IInv, Typed, LiveIsEnabled
<1>2. CASE DOMAIN Collected # {}
  <2>1. /\ generation' = generation + 1 /\ prelude = Idle /\ generation \in Nat
        /\ prelude' = [jobs |-> Collected, recorded |-> AlreadyRecorded, failed |-> FALSE,
                       generation |-> generation + 1, void |-> FALSE,
                       covered |-> {profile[b] : b \in enabled}]
        /\ UNCHANGED <<profile, enabled, live, claims, claimSeq, arms>>
    BY <1>2, Zenon
       DEF StartStreamingAll, storeVars, engineVars, GoLivePreludeInFlight,
           IInv, Typed
  <2>2. Collected \in Jobs /\ AlreadyRecorded \subseteq Profile
          /\ {profile[b] : b \in enabled} \subseteq Profile
    BY CollectedJobs DEF IInv, Typed, AlreadyRecorded
  <2>3. prelude' \in Prelude /\ prelude'.generation = generation + 1 /\ prelude'.void = FALSE
    BY <2>1, <2>2 DEF Prelude
  <2>4. Typed'
    BY <2>1, <2>3 DEF IInv, Typed
  <2>5. Fenced'
    <3>1. \A a \in arms : a.generation \in Nat
      BY DEF IInv, Typed, Arm
    <3> QED
      BY <2>1, <2>3, <3>1
         DEF IInv, Typed, Fenced, Cancellable, GoLivePreludeInFlight
  <2>6. Claimed' /\ LiveIsEnabled'
    BY <2>1 DEF IInv, Claimed, LiveIsEnabled
  <2> QED
    BY <2>4, <2>5, <2>6 DEF IInv
<1> QED
  BY <1>1, <1>2, Zenon

\* The prelude once its worker has done the job at a position.
LEMMA WorkedPrelude ==
    ASSUME NEW r \in Prelude, NEW at \in DOMAIN r.jobs, NEW outcome \in Outcome
    PROVE  LET next == [After(r, r.jobs[at], outcome) EXCEPT
                          !.jobs = Restrict(@, DOMAIN @ \ {at})]
           IN  /\ next \in Prelude
               /\ next.generation = r.generation /\ next.void = r.void
               /\ next.covered = r.covered
               /\ next.recorded = IF outcome \in {"unsafe", "ready"} /\ MetadataOnly(r.jobs[at])
                                  THEN r.recorded \cup {r.jobs[at]} ELSE r.recorded
               /\ \A i \in DOMAIN next.jobs :
                     i \in DOMAIN r.jobs /\ next.jobs[i] = r.jobs[i]
<1> DEFINE done == After(r, r.jobs[at], outcome)
           left == Restrict(r.jobs, DOMAIN r.jobs \ {at})
           next == [done EXCEPT !.jobs = Restrict(@, DOMAIN @ \ {at})]
<1>1. r.jobs[at] \in Profile /\ left \in Jobs
  <2>1. PICK at1 \in SUBSET {Order[b] : b \in Binding} : r.jobs \in [at1 -> Profile]
    BY DEF Prelude, Jobs
  <2>2. left \in [at1 \ {at} -> Profile]
    BY <2>1 DEF Restrict
  <2> QED
    BY <2>1, <2>2 DEF Jobs
<1>2. /\ done \in Prelude /\ done.jobs = r.jobs
      /\ done.generation = r.generation /\ done.void = r.void /\ done.covered = r.covered
      /\ done.recorded = IF outcome \in {"unsafe", "ready"} /\ MetadataOnly(r.jobs[at])
                         THEN r.recorded \cup {r.jobs[at]} ELSE r.recorded
  BY <1>1, Zenon DEF Prelude, After
<1> HIDE DEF done
<1>3. next = [done EXCEPT !.jobs = left]
  BY <1>2
<1>4. \A i \in DOMAIN left : i \in DOMAIN r.jobs /\ left[i] = r.jobs[i]
  BY DEF Restrict
<1> HIDE DEF left
<1>5. /\ next \in Prelude /\ next.jobs = left
      /\ next.generation = done.generation /\ next.void = done.void
      /\ next.covered = done.covered /\ next.recorded = done.recorded
  BY <1>1, <1>2, <1>3 DEF Prelude
<1> HIDE DEF next
<1>6. /\ next \in Prelude
      /\ next.generation = r.generation /\ next.void = r.void
      /\ next.covered = r.covered
      /\ next.recorded = IF outcome \in {"unsafe", "ready"} /\ MetadataOnly(r.jobs[at])
                         THEN r.recorded \cup {r.jobs[at]} ELSE r.recorded
      /\ \A i \in DOMAIN next.jobs :
            i \in DOMAIN r.jobs /\ next.jobs[i] = r.jobs[i]
  BY <1>2, <1>4, <1>5
<1> QED
  BY <1>6 DEF next, done

\* The prelude's worker and its landing keep its generation.
LEMMA PreludeStep ==
    ASSUME IInv, PreludeWorks \/ PreludeLands
    PROVE  IInv'
<1>1. CASE PreludeWorks
  <2>1. /\ prelude # Idle /\ prelude \in Prelude
        /\ UNCHANGED <<profile, enabled, live, generation, claims, claimSeq, arms>>
    BY <1>1
       DEF PreludeWorks, IInv, Typed, GoLivePreludeInFlight, storeVars,
           engineVars
  <2>2. PICK at \in DOMAIN prelude.jobs, outcome \in Outcome :
          prelude' = [After(prelude, prelude.jobs[at], outcome) EXCEPT
                        !.jobs = Restrict(@, DOMAIN @ \ {at})]
    BY <1>1, Zenon DEF PreludeWorks
  <2>3. /\ prelude' \in Prelude /\ prelude'.generation = prelude.generation
        /\ prelude'.void = prelude.void
    BY <2>1, <2>2, WorkedPrelude, Zenon
  <2> QED
    BY <2>1, <2>3
       DEF IInv, Typed, Fenced, Claimed, LiveIsEnabled, GoLivePreludeInFlight,
           Cancellable
<1>2. CASE PreludeLands
  <2>1. /\ prelude' = Idle /\ UNCHANGED <<profile, enabled, generation, claims, claimSeq, arms>>
        /\ live' \subseteq enabled'
    BY <1>2
       DEF PreludeLands, StartEnabledOutputsNow, StartOutputs, storeVars,
           engineVars, IInv, LiveIsEnabled
  <2> QED
    BY <2>1
       DEF IInv, Typed, Fenced, Claimed, LiveIsEnabled, GoLivePreludeInFlight,
           Cancellable
<1> QED
  BY <1>1, <1>2

\* A stop moves the generation past that of everything in flight.
LEMMA StopStep ==
    ASSUME IInv, StopStreamingAll
    PROVE  IInv'
<1>1. /\ generation' = generation + 1 /\ generation \in Nat
      /\ claims' = [k \in Key |-> 0] /\ live' = {}
      /\ UNCHANGED <<profile, enabled, claimSeq>>
      /\ arms' = {[a EXCEPT !.void = TRUE] : a \in arms}
      /\ arms \subseteq Arm
  BY DEF StopStreamingAll, storeVars, IInv, Typed
<1>2. \A c \in arms' : \E a \in arms :
        /\ c = [a EXCEPT !.void = TRUE] /\ c \in Arm
        /\ c.generation = a.generation /\ c.token = a.token /\ c.void = TRUE
  BY <1>1, Zenon DEF Arm
<1>3. prelude' # Idle => prelude' \in Prelude /\ Cancellable(prelude)
                          /\ prelude'.generation = prelude.generation
  <2>1. CASE prelude = Idle
    BY <2>1 DEF StopStreamingAll, GoLivePreludeInFlight
  <2>2. CASE prelude # Idle
    <3>1. prelude \in Prelude /\ Cancellable(prelude)
      BY <2>2 DEF IInv, Typed, Fenced, GoLivePreludeInFlight
    <3>2. prelude' = [prelude EXCEPT !.void = TRUE]
      BY <2>2 DEF StopStreamingAll, GoLivePreludeInFlight
    <3> QED
      BY <3>1, <3>2, Zenon DEF Prelude
  <2> QED
    BY <2>1, <2>2
<1>4. Typed'
  BY <1>1, <1>2, <1>3 DEF IInv, Typed, GoLivePreludeInFlight
<1>5. Fenced'
  <2>1. ASSUME NEW c \in arms'
        PROVE  Cancellable(c)'
    <3>1. PICK a \in arms : c.generation = a.generation /\ c.void = TRUE
      BY <1>2
    <3>2. a.generation \in Nat /\ a.generation <= generation
      BY <1>1 DEF IInv, Fenced, Cancellable, Arm
    <3> QED
      BY <1>1, <3>1, <3>2 DEF Cancellable
  <2>2. prelude' # Idle => Cancellable(prelude)'
    BY <1>1, <1>3 DEF Cancellable, Prelude
  <2> QED
    BY <2>1, <2>2 DEF Fenced, GoLivePreludeInFlight
<1>6. Claimed'
  <2>1. \A a \in arms : a.token \in 1..claimSeq
    BY DEF IInv, Claimed
  <2>2. \A a, c \in arms : a.token = c.token => a = c
    BY DEF IInv, Claimed
  <2>3. \A c \in arms' : c.token \in 1..claimSeq' /\ c.void = TRUE
    BY <1>1, <1>2, <2>1
  <2>4. ASSUME NEW c \in arms', NEW d \in arms', c.token = d.token
        PROVE  c = d
    <3>1. PICK a \in arms : c = [a EXCEPT !.void = TRUE] /\ c.token = a.token
      BY <1>2
    <3>2. PICK e \in arms : d = [e EXCEPT !.void = TRUE] /\ d.token = e.token
      BY <1>2
    <3>3. a = e
      BY <2>2, <2>4, <3>1, <3>2
    <3> QED
      BY <3>1, <3>2, <3>3
  <2> QED
    BY <2>3, <2>4 DEF Claimed
<1> QED
  BY <1>1, <1>4, <1>5, <1>6 DEF IInv, LiveIsEnabled

\* An arm takes a token nobody has had, and a claim nobody holds.
LEMMA ArmStep ==
    ASSUME IInv, NEW b \in Binding, ArmBindingLive(b)
    PROVE  IInv'
<1>1. b \in enabled /\ profile[b] \in Profile /\ generation \in Nat /\ claimSeq \in Nat
  BY DEF ArmBindingLive, IInv, Typed
<1>2. CASE ~ NeedsJob(b, b \in wentLive)
  BY <1>1, <1>2, Unchanged
     DEF ArmBindingLive, StartOutputs, storeVars, engineVars, IInv, Typed,
         LiveIsEnabled
<1>3. CASE NeedsJob(b, b \in wentLive)
  <2> DEFINE p == profile[b]
             key == PreludeDedupKey(p)
             new == [token |-> claimSeq + 1, binding |-> b, profile |-> p, recorded |-> {},
                     failed |-> FALSE, generation |-> generation, landing |-> FALSE,
                     void |-> FALSE]
  <2>1. /\ claims[key] = 0 /\ claimSeq' = claimSeq + 1
        /\ claims' = [claims EXCEPT ![key] = claimSeq + 1]
        /\ arms' = arms \cup {new}
        /\ UNCHANGED <<profile, enabled, live, generation, prelude>>
    BY <1>3, Zenon DEF ArmBindingLive, storeVars, engineVars
  <2>2. key \in Key
    BY <1>1, KeyType
  <2>3. new \in Arm
    BY <1>1 DEF Arm
  <2>4. Typed'
    <3> HIDE DEF new, key
    <3>1. arms' \subseteq Arm
      BY <2>1, <2>3 DEF IInv, Typed
    <3>2. claims' \in [Key -> Nat] /\ claimSeq' \in Nat
      BY <1>1, <2>1, <2>2 DEF IInv, Typed
    <3>3. prelude' \in {Idle} \cup Prelude
      BY <2>1 DEF IInv, Typed, GoLivePreludeInFlight
    <3> QED
      BY <2>1, <3>1, <3>2, <3>3 DEF IInv, Typed, GoLivePreludeInFlight
  <2>5. Fenced'
    <3>1. Cancellable(new)
      BY <1>1 DEF Cancellable
    <3> HIDE DEF new
    <3> QED
      BY <2>1, <3>1 DEF IInv, Fenced, GoLivePreludeInFlight, Cancellable
  <2>6. Claimed'
    <3>1. new.token = claimSeq + 1 /\ new.profile = p
      OBVIOUS
    <3>2. \A a \in arms : a.token \in 1..claimSeq /\ a.profile \in Profile
      BY DEF IInv, Typed, Claimed, Arm
    <3>3. \A a \in arms : ~ a.void => PreludeDedupKey(a.profile) # key
      BY <2>1, <3>2 DEF IInv, Claimed
    <3> HIDE DEF new, key, p
    <3>4. \A a \in arms : ~ a.void => claims'[PreludeDedupKey(a.profile)] = a.token
      BY <2>1, <2>2, <3>2, <3>3, KeyType DEF IInv, Claimed, Typed
    <3>5. claims'[key] = claimSeq + 1
      BY <2>1, <2>2 DEF IInv, Typed
    <3>6. key = PreludeDedupKey(new.profile)
      BY <3>1 DEF key
    <3> QED
      BY <1>1, <2>1, <3>1, <3>2, <3>4, <3>5, <3>6 DEF IInv, Claimed
  <2> QED
    BY <2>1, <2>4, <2>5, <2>6 DEF IInv, LiveIsEnabled
<1> QED
  BY <1>2, <1>3

\* An arm's worker changes neither its token nor what it claimed.
LEMMA ArmWorksStep ==
    ASSUME IInv, NEW a \in arms, ArmWorks(a)
    PROVE  IInv'
<1>1. PICK outcome \in Outcome :
        arms' = (arms \ {a}) \cup {[After(a, a.profile, outcome) EXCEPT !.landing = TRUE]}
  BY DEF ArmWorks
<1> DEFINE new == [After(a, a.profile, outcome) EXCEPT !.landing = TRUE]
<1>2. UNCHANGED <<profile, enabled, live, generation, prelude, claims, claimSeq>>
  BY DEF ArmWorks, storeVars, engineVars
<1>3. a \in Arm
  BY DEF IInv, Typed
<1>4. /\ new \in Arm
      /\ new.token = a.token /\ new.profile = a.profile
      /\ new.generation = a.generation /\ new.void = a.void
  BY <1>3, Zenon DEF Arm, After
<1>5. arms' = (arms \ {a}) \cup {new}
  BY <1>1
<1> HIDE DEF new
<1>6. Typed'
  BY <1>2, <1>4, <1>5 DEF IInv, Typed, GoLivePreludeInFlight
<1>7. Fenced'
  BY <1>2, <1>4, <1>5 DEF IInv, Fenced, Cancellable, GoLivePreludeInFlight
<1>8. Claimed'
  BY <1>2, <1>4, <1>5 DEF IInv, Claimed
<1> QED
  BY <1>2, <1>6, <1>7, <1>8 DEF IInv, LiveIsEnabled

\* A landing releases no claim but its own, and starts only what is enabled.
LEMMA ArmLandsStep ==
    ASSUME IInv, NEW a \in arms, ArmLands(a)
    PROVE  IInv'
<1> DEFINE key == PreludeDedupKey(a.profile)
<1>1. /\ arms' = arms \ {a}
      /\ claims' = IF claims[key] = a.token THEN [claims EXCEPT ![key] = 0] ELSE claims
      /\ UNCHANGED <<profile, enabled, generation, prelude, claimSeq>>
  BY DEF ArmLands, ReleaseClaim, storeVars
<1>2. \A c \in arms : c.profile \in Profile
  BY DEF IInv, Typed, Arm
<1>3. key \in Key
  BY <1>2, KeyType, Zenon
<1>4. live' \subseteq enabled'
  BY DEF ArmLands, Abandoned, StartOutputs, storeVars, engineVars, IInv,
         LiveIsEnabled
<1>5. Typed'
  <2> HIDE DEF key
  <2> QED
    BY <1>1, <1>3 DEF IInv, Typed, GoLivePreludeInFlight
<1>6. Fenced'
  BY <1>1 DEF IInv, Fenced, Cancellable, GoLivePreludeInFlight
<1>7. Claimed'
  <2>1. ASSUME NEW c \in arms', ~ c.void
        PROVE  claims'[PreludeDedupKey(c.profile)] = c.token
    <3>1. c \in arms /\ c # a /\ c.token # a.token
      BY <1>1 DEF IInv, Claimed
    <3>2. claims[PreludeDedupKey(c.profile)] = c.token
      BY <2>1, <3>1 DEF IInv, Claimed
    <3>3. PreludeDedupKey(c.profile) \in Key
      BY <1>2, <3>1, KeyType
    <3> HIDE DEF key
    <3> QED
      BY <1>1, <1>3, <3>1, <3>2, <3>3 DEF IInv, Typed
  <2> QED
    BY <1>1, <2>1 DEF IInv, Claimed
<1> QED
  BY <1>4, <1>5, <1>6, <1>7 DEF IInv, LiveIsEnabled

\* Every step keeps the inductive invariant.
LEMMA NextInv == IInv /\ [Next]_vars => IInv'
<1> SUFFICES ASSUME IInv, [Next]_vars
             PROVE  IInv'
  OBVIOUS
<1>1. CASE Bridge
  BY <1>1, StartStep, StopStep, ArmStep, QuietSteps DEF Bridge
<1>2. CASE Workers
  BY <1>2, PreludeStep, ArmWorksStep, ArmLandsStep DEF Workers
<1>3. CASE Outputs
  BY <1>3, QuietSteps
<1>4. CASE UNCHANGED vars
  BY <1>4, Unchanged
     DEF vars, storeVars, engineVars, IInv, Typed, LiveIsEnabled
<1> QED
  BY <1>1, <1>2, <1>3, <1>4 DEF Next

\* The strengthening of the invariants below: the generation a request took
\* tells whether a stop came after it, and the claim of a key is held by the
\* one arm at work on it.
THEOREM Invariance == Spec => []IInv
BY InitInv, NextInv, PTL DEF Spec

\* However many destinations share a channel, and whatever is stopped, disarmed
\* and armed again meanwhile, at most one uncancelled arm prepares a channel.
THEOREM ArmsExclude == Spec => []OneArmPerChannel
<1>1. IInv => OneArmPerChannel
  BY DEF IInv, Claimed, OneArmPerChannel
<1> QED
  BY <1>1, Invariance, PTL

\* No landing, move or start puts an output on the wire for a binding that has
\* been switched off or removed.
THEOREM LiveEnabled == Spec => []LiveIsEnabled
<1>1. IInv => LiveIsEnabled
  BY Zenon DEF IInv
<1> QED
  BY <1>1, Invariance, PTL

\* The steps in which an attempt can end: apart from the landings, an attempt
\* stays or nothing comes up.
LEMMA AttemptStays ==
    ASSUME Next, ~ PreludeLands, \A a \in arms : ~ ArmLands(a)
    PROVE  \/ live' \subseteq live
           \/ (GoLivePreludeInFlight => UNCHANGED prelude) /\ arms \subseteq arms'
<1> USE DEF StopOutput, engineVars, storeVars
<1>1. CASE StartStreamingAll
  BY <1>1 DEF StartStreamingAll
<1>2. CASE StopStreamingAll
  BY <1>2 DEF StopStreamingAll
<1>3. CASE PreludeWorks
  BY <1>3 DEF PreludeWorks
<1>4. ASSUME NEW a \in arms, ArmWorks(a)
      PROVE  live' \subseteq live
  BY <1>4 DEF ArmWorks
<1>5. ASSUME NEW b \in Binding, ArmBindingLive(b)
      PROVE  UNCHANGED prelude /\ arms \subseteq arms'
  BY <1>5, Zenon DEF ArmBindingLive
<1>6. ASSUME NEW b \in Binding,
             StopOneOutput(b) \/ EnableBinding(b) \/ DisableBinding(b) \/ RemoveBinding(b)
               \/ MoveBinding(b)
      PROVE  UNCHANGED prelude /\ arms \subseteq arms'
  BY <1>6, SMTT(30)
     DEF StopOneOutput, EnableBinding, DisableBinding, RemoveBinding,
         MoveBinding
<1>7. ASSUME NEW b \in Binding, NEW p \in Carries[b], CreateBinding(b, p) \/ RetargetBinding(b, p)
      PROVE  UNCHANGED prelude /\ arms \subseteq arms'
  BY <1>7 DEF CreateBinding, RetargetBinding
<1>8. ASSUME NEW p \in Dialog, StreamMetaSetPrepares(p) \/ StreamMetaSetReturns(p)
      PROVE  UNCHANGED prelude /\ arms \subseteq arms'
  BY <1>8 DEF StreamMetaSetPrepares, StreamMetaSetReturns
<1>9. ASSUME NEW ps \in SUBSET Dialog, StreamMetaForgetSent(ps)
      PROVE  UNCHANGED prelude /\ arms \subseteq arms'
  BY <1>9 DEF StreamMetaForgetSent
<1>10. CASE Outputs
  BY <1>10 DEF Outputs, OutputStarted, OutputEnds, EndedReport
<1> QED
  BY <1>1, <1>2, <1>3, <1>4, <1>5, <1>6, <1>7, <1>8, <1>9, <1>10
     DEF Next, Bridge, Workers

\* After a stop, nothing asked for before it comes up: a go-live's landing and
\* an arm's landing both see that the generation has moved on.
THEOREM StopIsFinal == Spec => StopWins
<1> DEFINE Step ==
      /\ GoLivePreludeInFlight /\ prelude.void /\ prelude' = Idle => live' \subseteq live
      /\ \A a \in arms : a.void /\ a \notin arms' => live' \subseteq live
<1>1. ASSUME IInv, [Next]_vars
      PROVE  [Step]_vars
  <2> USE DEF engineVars
  <2>1. CASE PreludeLands
    <3>1. arms' = arms
      BY <2>1 DEF PreludeLands
    <3>2. prelude.void => live' = live
      <4>1. prelude.void => Cancelled
        BY <1>1, <2>1
           DEF PreludeLands, IInv, Typed, Fenced, Cancellable, Prelude,
               Cancelled, GoLivePreludeInFlight
      <4> QED
        BY <2>1, <4>1 DEF PreludeLands
    <3> QED
      BY <3>1, <3>2
  <2>2. ASSUME NEW a \in arms, ArmLands(a)
        PROVE  Step
    <3>1. arms' = arms \ {a} /\ prelude' = prelude
      BY <2>2 DEF ArmLands
    <3>2. a.void => live' = live
      <4>1. a.void => Abandoned(a)
        BY <1>1 DEF IInv, Typed, Fenced, Cancellable, Abandoned, Arm
      <4> QED
        BY <2>2, <4>1 DEF ArmLands
    <3> QED
      BY <3>1, <3>2, SMTT(30) DEF GoLivePreludeInFlight
  <2>3. CASE Next /\ ~ PreludeLands /\ \A a \in arms : ~ ArmLands(a)
    BY <2>3, AttemptStays DEF GoLivePreludeInFlight
  <2>4. CASE UNCHANGED vars
    BY <2>4
  <2> QED
    BY <1>1, <2>1, <2>2, <2>3, <2>4
<1>2. [][Step]_vars <=> StopWins
  BY DEF StopWins
<1> QED
  BY <1>1, <1>2, Invariance, PTL DEF Spec

-----------------------------------------------------------------------------
(* What a stop leaves.                                                     *)

\* Cancelled requests that will take back the record of p, or its broadcast.
RecordOwed(p) ==
    \/ GoLivePreludeInFlight /\ prelude.void /\ p \in prelude.recorded
    \/ \E a \in arms : a.void /\ p \in a.recorded

BroadcastOwed(p) ==
    \/ GoLivePreludeInFlight /\ prelude.void
    \/ \E a \in arms : a.void /\ a.profile = p

\* What is recorded or active was asked for since the last stop or is owed by a
\* request that the stop cancelled, and a request it did not cancel works for
\* destinations that were asked for.
AskedInv ==
    /\ \A p \in sent : p \in asked \/ RecordOwed(p)
    /\ \A p \in active : p \in asked \/ BroadcastOwed(p)
    /\ GoLivePreludeInFlight /\ ~ prelude.void =>
         \A at \in DOMAIN prelude.jobs : prelude.jobs[at] \in asked
    /\ \A a \in arms : ~ a.void => a.profile \in asked


\* A step that adds only what somebody asks for.
LEMMA AskedKept ==
    ASSUME AskedInv, UNCHANGED <<prelude, arms>>, asked \subseteq asked',
           sent' \subseteq sent \cup asked', active' \subseteq active \cup asked'
    PROVE  AskedInv'
BY DEF AskedInv, RecordOwed, BroadcastOwed, GoLivePreludeInFlight

LEMMA QuietAsked ==
    ASSUME AskedInv,
           \/ \E b \in Binding :
                \/ StopOneOutput(b) \/ EnableBinding(b) \/ DisableBinding(b)
                \/ RemoveBinding(b) \/ MoveBinding(b)
                \/ \E p \in Carries[b] : CreateBinding(b, p) \/ RetargetBinding(b, p)
           \/ \E p \in Dialog : StreamMetaSetPrepares(p) \/ StreamMetaSetReturns(p)
           \/ \E ps \in SUBSET Dialog : StreamMetaForgetSent(ps)
           \/ Outputs
    PROVE  AskedInv'
<1> USE DEF StopOutput, engineVars, storeVars
<1>1. ASSUME NEW b \in Binding,
             StopOneOutput(b) \/ EnableBinding(b) \/ DisableBinding(b) \/ RemoveBinding(b)
               \/ MoveBinding(b)
      PROVE  AskedInv'
  BY <1>1, AskedKept, Zenon
     DEF StopOneOutput, EnableBinding, DisableBinding, RemoveBinding,
         MoveBinding
<1>2. ASSUME NEW b \in Binding, NEW p \in Carries[b], CreateBinding(b, p) \/ RetargetBinding(b, p)
      PROVE  AskedInv'
  BY <1>2, AskedKept, Zenon DEF CreateBinding, RetargetBinding
<1>3. ASSUME NEW p \in Dialog, StreamMetaSetPrepares(p) \/ StreamMetaSetReturns(p)
      PROVE  AskedInv'
  BY <1>3, AskedKept, Zenon DEF StreamMetaSetPrepares, StreamMetaSetReturns
<1>4. ASSUME NEW ps \in SUBSET Dialog, StreamMetaForgetSent(ps)
      PROVE  AskedInv'
  BY <1>4, AskedKept, Zenon DEF StreamMetaForgetSent
<1>5. ASSUME Outputs
      PROVE  AskedInv'
  BY <1>5, AskedKept DEF Outputs, OutputStarted, OutputEnds, EndedReport
<1> QED
  BY <1>1, <1>2, <1>3, <1>4, <1>5

LEMMA StartAsked ==
    ASSUME IInv, AskedInv, StartStreamingAll
    PROVE  AskedInv'
<1>1. CASE DOMAIN Collected = {}
  BY <1>1, AskedKept, Zenon
     DEF StartStreamingAll, StartEnabledOutputsNow, StartOutputs
<1>2. CASE DOMAIN Collected # {}
  <2>1. /\ prelude = Idle
        /\ prelude' = [jobs |-> Collected, recorded |-> AlreadyRecorded, failed |-> FALSE,
                       generation |-> generation + 1, void |-> FALSE,
                       covered |-> {profile[b] : b \in enabled}]
        /\ asked' = asked \cup {profile[b] : b \in enabled}
        /\ UNCHANGED <<arms, sent, active>>
    BY <1>2, Zenon DEF StartStreamingAll, GoLivePreludeInFlight
  <2>2. prelude'.jobs = Collected /\ prelude'.void = FALSE
    BY <2>1
  <2>3. \A at \in DOMAIN prelude'.jobs : prelude'.jobs[at] \in asked'
    BY <2>1, <2>2, CollectedJobs, Zenon DEF IInv, Typed
  <2> QED
    BY <2>1, <2>2, <2>3
       DEF AskedInv, RecordOwed, BroadcastOwed, GoLivePreludeInFlight
<1> QED
  BY <1>1, <1>2, SMTT(30)

\* A cancelled prelude owes what it goes on to record and to create.
LEMMA PreludeWorksAsked ==
    ASSUME IInv, AskedInv, PreludeWorks
    PROVE  AskedInv'
<1>1. prelude \in Prelude /\ GoLivePreludeInFlight /\ UNCHANGED <<arms, asked>>
  BY DEF PreludeWorks, IInv, Typed, GoLivePreludeInFlight
<1>2. PICK at \in DOMAIN prelude.jobs, outcome \in Outcome :
        /\ RunPreludeJob(prelude.jobs[at], outcome)
        /\ prelude' = [After(prelude, prelude.jobs[at], outcome) EXCEPT
                         !.jobs = Restrict(@, DOMAIN @ \ {at})]
  BY Zenon DEF PreludeWorks
<1> DEFINE p == prelude.jobs[at]
           recording == outcome \in {"unsafe", "ready"} /\ MetadataOnly(p)
<1>3. /\ prelude' \in Prelude /\ prelude'.void = prelude.void
      /\ prelude'.recorded = IF recording THEN prelude.recorded \cup {p} ELSE prelude.recorded
      /\ \A i \in DOMAIN prelude'.jobs :
            i \in DOMAIN prelude.jobs /\ prelude'.jobs[i] = prelude.jobs[i]
  <2>1. prelude' \in Prelude /\ prelude'.void = prelude.void
    BY <1>1, <1>2, WorkedPrelude, Zenon
  <2>2. prelude'.recorded = IF recording THEN prelude.recorded \cup {p} ELSE prelude.recorded
    BY <1>1, <1>2, WorkedPrelude, Zenon
  <2>3. \A i \in DOMAIN prelude'.jobs :
          i \in DOMAIN prelude.jobs /\ prelude'.jobs[i] = prelude.jobs[i]
    BY <1>1, <1>2, WorkedPrelude, ZenonT(30)
  <2> QED
    BY <2>1, <2>2, <2>3
<1>4. /\ sent' = IF recording THEN sent \cup {p} ELSE sent
      /\ active' \subseteq active \cup {p}
  BY <1>2 DEF RunPreludeJob
<1>5. ~ prelude.void => p \in asked
  BY <1>1, <1>2 DEF AskedInv
<1>6. prelude' # Idle
  BY <1>3, IdleAssumption
<1> HIDE DEF p, recording
<1> QED
  BY <1>1, <1>3, <1>4, <1>5, <1>6
     DEF AskedInv, RecordOwed, BroadcastOwed, GoLivePreludeInFlight

\* When a cancelled prelude lands it takes back what it owes.
LEMMA PreludeLandsAsked ==
    ASSUME IInv, AskedInv, PreludeLands
    PROVE  AskedInv'
<1>1. prelude' = Idle /\ prelude # Idle /\ UNCHANGED <<arms, asked>>
  BY DEF PreludeLands, GoLivePreludeInFlight
<1>2. prelude.void => Cancelled
  BY <1>1
     DEF IInv, Typed, Fenced, Cancellable, Prelude, Cancelled,
         GoLivePreludeInFlight
<1>3. CASE Cancelled
  <2>1. sent' = sent \ prelude.recorded /\ active' = {}
    BY <1>3 DEF PreludeLands, DropPrepared
  <2> QED
    BY <1>1, <2>1
       DEF AskedInv, RecordOwed, BroadcastOwed, GoLivePreludeInFlight
<1>4. CASE ~ Cancelled
  <2>1. sent' \subseteq sent /\ active' = active
    BY <1>4 DEF PreludeLands, StartEnabledOutputsNow, StartOutputs
  <2> QED
    BY <1>1, <1>2, <1>4, <2>1
       DEF AskedInv, RecordOwed, BroadcastOwed, GoLivePreludeInFlight
<1> QED
  BY <1>3, <1>4

\* A stop forgets everything, and cancels what may still add to it.
LEMMA StopAsked ==
    ASSUME IInv, StopStreamingAll
    PROVE  AskedInv'
<1>1. /\ sent' = {} /\ active' = {}
      /\ arms' = {[a EXCEPT !.void = TRUE] : a \in arms} /\ arms \subseteq Arm
      /\ prelude \in {Idle} \cup Prelude
      /\ prelude' = IF prelude # Idle THEN [prelude EXCEPT !.void = TRUE] ELSE Idle
  BY DEF StopStreamingAll, IInv, Typed, GoLivePreludeInFlight
<1>2. \A a \in arms' : a.void
  BY <1>1 DEF Arm
<1>3. prelude' # Idle => prelude'.void
  BY <1>1 DEF Prelude
<1> QED
  BY <1>1, <1>2, <1>3 DEF AskedInv, GoLivePreludeInFlight

LEMMA ArmAsked ==
    ASSUME AskedInv, NEW b \in Binding, ArmBindingLive(b)
    PROVE  AskedInv'
<1>1. CASE UNCHANGED <<arms, asked>>
  BY <1>1, AskedKept, SMTT(30) DEF ArmBindingLive, StartOutputs
<1>2. CASE ~ UNCHANGED <<arms, asked>>
  <2>1. /\ arms' = arms \cup
             {[token |-> claimSeq + 1, binding |-> b, profile |-> profile[b], recorded |-> {},
               failed |-> FALSE, generation |-> generation, landing |-> FALSE, void |-> FALSE]}
        /\ asked' = asked \cup {profile[b]}
        /\ UNCHANGED <<prelude, sent, active>>
    BY <1>2 DEF ArmBindingLive
  <2>2. \A a \in arms' : a \in arms \/ a.profile = profile[b]
    BY <2>1
  <2>3. arms \subseteq arms' /\ asked \subseteq asked' /\ profile[b] \in asked'
    BY <2>1, Zenon
  <2> QED
    BY <2>1, <2>2, <2>3, SMTT(30)
       DEF AskedInv, RecordOwed, BroadcastOwed, GoLivePreludeInFlight
<1> QED
  BY <1>1, <1>2

LEMMA ArmWorksAsked ==
    ASSUME IInv, AskedInv, NEW a \in arms, ArmWorks(a)
    PROVE  AskedInv'
<1>1. PICK outcome \in Outcome :
        /\ RunPreludeJob(a.profile, outcome)
        /\ arms' = (arms \ {a}) \cup {[After(a, a.profile, outcome) EXCEPT !.landing = TRUE]}
  BY DEF ArmWorks
<1> DEFINE new == [After(a, a.profile, outcome) EXCEPT !.landing = TRUE]
           p == a.profile
           recording == outcome \in {"unsafe", "ready"} /\ MetadataOnly(p)
<1>2. UNCHANGED <<prelude, asked>>
  BY DEF ArmWorks
<1>3. /\ new.profile = p /\ new.void = a.void
      /\ new.recorded = IF recording THEN a.recorded \cup {p} ELSE a.recorded
  BY DEF IInv, Typed, Arm, After
<1>4. /\ sent' = IF recording THEN sent \cup {p} ELSE sent
      /\ active' \subseteq active \cup {p}
  BY <1>1 DEF RunPreludeJob
<1>5. ~ a.void => p \in asked
  BY DEF AskedInv
<1>6. arms' = (arms \ {a}) \cup {new}
  BY <1>1
<1> HIDE DEF new, recording
<1>7. \A q : RecordOwed(q) => RecordOwed(q)'
  BY <1>2, <1>3, <1>6 DEF RecordOwed, GoLivePreludeInFlight
<1>8. \A q : BroadcastOwed(q) => BroadcastOwed(q)'
  BY <1>2, <1>3, <1>6 DEF BroadcastOwed, GoLivePreludeInFlight
<1>9. a.void => BroadcastOwed(p)' /\ (recording => RecordOwed(p)')
  BY <1>3, <1>6, Zenon DEF BroadcastOwed, RecordOwed
<1> HIDE DEF p
<1> QED
  BY <1>2, <1>3, <1>4, <1>5, <1>6, <1>7, <1>8, <1>9
     DEF AskedInv, GoLivePreludeInFlight

\* When a cancelled arm lands it takes back what it owes.
LEMMA ArmLandsAsked ==
    ASSUME IInv, AskedInv, NEW a \in arms, ArmLands(a)
    PROVE  AskedInv'
<1>1. arms' = arms \ {a} /\ UNCHANGED <<prelude, asked>>
  BY DEF ArmLands
<1>2. a.void => Abandoned(a)
  BY DEF IInv, Typed, Fenced, Cancellable, Abandoned, Arm
<1>3. CASE Abandoned(a)
  <2>1. sent' = sent \ a.recorded /\ active' = active \ {a.profile}
    BY <1>3, Zenon DEF ArmLands, GiveUp
  <2> QED
    BY <1>1, <2>1, SMTT(30)
       DEF AskedInv, RecordOwed, BroadcastOwed, GoLivePreludeInFlight
<1>4. CASE ~ Abandoned(a)
  <2>1. sent' \subseteq sent /\ active' = active
    BY <1>4 DEF ArmLands, StartOutputs
  <2> QED
    BY <1>1, <1>2, <1>4, <2>1, SMTT(30)
       DEF AskedInv, RecordOwed, BroadcastOwed, GoLivePreludeInFlight
<1> QED
  BY <1>3, <1>4, SMTT(30)

LEMMA NextAsked == IInv /\ AskedInv /\ [Next]_vars => AskedInv'
<1> SUFFICES ASSUME IInv, AskedInv, [Next]_vars
             PROVE  AskedInv'
  BY Zenon
<1>1. CASE Bridge
  BY <1>1, StartAsked, StopAsked, ArmAsked, QuietAsked DEF Bridge
<1>2. CASE Workers
  BY <1>2, PreludeWorksAsked, PreludeLandsAsked, ArmWorksAsked, ArmLandsAsked, Zenon
     DEF Workers
<1>3. CASE Outputs
  BY <1>3, QuietAsked
<1>4. CASE UNCHANGED vars
  BY <1>4, AskedKept DEF vars
<1> QED
  BY <1>1, <1>2, <1>3, <1>4 DEF Next

\* Whatever was being prepared when a stop came, and however often the user
\* goes live and stops again meanwhile: once the cancelled preludes and arms
\* have landed, no sent record and no active broadcast is left that nobody
\* asked for since.
THEOREM StopIsClean == Spec => []StopLeavesNothing
<1>1. Init => AskedInv
  BY DEF Init, AskedInv, GoLivePreludeInFlight
<1>2. AskedInv => StopLeavesNothing
  BY DEF AskedInv, StopLeavesNothing, RecordOwed, BroadcastOwed
<1> QED
  BY <1>1, <1>2, NextAsked, Invariance, PTL DEF Spec

-----------------------------------------------------------------------------
(* What a prelude's landing starts.                                        *)

\* A prelude has looked at the destination of every binding that is enabled.
CoveredInv ==
    GoLivePreludeInFlight => \A b \in enabled : profile[b] \in prelude.covered

LEMMA CoveredKept ==
    ASSUME CoveredInv, UNCHANGED <<profile, prelude>>, enabled' \subseteq enabled
    PROVE  CoveredInv'
BY SMTT(30) DEF CoveredInv, GoLivePreludeInFlight

LEMMA NextCovered ==
    ASSUME QuietPrelude, IInv, CoveredInv, [Next]_vars
    PROVE  CoveredInv'
<1> USE DEF StopOutput, engineVars, storeVars
<1>1. CASE StartStreamingAll
  <2>1. CASE DOMAIN Collected = {}
    BY <1>1, <2>1, CoveredKept, SMTT(30) DEF StartStreamingAll
  <2>2. CASE DOMAIN Collected # {}
    <3>1. /\ prelude' = [jobs |-> Collected, recorded |-> AlreadyRecorded, failed |-> FALSE,
                         generation |-> generation + 1, void |-> FALSE,
                         covered |-> {profile[b] : b \in enabled}]
          /\ UNCHANGED <<profile, enabled>>
      BY <1>1, <2>2, Zenon DEF StartStreamingAll
    <3> QED
      BY <3>1 DEF CoveredInv
  <2> QED
    BY <2>1, <2>2, SMTT(30)
<1>2. CASE StopStreamingAll
  <2>1. CASE prelude = Idle
    BY <1>2, <2>1 DEF StopStreamingAll, CoveredInv, GoLivePreludeInFlight
  <2>2. CASE prelude # Idle
    <3>1. prelude \in Prelude /\ prelude' = [prelude EXCEPT !.void = TRUE]
          /\ UNCHANGED <<profile, enabled>>
      BY <1>2, <2>2 DEF StopStreamingAll, IInv, Typed, GoLivePreludeInFlight
    <3>2. prelude'.covered = prelude.covered
      BY <3>1 DEF Prelude
    <3> QED
      BY <2>2, <3>1, <3>2 DEF CoveredInv, GoLivePreludeInFlight
  <2> QED
    BY <2>1, <2>2
<1>3. CASE PreludeWorks
  <2>1. prelude # Idle /\ prelude \in Prelude /\ UNCHANGED <<profile, enabled>>
    BY <1>3 DEF PreludeWorks, IInv, Typed, GoLivePreludeInFlight
  <2>2. PICK at \in DOMAIN prelude.jobs, outcome \in Outcome :
          prelude' = [After(prelude, prelude.jobs[at], outcome) EXCEPT
                        !.jobs = Restrict(@, DOMAIN @ \ {at})]
    BY <1>3, Zenon DEF PreludeWorks
  <2>3. prelude'.covered = prelude.covered
    BY <2>1, <2>2, WorkedPrelude, Zenon
  <2> QED
    BY <2>1, <2>3 DEF CoveredInv, GoLivePreludeInFlight
<1>4. CASE PreludeLands
  BY <1>4 DEF PreludeLands, CoveredInv, GoLivePreludeInFlight
<1>5. ASSUME NEW a \in arms, ArmWorks(a) \/ ArmLands(a)
      PROVE  CoveredInv'
  BY <1>5, CoveredKept DEF ArmWorks, ArmLands
<1>6. ASSUME NEW b \in Binding,
             ArmBindingLive(b) \/ StopOneOutput(b) \/ DisableBinding(b) \/ RemoveBinding(b)
               \/ MoveBinding(b)
      PROVE  CoveredInv'
  BY <1>6, CoveredKept, Zenon
     DEF ArmBindingLive, StopOneOutput, DisableBinding, RemoveBinding,
         MoveBinding
<1>7. ASSUME NEW b \in Binding, NEW p \in Carries[b],
             CreateBinding(b, p) \/ RetargetBinding(b, p)
      PROVE  CoveredInv'
  BY <1>7, SMTT(30) DEF CreateBinding, RetargetBinding, CoveredInv, GoLivePreludeInFlight
<1>8. ASSUME NEW b \in Binding, EnableBinding(b)
      PROVE  CoveredInv'
  BY <1>8 DEF EnableBinding, CoveredInv, GoLivePreludeInFlight
<1>9. ASSUME NEW p \in Dialog, StreamMetaSetPrepares(p) \/ StreamMetaSetReturns(p)
      PROVE  CoveredInv'
  BY <1>9, CoveredKept DEF StreamMetaSetPrepares, StreamMetaSetReturns
<1>10. ASSUME NEW ps \in SUBSET Dialog, StreamMetaForgetSent(ps)
       PROVE  CoveredInv'
  BY <1>10, CoveredKept, Zenon DEF StreamMetaForgetSent
<1>11. CASE Outputs
  BY <1>11, CoveredKept DEF Outputs, OutputStarted, OutputEnds, EndedReport
<1>12. CASE UNCHANGED vars
  BY <1>12, CoveredKept DEF vars
<1> QED
  BY <1>1, <1>2, <1>3, <1>4, <1>5, <1>6, <1>7, <1>8, <1>9, <1>10, <1>11, <1>12
     DEF Next, Bridge, Workers

\* A step that ends a prelude and brings an output up is the prelude's landing.
LEMMA PreludeEnds ==
    ASSUME Next, prelude # Idle, prelude' = Idle, ~ (live' \subseteq live)
    PROVE  PreludeLands
<1>1. ASSUME NEW a \in arms, ArmLands(a)
      PROVE  UNCHANGED prelude
  BY <1>1 DEF ArmLands
<1> QED
  BY <1>1, AttemptStays, SMTT(30) DEF GoLivePreludeInFlight

\* With the bindings left alone while a prelude is in flight, the outputs its
\* landing starts are those of destinations it looked at when it was collected:
\* switching a binding off and on again meanwhile slips none past it.
THEOREM StartIsPrepared ==
    ASSUME QuietPrelude
    PROVE  Spec => PreparedStart
<1> DEFINE Step ==
      GoLivePreludeInFlight /\ prelude' = Idle =>
        \A b \in live' \ live : Backed(profile[b]) => profile[b] \in prelude.covered
<1>1. Init => CoveredInv
  BY DEF Init, CoveredInv, GoLivePreludeInFlight
<1>2. IInv /\ CoveredInv /\ [Next]_vars => CoveredInv'
  BY NextCovered, Zenon
<1>3. CoveredInv /\ [Next]_vars => [Step]_vars
  <2> SUFFICES ASSUME CoveredInv, Next, prelude # Idle, prelude' = Idle,
                      NEW b \in live' \ live
               PROVE  profile[b] \in prelude.covered
    BY DEF GoLivePreludeInFlight
  <2>1. PreludeLands
    BY PreludeEnds, Zenon
  <2>2. b \in enabled
    BY <2>1 DEF PreludeLands, StartEnabledOutputsNow, StartOutputs, engineVars
  <2> QED
    BY <2>2 DEF CoveredInv, GoLivePreludeInFlight
<1> QED
  BY <1>1, <1>2, <1>3, Invariance, PTL DEF Spec, PreparedStart

-----------------------------------------------------------------------------
(* Types.                                                                  *)

\* The rest of the type invariant.
Held ==
    /\ present \subseteq Binding /\ enabled \subseteq present
    /\ sent \subseteq Profile /\ active \subseteq Profile /\ pushing \subseteq Profile
    /\ held \subseteq present /\ live \subseteq held /\ wentLive \subseteq Binding
    /\ reports \subseteq Binding
    /\ asked \subseteq Profile

LEMMA JobHeld ==
    ASSUME Held, NEW p \in Profile, NEW outcome \in Outcome, RunPreludeJob(p, outcome)
    PROVE  sent' \subseteq Profile /\ active' \subseteq Profile
BY SMTT(30) DEF Held, RunPreludeJob

LEMMA NextHeld ==
    ASSUME IInv, Held, [Next]_vars
    PROVE  Held'
<1> USE DEF StopOutput, engineVars, storeVars
<1>1. profile \in [Binding -> Profile]
  BY Zenon DEF IInv, Typed
<1>2. CASE StartStreamingAll
  BY <1>1, <1>2
     DEF StartStreamingAll, StartEnabledOutputsNow, StartOutputs, Held
<1>3. CASE StopStreamingAll
  BY <1>3 DEF StopStreamingAll, Held
<1>4. CASE PreludeWorks
  <2>1. PICK at \in DOMAIN prelude.jobs, outcome \in Outcome :
          RunPreludeJob(prelude.jobs[at], outcome)
    BY <1>4 DEF PreludeWorks
  <2>2. prelude.jobs[at] \in Profile
    BY <1>4 DEF PreludeWorks, IInv, Typed, GoLivePreludeInFlight, Prelude, Jobs
  <2>3. sent' \subseteq Profile /\ active' \subseteq Profile
    BY <2>1, <2>2, JobHeld, Zenon
  <2> QED
    BY <1>4, <2>3 DEF PreludeWorks, Held
<1>5. CASE PreludeLands
  BY <1>5, Zenon
     DEF PreludeLands, DropPrepared, StartEnabledOutputsNow, StartOutputs,
         Held
<1>6. ASSUME NEW b \in Binding, ArmBindingLive(b)
      PROVE  Held'
  BY <1>1, <1>6 DEF ArmBindingLive, StartOutputs, Held
<1>7. ASSUME NEW a \in arms, ArmWorks(a)
      PROVE  Held'
  <2>1. a.profile \in Profile
    BY DEF IInv, Typed, Arm
  <2>2. sent' \subseteq Profile /\ active' \subseteq Profile
    BY <1>7, <2>1, JobHeld, Zenon DEF ArmWorks
  <2> QED
    BY <1>7, <2>2 DEF ArmWorks, Held
<1>8. ASSUME NEW a \in arms, ArmLands(a)
      PROVE  Held'
  BY <1>8, Zenon DEF ArmLands, Abandoned, GiveUp, StartOutputs, Held
<1>9. ASSUME NEW b \in Binding,
             StopOneOutput(b) \/ EnableBinding(b) \/ DisableBinding(b) \/ RemoveBinding(b)
               \/ MoveBinding(b)
      PROVE  Held'
  BY <1>9
     DEF StopOneOutput, EnableBinding, DisableBinding, RemoveBinding,
         MoveBinding, Held
<1>10. ASSUME NEW b \in Binding, NEW p \in Carries[b], CreateBinding(b, p) \/ RetargetBinding(b, p)
       PROVE  Held'
  BY <1>10, Zenon DEF CreateBinding, RetargetBinding, Held
<1>11. ASSUME NEW p \in Dialog, StreamMetaSetPrepares(p) \/ StreamMetaSetReturns(p)
       PROVE  Held'
  BY <1>11, DialogAssumption
     DEF StreamMetaSetPrepares, StreamMetaSetReturns, Held
<1>12. ASSUME NEW ps \in SUBSET Dialog, StreamMetaForgetSent(ps)
       PROVE  Held'
  BY <1>12, Zenon DEF StreamMetaForgetSent, Held
<1>13. CASE Outputs
  BY <1>13 DEF Outputs, OutputStarted, OutputEnds, EndedReport, Held
<1>14. CASE UNCHANGED vars
  BY <1>14 DEF vars, Held
<1> QED
  BY <1>2, <1>3, <1>4, <1>5, <1>6, <1>7, <1>8, <1>9, <1>10, <1>11, <1>12,
     <1>13, <1>14
     DEF Next, Bridge, Workers

\* Every variable keeps its type; in particular the engine keeps an entry only
\* for a binding that exists, since removing one stops its output first, and a
\* landing starts only what is still enabled.
THEOREM TypeCorrect == Spec => []TypeOK
<1>1. Init => Held
  BY DEF Init, Held
<1>2. IInv /\ Held => TypeOK
  BY DEF IInv, Typed, Held, TypeOK
<1>3. IInv /\ Held /\ [Next]_vars => Held'
  BY NextHeld
<1> QED
  BY <1>1, <1>2, <1>3, Invariance, PTL DEF Spec
=============================================================================
