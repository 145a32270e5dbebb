--------------------------- MODULE SetupOperators ---------------------------
(***************************************************************************)
(* What frontend/src/history/ScheduledSetup.cpp computes: the routing and  *)
(* the remembered metadata after an entry was applied, and after the       *)
(* application was put back.  Each operator maps the configuration, a      *)
(* record, to the configuration the function of that name leaves.          *)
(*                                                                         *)
(* NarrowRouting only ever switches bindings off, so a TouchedBinding is   *)
(* always [before |-> TRUE, after |-> FALSE] and bindings_ is a set.       *)
(***************************************************************************)

CONSTANTS
    Binding,      \* output bindings
    Profile,      \* stream profiles
    ProfileOf,    \* ProfileOf[b]: profile binding b routes
    Field,        \* metadata fields an entry may carry
    Value,        \* their values
    NoValue       \* a field a bag does not hold

ASSUME ProfileOfAssumption == ProfileOf \in [Binding -> Profile]

ASSUME NoValueAssumption == NoValue \notin Value

\* A bag of remembered metadata; a profile without one reads as the empty bag.
Bag == [Field -> Value \cup {NoValue}]
NoFields == [f \in Field |-> NoValue]

\* A scheduled entry: the profiles its destinations name and what it says of each.
Entry == {e \in [names : SUBSET Profile, fields : [Profile -> Bag]] :
            \A p \in Profile \ e.names : e.fields[p] = NoFields}

Config == [present : SUBSET Binding,    \* bindings of the store
           enabled : SUBSET Binding,    \* those switched on
           touched : SUBSET Binding,    \* bindings_: switched off, owed a restore
           applied : BOOLEAN,           \* applied_
           bag     : [Profile -> Bag],  \* the stream overrides of StreamMetaStore
           planned : SUBSET Profile,    \* profiles of overrides_
           before  : [Profile -> Bag],  \* PlannedOverride::before
           after   : [Profile -> Bag]]  \* PlannedOverride::after

ProfileEnabledElsewhere(c, b) ==
    \E o \in c.enabled \ {b} : ProfileOf[o] = ProfileOf[b]

-----------------------------------------------------------------------------
(* Revert.                                                                 *)

\* Records the pass tries to write back: the binding exists and still holds
\* what the application left.
Restorable(c) == (c.touched \cap c.present) \ c.enabled

\* The writes SetOutputBindingEnabled takes: one profile may be enabled once,
\* and of two records of one profile the first wins.
Restored(c) ==
    {b \in Restorable(c) :
        /\ ~ ProfileEnabledElsewhere(c, b)
        /\ b = CHOOSE o \in Restorable(c) : ProfileOf[o] = ProfileOf[b]}

\* Mutant: a write the routing refused drops its record.
HeldForgotten(c) == {}

\* What the routing would not take, held for the next call.
Held(c) == Restorable(c) \ Restored(c)

\* A bag edited since the application is the newer intent and stays.
RestoredBag(c) ==
    [p \in Profile |-> IF p \in c.planned /\ c.bag[p] = c.after[p]
                         THEN c.before[p] ELSE c.bag[p]]

Outstanding(c) == c.touched # {} \/ c.planned # {}

PutBack(c) ==
    [c EXCEPT !.enabled = @ \cup Restored(c),
              !.touched = Held(c),
              !.applied = Held(c) # {},
              !.bag     = RestoredBag(c),
              !.planned = {},
              !.before  = [p \in Profile |-> NoFields],
              !.after   = [p \in Profile |-> NoFields]]

\* A no-op while a broadcast is running, unless there is nothing to put back.
Revert(c, streaming) == IF streaming /\ Outstanding(c) THEN c ELSE PutBack(c)

-----------------------------------------------------------------------------
(* NarrowRouting and the two entry points.                                 *)

\* The enabled bindings the entry names, one per profile.
Wanted(c, e) ==
    {b \in c.enabled :
        /\ ProfileOf[b] \in e.names
        /\ b = CHOOSE o \in c.enabled : ProfileOf[o] = ProfileOf[b]}

Unwanted(c, e) == c.enabled \ Wanted(c, e)

\* Flip(uuid, false) of every binding of `off`.
Flip(c, off) == [c EXCEPT !.enabled = @ \ off, !.touched = @ \cup off]

\* `taken`: the flips the routing took, all of them unless one was refused, in
\* which case the whole application is abandoned.
Narrow(c, e, taken) ==
    IF Wanted(c, e) = {} THEN c
    ELSE IF taken = Unwanted(c, e) THEN [Flip(c, taken) EXCEPT !.applied = TRUE]
    ELSE Revert(Flip(c, taken), FALSE)

\* Mutant: a refused flip still counts as applied.
NarrowsHalf(c, e, taken) == Wanted(c, e) # {}

\* The entry point reports success.
Narrows(c, e, taken) == Wanted(c, e) # {} /\ taken = Unwanted(c, e)

\* Key by key: a field the entry does not carry keeps what was remembered.
Merge(bag, fields) ==
    [f \in Field |-> IF fields[f] # NoValue THEN fields[f] ELSE bag[f]]

Stating(e) == {p \in e.names : e.fields[p] # NoFields}

\* PlanMetadata, then the writes of Apply.
Override(c, e) ==
    LET merged == [p \in Profile |-> Merge(c.bag[p], e.fields[p])]
    IN [c EXCEPT !.bag     = [p \in Profile |->
                                IF p \in Stating(e) THEN merged[p] ELSE @[p]],
                 !.planned = Stating(e),
                 !.before  = [p \in Profile |->
                                IF p \in Stating(e) THEN c.bag[p] ELSE NoFields],
                 !.after   = [p \in Profile |->
                                IF p \in Stating(e) THEN merged[p] ELSE NoFields]]

\* Mutant: the application that is still loaded is not put back first.
UnstackedStacks(c) == c

\* Two applications never stack: both entry points open by putting back.
Unstacked(c) == Revert(c, FALSE)

\* ApplyRouting and Apply with nothing streaming.
ApplyRouting(c, e, taken) == Narrow(Unstacked(c), e, taken)

Apply(c, e, taken) ==
    IF Narrows(Unstacked(c), e, taken)
      THEN Override(ApplyRouting(c, e, taken), e)
      ELSE ApplyRouting(c, e, taken)
=============================================================================
