----------------------------- MODULE KeptProofs -----------------------------
(***************************************************************************)
(* The four things of MCKept, for every number of bindings, profiles,      *)
(* fields, workers, token pairs and changes: what a scheduled entry took   *)
(* over is on record, the accounts' file shows what was saved, a GPU that  *)
(* froze is not tried again, and the credential of an account is neither   *)
(* lost nor given up early (TokenRefreshProofs, brought over here).        *)
(*                                                                         *)
(* RoutingOwed and MetadataOwed speak of the configuration between two     *)
(* calls.  Inside Apply the configuration is put back, narrowed and        *)
(* perhaps put back again, so the argument is about any configuration c,   *)
(* and each operator is shown to preserve it.                              *)
(***************************************************************************)
EXTENDS MCKept, TLAPS

-----------------------------------------------------------------------------
(* What a scheduled entry took over.                                       *)

\* A configuration whose switched-on bindings exist.
Sound(c) == c \in Config /\ c.enabled \subseteq c.present

\* RoutingOwed of a configuration, the user's choices m and edits ed.
Owed(c, m, ed) ==
    \A b \in c.present \ ed :
        IF b \in c.touched THEN b \in m /\ b \notin c.enabled
                           ELSE b \in c.enabled <=> b \in m

\* MetadataOwed of a configuration, the user's bags m and edits ed.
BagsOwed(c, m, ed) ==
    \A p \in Profile \ ed :
        IF p \in c.planned THEN c.before[p] = m[p] /\ c.bag[p] = c.after[p]
                           ELSE c.bag[p] = m[p]

IInv == TypeOK /\ RoutingOwed /\ MetadataOwed /\ LoadedNarrows

-----------------------------------------------------------------------------
(* The operators.                                                          *)

LEMMA NoFieldsType == NoFields \in Bag
  BY DEF NoFields, Bag

LEMMA MergeType ==
  ASSUME NEW bag \in Bag, NEW fields \in Bag
  PROVE  Merge(bag, fields) \in Bag
  BY DEF Merge, Bag

LEMMA RestoredBounds ==
  ASSUME NEW c, Sound(c)
  PROVE  /\ Restored(c) \subseteq (c.touched \cap c.present) \ c.enabled
         /\ Held(c) \subseteq (c.touched \cap c.present) \ c.enabled
         /\ Held(c) \cap Restored(c) = {}
         /\ Held(c) \cup Restored(c) = (c.touched \cap c.present) \ c.enabled
  BY DEF Restored, Held, Restorable

\* What PutBack leaves in each field.
LEMMA PutBackFields ==
  ASSUME NEW c, Sound(c)
  PROVE  /\ Sound(PutBack(c))
         /\ PutBack(c).present = c.present
         /\ PutBack(c).enabled = c.enabled \cup Restored(c)
         /\ PutBack(c).touched = Held(c)
         /\ PutBack(c).bag = RestoredBag(c)
         /\ PutBack(c).planned = {}
  <1>1. RestoredBag(c) \in [Profile -> Bag]
    BY DEF Sound, Config, RestoredBag
  <1>2. [p \in Profile |-> NoFields] \in [Profile -> Bag]
    BY NoFieldsType
  <1>3. (Held(c) # {}) \in BOOLEAN
    OBVIOUS
  <1>4. Restored(c) \subseteq Binding /\ Held(c) \subseteq Binding
    BY RestoredBounds DEF Sound, Config
  <1>5. PutBack(c) \in Config
    BY <1>1, <1>2, <1>3, <1>4, Zenon DEF PutBack, Sound, Config
  <1>6. /\ PutBack(c).present = c.present
        /\ PutBack(c).enabled = c.enabled \cup Restored(c)
        /\ PutBack(c).touched = Held(c)
        /\ PutBack(c).bag = RestoredBag(c)
        /\ PutBack(c).planned = {}
    BY DEF PutBack, Sound, Config
  <1>7. c.enabled \cup Restored(c) \subseteq c.present
    BY RestoredBounds DEF Sound
  <1> QED
    BY <1>5, <1>6, <1>7 DEF Sound

\* Putting back keeps every remaining change on record.
LEMMA PutBackOwed ==
  ASSUME NEW c, NEW m, NEW ed, Sound(c), Owed(c, m, ed)
  PROVE  Owed(PutBack(c), m, ed)
  BY PutBackFields, RestoredBounds DEF Owed

\* ... and an edit without a record stands.
LEMMA SettleOwed ==
  ASSUME NEW c, NEW m, NEW ed, Sound(c), Owed(c, m, ed),
         NEW n, n = (m \ (ed \ Held(c))) \cup ((ed \ Held(c)) \cap PutBack(c).enabled)
  PROVE  Owed(PutBack(c), n, ed \cap Held(c))
  BY PutBackFields, RestoredBounds DEF Owed

LEMMA PutBackBags ==
  ASSUME NEW c, NEW m, NEW ed, Sound(c), BagsOwed(c, m, ed)
  PROVE  BagsOwed(PutBack(c), m, ed)
  <1> SUFFICES ASSUME NEW p \in Profile \ ed
               PROVE  RestoredBag(c)[p] = m[p]
    BY PutBackFields, Zenon DEF BagsOwed
  <1> QED
    BY DEF BagsOwed, RestoredBag

LEMMA SettleBags ==
  ASSUME NEW c, NEW m, NEW ed, Sound(c), BagsOwed(c, m, ed),
         NEW n, n = [p \in Profile |-> IF p \in ed THEN PutBack(c).bag[p] ELSE m[p]]
  PROVE  BagsOwed(PutBack(c), n, {})
  <1> SUFFICES ASSUME NEW p \in Profile
               PROVE  RestoredBag(c)[p] = n[p]
    BY PutBackFields, ZenonT(30) DEF BagsOwed
  <1>1. PutBack(c).bag = RestoredBag(c)
    BY PutBackFields
  <1> QED
    BY <1>1 DEF BagsOwed, RestoredBag

LEMMA FlipFields ==
  ASSUME NEW c, Sound(c), NEW off, off \subseteq c.enabled
  PROVE  /\ Sound(Flip(c, off))
         /\ Flip(c, off).present = c.present
         /\ Flip(c, off).enabled = c.enabled \ off
         /\ Flip(c, off).touched = c.touched \cup off
         /\ Flip(c, off).bag = c.bag
         /\ Flip(c, off).planned = c.planned
         /\ Flip(c, off).before = c.before
         /\ Flip(c, off).after = c.after
  BY Zenon DEF Flip, Sound, Config

LEMMA FlipOwed ==
  ASSUME NEW c, NEW m, NEW ed, Sound(c), Owed(c, m, ed),
         NEW off, off \subseteq c.enabled
  PROVE  Owed(Flip(c, off), m, ed)
  BY FlipFields DEF Owed, Sound

LEMMA FlipBags ==
  ASSUME NEW c, NEW m, NEW ed, Sound(c), BagsOwed(c, m, ed),
         NEW off, off \subseteq c.enabled
  PROVE  BagsOwed(Flip(c, off), m, ed)
  BY FlipFields, ZenonT(30) DEF BagsOwed

\* applied_ is no part of what is owed.
LEMMA AppliedOwed ==
  ASSUME NEW c, NEW m, NEW ed, NEW mb, NEW edb,
         Sound(c), Owed(c, m, ed), BagsOwed(c, mb, edb),
         NEW d, d = [c EXCEPT !.applied = TRUE]
  PROVE  Sound(d) /\ Owed(d, m, ed) /\ BagsOwed(d, mb, edb)
  <1>1. /\ d \in Config /\ d.present = c.present /\ d.enabled = c.enabled
        /\ d.touched = c.touched
    BY Zenon DEF Sound, Config
  <1>2. /\ d.bag = c.bag /\ d.planned = c.planned
        /\ d.before = c.before /\ d.after = c.after
    BY DEF Sound, Config
  <1>3. Sound(d) /\ Owed(d, m, ed)
    BY <1>1 DEF Sound, Owed
  <1>4. BagsOwed(d, mb, edb)
    BY <1>2, Zenon DEF BagsOwed
  <1> QED
    BY <1>3, <1>4

\* Narrowing keeps everything on record, also when it gives up half way.
LEMMA NarrowOwed ==
  ASSUME NEW c, NEW m, NEW ed, NEW mb, NEW edb,
         Sound(c), Owed(c, m, ed), BagsOwed(c, mb, edb), c.planned = {},
         NEW e \in Entry, NEW taken \in SUBSET Unwanted(c, e)
  PROVE  /\ Sound(Narrow(c, e, taken))
         /\ Owed(Narrow(c, e, taken), m, ed)
         /\ BagsOwed(Narrow(c, e, taken), mb, edb)
         /\ Narrow(c, e, taken).planned = {}
         /\ Narrows(c, e, taken) => Narrow(c, e, taken).enabled = Wanted(c, e)
  <1>1. taken \subseteq c.enabled /\ Wanted(c, e) \subseteq c.enabled
    BY DEF Unwanted, Wanted
  <1> DEFINE f == Flip(c, taken)
             d == [f EXCEPT !.applied = TRUE]
  <1>2. Sound(f) /\ Owed(f, m, ed) /\ BagsOwed(f, mb, edb)
    BY <1>1, FlipFields, FlipOwed, FlipBags
  <1>3. f.enabled = c.enabled \ taken /\ f.planned = {}
    BY <1>1, FlipFields
  <1>4. Sound(d) /\ Owed(d, m, ed) /\ BagsOwed(d, mb, edb)
    BY <1>2, AppliedOwed
  <1>5. d.enabled = f.enabled /\ d.planned = f.planned
    BY <1>2 DEF Sound, Config
  <1>6. CASE Wanted(c, e) = {}
    BY <1>6 DEF Narrow, Narrows
  <1>7. CASE Wanted(c, e) # {} /\ taken = Unwanted(c, e)
    <2>1. Narrow(c, e, taken) = d
      BY <1>7 DEF Narrow
    <2>2. d.enabled = Wanted(c, e)
      BY <1>1, <1>3, <1>5, <1>7 DEF Unwanted
    <2> QED
      BY <1>3, <1>4, <1>5, <2>1, <2>2
  <1>8. CASE Wanted(c, e) # {} /\ taken # Unwanted(c, e)
    <2>1. Narrow(c, e, taken) = PutBack(f)
      BY <1>8 DEF Narrow, Revert
    <2>2. ~ Narrows(c, e, taken)
      BY <1>8 DEF Narrows
    <2>3. Sound(PutBack(f)) /\ PutBack(f).planned = {}
      BY <1>2, PutBackFields
    <2>4. Owed(PutBack(f), m, ed) /\ BagsOwed(PutBack(f), mb, edb)
      BY <1>2, PutBackOwed, PutBackBags
    <2> QED
      BY <2>1, <2>2, <2>3, <2>4
  <1> QED
    BY <1>6, <1>7, <1>8

\* Merging the entry's metadata keeps the user's bags in the plan.
LEMMA OverrideOwed ==
  ASSUME NEW c, NEW m, NEW ed, NEW mb,
         Sound(c), Owed(c, m, ed), BagsOwed(c, mb, {}), c.planned = {},
         NEW e \in Entry
  PROVE  /\ Sound(Override(c, e))
         /\ Owed(Override(c, e), m, ed)
         /\ BagsOwed(Override(c, e), mb, {})
         /\ Override(c, e).enabled = c.enabled
  <1> DEFINE o == Override(c, e)
             S == Stating(e)
             merged == [p \in Profile |-> Merge(c.bag[p], e.fields[p])]
             bag == [p \in Profile |-> IF p \in S THEN merged[p] ELSE c.bag[p]]
             before == [p \in Profile |-> IF p \in S THEN c.bag[p] ELSE NoFields]
             after == [p \in Profile |-> IF p \in S THEN merged[p] ELSE NoFields]
  <1>1. c.bag \in [Profile -> Bag] /\ e.fields \in [Profile -> Bag]
    BY DEF Sound, Config, Entry
  <1>2. merged \in [Profile -> Bag]
    BY <1>1, MergeType
  <1>3. /\ bag \in [Profile -> Bag] /\ before \in [Profile -> Bag]
        /\ after \in [Profile -> Bag]
    BY <1>1, <1>2, NoFieldsType
  <1>4. S \in SUBSET Profile
    BY DEF Stating, Entry
  <1>5. o = [c EXCEPT !.bag = bag, !.planned = S, !.before = before, !.after = after]
    BY DEF Override, Sound, Config
  <1> HIDE DEF o, S, merged, bag, before, after
  <1>6. /\ o \in Config /\ o.present = c.present /\ o.enabled = c.enabled
        /\ o.touched = c.touched
    BY <1>3, <1>4, <1>5, Zenon DEF Sound, Config
  <1>7. o.bag = bag /\ o.planned = S /\ o.before = before /\ o.after = after
    BY <1>5 DEF Sound, Config
  <1>8. Sound(o) /\ Owed(o, m, ed)
    BY <1>6 DEF Sound, Owed
  <1>9. ASSUME NEW p \in Profile
        PROVE  IF p \in S THEN before[p] = mb[p] /\ bag[p] = after[p]
                          ELSE bag[p] = mb[p]
    <2>1. c.bag[p] = mb[p]
      BY DEF BagsOwed
    <2> QED
      BY <2>1 DEF bag, before, after
  <1>10. BagsOwed(o, mb, {})
    BY <1>7, <1>9, Zenon DEF BagsOwed
  <1> QED
    BY <1>6, <1>8, <1>10 DEF o

-----------------------------------------------------------------------------
(* The steps.                                                              *)

\* The invariant over the operators' view of the configuration.
LEMMA OwedForm ==
  /\ RoutingOwed <=> Owed(config, mine, edited)
  /\ MetadataOwed <=> BagsOwed(config, mineBag, editedBag)
  /\ TypeOK => Sound(config)
  BY DEF RoutingOwed, MetadataOwed, Owed, BagsOwed, TypeOK, Sound

\* Both entry points leave the entry applied, or everything put back.
LEMMA ApplyKeeps ==
  ASSUME IInv, NEW e \in Entry, ApplyEntry(e) \/ StageRouting(e)
  PROVE  IInv'
  <1> DEFINE c == PutBack(config)
  <1>1. Unstacked(config) = c
    BY DEF Unstacked, Revert
  <1>2. /\ Sound(config) /\ Owed(config, mine, edited)
        /\ BagsOwed(config, mineBag, editedBag)
    BY OwedForm DEF IInv
  <1>3. /\ Sound(c) /\ c.planned = {} /\ c.touched = Held(config)
        /\ c.bag \in [Profile -> Bag]
    BY <1>2, PutBackFields, Zenon DEF Sound, Config
  <1>4. PICK taken \in SUBSET Unwanted(c, e) :
          /\ \/ config' = Apply(config, e, taken)
             \/ config' = ApplyRouting(config, e, taken)
          /\ loaded' = (IF Narrows(c, e, taken) THEN e.names ELSE {})
          /\ Settle(c)
    BY <1>1, Zenon DEF ApplyEntry, StageRouting
  <1>5. Owed(c, mine', edited')
    BY <1>2, <1>3, <1>4, SettleOwed, Zenon DEF Settle
  <1>6. BagsOwed(c, mineBag', editedBag') /\ editedBag' = {}
    BY <1>2, <1>4, SettleBags, SMTT(30) DEF Settle
  <1> DEFINE n == Narrow(c, e, taken)
  <1>7. /\ Sound(n) /\ Owed(n, mine', edited') /\ BagsOwed(n, mineBag', {})
        /\ n.planned = {} /\ (Narrows(c, e, taken) => n.enabled = Wanted(c, e))
    BY <1>3, <1>5, <1>6, NarrowOwed, SMTT(30)
  <1>8. \/ config' = n
        \/ Narrows(c, e, taken) /\ config' = Override(n, e)
    BY <1>1, <1>4, SMTT(30) DEF Apply, ApplyRouting
  <1>9. /\ Sound(config') /\ Owed(config', mine', edited')
        /\ BagsOwed(config', mineBag', {})
        /\ (Narrows(c, e, taken) => config'.enabled = Wanted(c, e))
    BY <1>7, <1>8, OverrideOwed, SMTT(30)
  <1>10. LoadedNarrows'
    BY <1>4, <1>9, Zenon DEF LoadedNarrows, Wanted
  <1>11. /\ mine' \in SUBSET Binding /\ edited' \in SUBSET Binding
         /\ loaded' \in SUBSET Profile
    BY <1>2, <1>3, <1>4 DEF Settle, IInv, TypeOK, Sound, Config, Entry
  <1>12. mineBag' \in [Profile -> Bag] /\ editedBag' \in SUBSET Profile
    BY <1>3, <1>4, Zenon DEF Settle, IInv, TypeOK
  <1>13. streaming' \in BOOLEAN
    BY ZenonT(30) DEF ApplyEntry, StageRouting, IInv, TypeOK
  <1>14. TypeOK'
    BY <1>9, <1>11, <1>12, <1>13, Zenon DEF TypeOK, Sound
  <1>15. RoutingOwed' /\ MetadataOwed'
    BY <1>6, <1>9, Zenon DEF RoutingOwed, MetadataOwed, Owed, BagsOwed
  <1> QED
    BY <1>10, <1>14, <1>15 DEF IInv

LEMMA RevertKeeps ==
  ASSUME IInv, RevertSetup
  PROVE  IInv'
  <1>1. /\ Sound(config) /\ Owed(config, mine, edited)
        /\ BagsOwed(config, mineBag, editedBag)
    BY OwedForm DEF IInv
  <1>2. streaming' = streaming /\ streaming' \in BOOLEAN
    BY Zenon DEF RevertSetup, IInv, TypeOK
  <1>3. CASE streaming /\ Outstanding(config)
    <2>1. UNCHANGED vars
      BY <1>2, <1>3 DEF RevertSetup, Revert, vars, userVars
    <2> QED
      BY <2>1
         DEF IInv, TypeOK, RoutingOwed, MetadataOwed, LoadedNarrows, vars,
             userVars
  <1>4. CASE ~ (streaming /\ Outstanding(config))
    <2>1. config' = PutBack(config) /\ loaded' = {} /\ Settle(config')
      BY <1>4, Zenon DEF RevertSetup, Revert
    <2>2. Sound(config') /\ config'.touched = Held(config)
      BY <1>1, <2>1, PutBackFields, Zenon
    <2>3. Owed(config', mine', edited')
      BY <1>1, <2>1, <2>2, SettleOwed, Zenon DEF Settle
    <2>4. BagsOwed(config', mineBag', editedBag')
      BY <1>1, <2>1, SettleBags DEF Settle
    <2>5. /\ mine' \in SUBSET Binding /\ edited' \in SUBSET Binding
          /\ loaded' \in SUBSET Profile
      BY <2>1, <2>2 DEF Settle, IInv, TypeOK, Sound, Config
    <2>6. mineBag' \in [Profile -> Bag] /\ editedBag' \in SUBSET Profile
      BY <2>1, <2>2, Zenon DEF Settle, IInv, TypeOK, Sound, Config
    <2>7. TypeOK'
      BY <1>2, <2>2, <2>5, <2>6, Zenon DEF TypeOK, Sound
    <2>8. RoutingOwed' /\ MetadataOwed' /\ LoadedNarrows'
      BY <2>1, <2>3, <2>4
         DEF RoutingOwed, MetadataOwed, LoadedNarrows, Owed, BagsOwed
    <2> QED
      BY <2>7, <2>8 DEF IInv
  <1> QED
    BY <1>3, <1>4

\* An edit of the user's is an edit: it is exempt until it is settled.
LEMMA UserKeeps ==
  ASSUME IInv,
         \/ \E b \in Binding, on \in BOOLEAN : SetEnabled(b, on)
         \/ \E b \in Binding : RemoveBinding(b)
         \/ \E p \in Profile, bag \in Bag : PutStreamOverride(p, bag)
  PROVE  IInv'
  <1> USE DEF IInv
  <1>1. CASE \E b \in Binding, on \in BOOLEAN : SetEnabled(b, on)
    <2>1. PICK b \in Binding, on \in BOOLEAN : SetEnabled(b, on)
      BY <1>1
    <2>2. /\ config' \in Config /\ config'.present = config.present
          /\ config'.enabled \subseteq config.enabled \cup {b}
          /\ config.enabled \subseteq config'.enabled \cup {b}
          /\ config'.touched = config.touched /\ b \in config.present
      BY <2>1 DEF SetEnabled, TypeOK, Config
    <2>3. /\ config'.bag = config.bag /\ config'.planned = config.planned
          /\ config'.before = config.before /\ config'.after = config.after
      BY <2>1 DEF SetEnabled, TypeOK, Config
    <2>4. streaming' \in BOOLEAN
      BY <2>1, Zenon DEF SetEnabled, TypeOK
    <2>5. TypeOK'
      BY <2>1, <2>2, <2>4 DEF SetEnabled, TypeOK
    <2>6. RoutingOwed' /\ LoadedNarrows'
      BY <2>1, <2>2 DEF SetEnabled, RoutingOwed, LoadedNarrows
    <2>7. MetadataOwed'
      BY <2>1, <2>3 DEF SetEnabled, MetadataOwed
    <2> QED
      BY <2>5, <2>6, <2>7
  <1>2. CASE \E b \in Binding : RemoveBinding(b)
    <2>1. PICK b \in Binding : RemoveBinding(b)
      BY <1>2
    <2>2. /\ config' \in Config /\ config'.present = config.present \ {b}
          /\ config'.enabled = config.enabled \ {b}
          /\ config'.touched = config.touched
      BY <2>1, Zenon DEF RemoveBinding, TypeOK, Config
    <2>3. /\ config'.bag = config.bag /\ config'.planned = config.planned
          /\ config'.before = config.before /\ config'.after = config.after
      BY <2>1, Zenon DEF RemoveBinding, TypeOK, Config
    <2>4. streaming' \in BOOLEAN
      BY <2>1, Zenon DEF RemoveBinding, TypeOK
    <2>5. TypeOK'
      BY <2>1, <2>2, <2>4, Zenon DEF RemoveBinding, TypeOK
    <2>6. RoutingOwed' /\ LoadedNarrows'
      BY <2>1, <2>2, Zenon DEF RemoveBinding, RoutingOwed, LoadedNarrows
    <2>7. MetadataOwed'
      BY <2>1, <2>3, Zenon DEF RemoveBinding, MetadataOwed
    <2> QED
      BY <2>5, <2>6, <2>7
  <1>3. CASE \E p \in Profile, bag \in Bag : PutStreamOverride(p, bag)
    <2>1. PICK p \in Profile, bag \in Bag : PutStreamOverride(p, bag)
      BY <1>3
    <2>2. /\ config' \in Config /\ config'.present = config.present
          /\ config'.enabled = config.enabled /\ config'.touched = config.touched
          /\ config'.planned = config.planned
          /\ config'.before = config.before /\ config'.after = config.after
      BY <2>1, Zenon DEF PutStreamOverride, TypeOK, Config
    <2>3. \A q \in Profile \ {p} : /\ config'.bag[q] = config.bag[q]
                                   /\ mineBag'[q] = mineBag[q]
      BY <2>1 DEF PutStreamOverride, TypeOK, Config
    <2>4. streaming' \in BOOLEAN
      BY <2>1, Zenon DEF PutStreamOverride, TypeOK
    <2>5. TypeOK'
      BY <2>1, <2>2, <2>4 DEF PutStreamOverride, TypeOK
    <2>6. RoutingOwed' /\ LoadedNarrows'
      BY <2>1, <2>2 DEF PutStreamOverride, RoutingOwed, LoadedNarrows
    <2>7. MetadataOwed'
      BY <2>1, <2>2, <2>3 DEF PutStreamOverride, MetadataOwed
    <2> QED
      BY <2>5, <2>6, <2>7
  <1> QED
    BY <1>1, <1>2, <1>3

LEMMA BroadcastKeeps ==
  ASSUME IInv, GoLive \/ GoOffline \/ UNCHANGED vars
  PROVE  IInv'
  <1>1. UNCHANGED <<config, loaded, mine, mineBag, edited, editedBag>>
    BY DEF GoLive, GoOffline, vars, userVars
  <1>2. streaming' \in BOOLEAN
    BY Zenon DEF GoLive, GoOffline, vars, IInv, TypeOK
  <1> QED
    BY <1>1, <1>2 DEF IInv, TypeOK, RoutingOwed, MetadataOwed, LoadedNarrows

LEMMA InitHolds == Init => IInv
  <1> SUFFICES ASSUME Init PROVE IInv
    OBVIOUS
  <1>1. [p \in Profile |-> NoFields] \in [Profile -> Bag]
    BY NoFieldsType, Zenon
  <1>2. config \in Config
    BY <1>1 DEF Init, Config
  <1>3. /\ config.present = Binding /\ config.enabled \subseteq Binding
        /\ config.touched = {} /\ config.planned = {}
        /\ config.bag \in [Profile -> Bag]
    BY DEF Init
  <1>4. TypeOK
    BY <1>2, <1>3, Zenon DEF Init, TypeOK
  <1>5. RoutingOwed /\ MetadataOwed /\ LoadedNarrows
    BY <1>3 DEF Init, RoutingOwed, MetadataOwed, LoadedNarrows
  <1> QED
    BY <1>4, <1>5 DEF IInv

LEMMA NextKeeps == IInv /\ [Next]_vars => IInv'
  BY ApplyKeeps, RevertKeeps, UserKeeps, BroadcastKeeps DEF Next

\* ScheduledSetup keeps the user's routing, keeps the user's metadata and
\* narrows, through every order of applications, restores, refused flips,
\* user edits and broadcasts.
THEOREM InvariantHolds == Spec => []IInv
  BY InitHolds, NextKeeps, PTL DEF Spec

\* The stores and the records of ScheduledSetup keep their types, and a binding
\* that is switched on exists.
THEOREM TypeCorrect == Spec => []TypeOK
  <1>1. IInv => TypeOK
    BY DEF IInv
  <1> QED
    BY <1>1, InvariantHolds, PTL

\* Everything Apply and ApplyRouting switched off is on record in bindings_.
THEOREM RoutingAlwaysOwed == Spec => []RoutingOwed
  <1>1. IInv => RoutingOwed
    BY DEF IInv
  <1> QED
    BY <1>1, InvariantHolds, PTL

\* Every bag Apply merged over is on record in overrides_.
THEOREM MetadataAlwaysOwed == Spec => []MetadataOwed
  <1>1. IInv => MetadataOwed
    BY DEF IInv
  <1> QED
    BY <1>1, InvariantHolds, PTL

\* An applied entry only ever narrows the routing, and never half-applies.
THEOREM AlwaysNarrows == Spec => []LoadedNarrows
  <1>1. IInv => LoadedNarrows
    BY Zenon DEF IInv
  <1> QED
    BY <1>1, InvariantHolds, PTL

\* What one step of StreamingUntouched says.
UntouchedStep ==
    streaming =>
       /\ \A b \in Binding : (b \in config'.enabled) # (b \in config.enabled)
                              => b \in edited'
       /\ \A p \in Profile : config'.bag[p] # config.bag[p] => p \in editedBag'

\* A restore while streaming has nothing to put back, so it changes nothing.
LEMMA StepLeavesBroadcast == TypeOK /\ Next => UntouchedStep
  <1> SUFFICES ASSUME TypeOK, Next, streaming
               PROVE  /\ \A b \in Binding :
                           (b \in config'.enabled) # (b \in config.enabled)
                             => b \in edited'
                      /\ \A p \in Profile :
                           config'.bag[p] # config.bag[p] => p \in editedBag'
    BY Zenon DEF UntouchedStep
  <1>1. CASE RevertSetup
    <2>1. CASE Outstanding(config)
      BY <1>1, <2>1, Zenon DEF RevertSetup, Revert
    <2>2. CASE ~ Outstanding(config)
      <3>1. Sound(config) /\ config' = PutBack(config)
        BY <1>1, <2>2, OwedForm DEF RevertSetup, Revert
      <3>2. config'.enabled = config.enabled
        <4>1. config'.enabled = config.enabled \cup Restored(config)
          BY <3>1, PutBackFields, Zenon
        <4>2. Restored(config) = {}
          BY <2>2, <3>1, RestoredBounds, Zenon DEF Outstanding
        <4> QED
          BY <4>1, <4>2, Zenon
      <3>3. config'.bag = RestoredBag(config)
        BY <3>1, PutBackFields
      <3>4. \A p \in Profile : RestoredBag(config)[p] = config.bag[p]
        BY <2>2 DEF Outstanding, RestoredBag
      <3> QED
        BY <3>2, <3>3, <3>4
    <2> QED
      BY <2>1, <2>2
  <1>2. CASE \E b \in Binding, on \in BOOLEAN : SetEnabled(b, on)
    BY <1>2 DEF SetEnabled, TypeOK, Config
  <1>3. CASE \E b \in Binding : RemoveBinding(b)
    BY <1>3 DEF RemoveBinding, TypeOK, Config
  <1>4. CASE \E p \in Profile, bag \in Bag : PutStreamOverride(p, bag)
    BY <1>4 DEF PutStreamOverride, TypeOK, Config
  <1>5. CASE GoLive \/ GoOffline
    BY <1>5, Zenon DEF GoLive, GoOffline
  <1>6. ASSUME NEW e \in Entry, ApplyEntry(e) \/ StageRouting(e)
        PROVE  FALSE
    BY <1>6 DEF ApplyEntry, StageRouting
  <1> QED
    BY <1>1, <1>2, <1>3, <1>4, <1>5, <1>6, Zenon DEF Next

\* Neither Apply, ApplyRouting nor Revert changes the routing or the metadata of
\* a running broadcast.
THEOREM BroadcastUntouched == Spec => StreamingUntouched
  <1>1. TypeOK /\ [Next]_vars => [UntouchedStep]_vars
    BY StepLeavesBroadcast
  <1> QED
    BY <1>1, TypeCorrect, PTL DEF Spec, StreamingUntouched, UntouchedStep

-----------------------------------------------------------------------------
(* The accounts' file.                                                     *)

\* What a restart would load.
Shown == IF target # File!Missing THEN target
         ELSE IF File!Whole(temp) THEN temp ELSE 0

\* A restart shows something that is due, unless the only copy is being
\* overwritten; and then nothing is in the target's place.
FileInv ==
    /\ accounts \in File!Contents /\ changes \in File!Contents
    /\ target \in File!Files \ {File!Partial} /\ temp \in File!Files
    /\ due \subseteq File!Contents
    /\ filePc \in {"idle", "open", "write", "replace"}
    /\ accountsLoaded => accounts \in due
    /\ filePc # "idle" => accountsLoaded
    /\ filePc = "write" => temp = File!Partial
    /\ filePc = "replace" => temp = accounts /\ ~exposed
    /\ exposed => target = File!Missing
    /\ ~exposed => Shown \in due

LEMMA InitFileInv == File!Init => FileInv
<1> SUFFICES ASSUME File!Init PROVE FileInv
  OBVIOUS
<1> USE BoundsAssumption
        DEF File!Init, File!Contents, File!Files, File!Missing, File!Partial
<1>1. Shown = 0
  BY DEF Shown, File!Whole
<1> QED
  BY <1>1 DEF FileInv

LEMMA StepFileInv == FileInv /\ [File!Next]_(File!vars) => FileInv'
<1> SUFFICES ASSUME FileInv, [File!Next]_(File!vars) PROVE FileInv'
  BY Zenon
<1> USE BoundsAssumption
        DEF FileInv, File!Contents, File!Files, File!Missing, File!Partial,
            Shown, File!Whole, File!Step, File!disk
<1>1. CASE File!Change
  BY <1>1, SMTT(30) DEF File!Change
<1>2. CASE File!OpenTemp
  <2>1. CASE filePc' = "write"
    <3>1. exposed' <=> exposed \/ (target = -1 /\ temp >= 0)
      BY <1>2, <2>1, Zenon DEF File!OpenTemp
    <3>2. exposed' => target' = -1
      BY <1>2, <2>1, <3>1, Zenon DEF File!OpenTemp
    <3>3. ~exposed' => Shown' = Shown
      BY <1>2, <2>1, <3>1 DEF File!OpenTemp
    <3> QED
      BY <1>2, <2>1, <3>1, <3>2, <3>3, Zenon DEF File!OpenTemp
  <2>2. CASE filePc' = "idle"
    <3>1. UNCHANGED <<accountsLoaded, accounts, target, temp, changes, due,
                      exposed>>
      BY <1>2, <2>2, SMTT(30) DEF File!OpenTemp
    <3> QED
      BY <2>2, <3>1, Zenon
  <2> QED
    BY <1>2, <2>1, <2>2 DEF File!OpenTemp
<1>3. CASE File!WriteTemp
  <2>1. CASE filePc' = "replace"
    <3>1. UNCHANGED <<accountsLoaded, accounts, target, changes, due>>
      BY <1>3, <2>1, Zenon DEF File!WriteTemp
    <3>2. filePc = "write" /\ temp' = accounts /\ ~exposed'
      BY <1>3, <2>1, Zenon DEF File!WriteTemp
    <3> QED
      BY <2>1, <3>1, <3>2
  <2>2. CASE filePc' = "idle"
    <3>1. UNCHANGED <<accountsLoaded, accounts, target, changes, due,
                      exposed>>
      BY <1>3, <2>2, Zenon DEF File!WriteTemp
    <3>2. filePc = "write" /\ temp' \in {-1, -2}
      BY <1>3, <2>2, Zenon DEF File!WriteTemp
    <3> QED
      BY <2>2, <3>1, <3>2
  <2> QED
    BY <1>3, <2>1, <2>2, Zenon DEF File!WriteTemp
<1>4. CASE File!Replace
  BY <1>4 DEF File!Replace
<1>5. CASE File!ReplaceLoses
  BY <1>5 DEF File!ReplaceLoses
<1>6. CASE File!ReplaceFails
  BY <1>6, Zenon DEF File!ReplaceFails
<1>7. CASE File!Crash
  BY <1>7 DEF File!Crash
<1>8. CASE File!EnsureLoaded
  BY <1>8 DEF File!EnsureLoaded
<1>9. CASE UNCHANGED File!vars
  BY <1>9 DEF File!vars
<1> QED
  BY <1>1, <1>2, <1>3, <1>4, <1>5, <1>6, <1>7, <1>8, <1>9, Zenon DEF File!Next

-----------------------------------------------------------------------------
(* The verdict on the GPU.                                                 *)

\* The sentinel outlives the frozen run, or what it asked for was saved; only
\* a launch past its boot has published acceleration, and one that armed the
\* probe did publish it.
GpuInv ==
    /\ Gpu!GpuTypeOK
    /\ armed => enabled
    /\ enabled => run = "up"
    /\ run = "confirm" => ~setting /\ ~browserHwAccel
    /\ verdict => ~enabled /\ (hwSentinel \/ (~setting /\ ~browserHwAccel))

LEMMA InitGpuInv == Gpu!Init => GpuInv
  BY Zenon DEF Gpu!Init, GpuInv, Gpu!GpuTypeOK

LEMMA StepGpuInv == GpuInv /\ [Gpu!Next]_(Gpu!vars) => GpuInv'
<1> SUFFICES ASSUME GpuInv, [Gpu!Next]_(Gpu!vars) PROVE GpuInv'
  OBVIOUS
<1> USE DEF GpuInv, Gpu!GpuTypeOK, Gpu!disk, Gpu!process
<1>1. CASE Gpu!Launch
  BY <1>1, Zenon DEF Gpu!Launch
<1>2. CASE Gpu!WriteSafeMode
  BY <1>2 DEF Gpu!WriteSafeMode
<1>3. CASE Gpu!ConsumeSentinel
  BY <1>3, Zenon DEF Gpu!ConsumeSentinel
<1>4. CASE Gpu!HwAccelDecideAtBoot
  <2>1. CASE run' = "up" /\ enabled' = enabled
    <3>1. UNCHANGED <<enabled, armed, setting, verdict>>
      BY <1>4, <2>1, Zenon DEF Gpu!HwAccelDecideAtBoot
    <3>2. verdict' => hwSentinel' \/ (~setting' /\ ~browserHwAccel')
      BY <1>4, <2>1, <3>1 DEF Gpu!HwAccelDecideAtBoot
    <3>3. Gpu!GpuTypeOK'
      BY <1>4, <2>1, <3>1, Zenon DEF Gpu!HwAccelDecideAtBoot
    <3> QED
      BY <1>4, <2>1, <3>1, <3>2, <3>3
  <2>2. CASE run' = "suppress"
    BY <1>4, <2>2 DEF Gpu!HwAccelDecideAtBoot
  <2>3. CASE enabled' = TRUE
    BY <1>4, <2>3, Zenon DEF Gpu!HwAccelDecideAtBoot
  <2> QED
    BY <1>4, <2>1, <2>2, <2>3, Zenon DEF Gpu!HwAccelDecideAtBoot
<1>5. CASE Gpu!Suppress
  <2>1. CASE run' = "confirm"
    BY <1>5, <2>1, Zenon DEF Gpu!Suppress
  <2>2. CASE run' = "up"
    <3>1. UNCHANGED <<enabled, armed, hwSentinel, setting, verdict>>
      BY <1>5, <2>2 DEF Gpu!Suppress
    <3>2. Gpu!GpuTypeOK'
      BY <1>5, <2>2, <3>1, Zenon DEF Gpu!Suppress
    <3> QED
      BY <1>5, <2>2, <3>1, <3>2 DEF Gpu!Suppress
  <2> QED
    BY <1>5, <2>1, <2>2 DEF Gpu!Suppress
<1>6. CASE Gpu!ConfirmSuppressionPersisted
  BY <1>6, Zenon DEF Gpu!ConfirmSuppressionPersisted
<1>7. CASE Gpu!Paint
  BY <1>7, Zenon DEF Gpu!Paint
<1>8. CASE Gpu!ProbeTimer
  <2>1. hwSentinel' = FALSE /\ armed' = FALSE
    BY <1>8 DEF Gpu!ProbeTimer, Gpu!CloseProbe
  <2>2. ~verdict
    BY <1>8, Zenon DEF Gpu!ProbeTimer
  <2> QED
    BY <1>8, <2>1, <2>2, Zenon DEF Gpu!ProbeTimer
<1>9. ASSUME NEW on \in BOOLEAN, Gpu!SetAdvanced(on) PROVE GpuInv'
  <2>1. Gpu!GpuTypeOK'
    BY <1>9 DEF Gpu!SetAdvanced
  <2>2. verdict' => verdict /\ on = browserHwAccel
    BY <1>9, Zenon DEF Gpu!SetAdvanced
  <2> QED
    BY <1>9, <2>1, <2>2, Zenon DEF Gpu!SetAdvanced
<1>10. CASE Gpu!Freeze
  BY <1>10 DEF Gpu!Freeze
<1>11. CASE Gpu!Teardown
  BY <1>11, Zenon DEF Gpu!Teardown, Gpu!CloseProbe, Gpu!Ended
<1>12. CASE Gpu!FatalError
  BY <1>12, Zenon DEF Gpu!FatalError, Gpu!CloseProbe, Gpu!Ended
<1>13. CASE Gpu!Kill
  BY <1>13, Zenon DEF Gpu!Kill, Gpu!Ended
<1>14. CASE Gpu!UserFiles
  BY <1>14, Zenon DEF Gpu!UserFiles
<1>15. CASE UNCHANGED Gpu!vars
  BY <1>15 DEF Gpu!vars
<1> QED
  BY <1>1, <1>2, <1>3, <1>4, <1>5, <1>6, <1>7, <1>8, <1>9, <1>10, <1>11,
     <1>12, <1>13, <1>14, <1>15, Zenon DEF Gpu!Next

-----------------------------------------------------------------------------
(* The scenes.  A component moves by its own steps or not at all.          *)

LEMMA SceneSteps ==
  ASSUME [SceneNext]_sceneVars
  PROVE  /\ [File!Next]_(File!vars)
         /\ [Gpu!Next]_(Gpu!vars)
         /\ [Token!Next]_tokenVars
<1> USE DEF SceneNext, Scene, sceneVars
<1>1. UNCHANGED fileVars => UNCHANGED File!vars
  BY SMTT(30) DEF fileVars, File!vars, File!disk
<1>2. UNCHANGED gpuVars => UNCHANGED Gpu!vars
  BY DEF gpuVars, Gpu!vars, Gpu!disk, Gpu!process
<1> QED
  BY <1>1, <1>2, Zenon

\* In every state the file holds what a restart is due, unless the only copy is
\* being overwritten (WriteBinaryFileAtomic, EnsureLoadedLocked).
THEOREM FileInvariant == SceneSpec => []FileInv
<1>1. SceneInit => FileInv
  BY InitFileInv DEF SceneInit
<1>2. FileInv /\ [SceneNext]_sceneVars => FileInv'
  BY StepFileInv, SceneSteps
<1> QED
  BY <1>1, <1>2, PTL DEF SceneSpec

\* For any number of changes, saves that fail at any step and crashes at any
\* step, a restart loads a content that was saved last or was being saved.
THEOREM AccountsAreKept == SceneSpec => AccountsSurvive
<1>1. FileInv /\ [SceneNext]_sceneVars
      => [~accountsLoaded /\ accountsLoaded' /\ ~exposed
            => accounts' \in due]_(File!vars)
  <2> SUFFICES ASSUME FileInv, [SceneNext]_sceneVars,
                      ~accountsLoaded, accountsLoaded', ~exposed
               PROVE  accounts' \in due
    OBVIOUS
  <2>1. File!EnsureLoaded
    BY SceneSteps, Zenon
       DEF File!Next, File!Change, File!OpenTemp, File!WriteTemp,
           File!Replace, File!ReplaceLoses, File!ReplaceFails, File!Crash,
           File!Step, File!vars
  <2>2. accounts' = Shown
    BY <2>1, Zenon DEF File!EnsureLoaded, Shown
  <2> QED
    BY <2>2 DEF FileInv
<1> QED
  BY <1>1, FileInvariant, PTL
     DEF SceneSpec, AccountsSurvive, File!AccountsSurvive

\* A verdict has left the sentinel, or the setting it turned off, on disk.
THEOREM GpuInvariant == SceneSpec => []GpuInv
<1>1. SceneInit => GpuInv
  BY InitGpuInv DEF SceneInit
<1>2. GpuInv /\ [SceneNext]_sceneVars => GpuInv'
  BY StepGpuInv, SceneSteps
<1> QED
  BY <1>1, <1>2, PTL DEF SceneSpec

\* No launch publishes the acceleration that froze an earlier one until the
\* user touches the setting, in any order of launches, faults, kills, failed
\* writes and launches without the GPU (BrowserHwAccel::DecideAtBoot).
THEOREM FreezeIsRemembered == SceneSpec => []FreezeRemembered
<1>1. GpuInv => FreezeRemembered
  BY DEF GpuInv, FreezeRemembered, Gpu!FreezeRemembered
<1> QED
  BY GpuInvariant, <1>1, PTL

\* What FileInv leaves out.
FlagsInv == accountsLoaded \in BOOLEAN /\ exposed \in BOOLEAN

LEMMA StepFileFlags ==
  ASSUME FlagsInv, [File!Next]_(File!vars)
  PROVE  FlagsInv'
  BY Zenon
     DEF FlagsInv, File!Next, File!vars, File!Change, File!OpenTemp,
         File!WriteTemp, File!Replace, File!ReplaceLoses, File!ReplaceFails,
         File!Crash, File!EnsureLoaded, File!Step

\* The variables of the accounts' file and of the GPU probe range over what
\* their type invariants say.
THEOREM KeptTyped ==
  SceneSpec => [](File!AccountTypeOK /\ Gpu!GpuTypeOK)
<1>1. SceneInit => FlagsInv
  BY Zenon DEF SceneInit, File!Init, FlagsInv
<1>2. FlagsInv /\ [SceneNext]_sceneVars => FlagsInv'
  BY StepFileFlags, SceneSteps
<1>3. FileInv /\ FlagsInv => File!AccountTypeOK
  BY Zenon DEF FileInv, FlagsInv, File!AccountTypeOK
<1>4. GpuInv => Gpu!GpuTypeOK
  BY DEF GpuInv
<1> QED
  BY <1>1, <1>2, <1>3, <1>4, FileInvariant, GpuInvariant, PTL DEF SceneSpec

-----------------------------------------------------------------------------
(* The credential: MCKept's scene is a behaviour of TokenRefresh.          *)

TokenP == INSTANCE TokenRefreshProofs WITH pc <- workerPc, mine <- mutex

LEMMA SceneIsToken ==
  /\ SceneInit => TokenP!Init
  /\ [SceneNext]_sceneVars => [TokenP!Next]_(TokenP!vars)
<1>1. SceneInit => TokenP!Init
  BY DEF SceneInit, Token!Init, TokenP!Init, Token!Pairs, TokenP!Pairs,
         Token!None, TokenP!None, Token!NoAnswer, TokenP!NoAnswer
<1>2. Token!Next => TokenP!Next
  BY Zenon DEF
    Token!Pairs, TokenP!Pairs, Token!None, TokenP!None, Token!NoAnswer,
         TokenP!NoAnswer, Token!InvalidGrant, TokenP!InvalidGrant,
         Token!storeVars, TokenP!storeVars, Token!lockVars, TokenP!lockVars,
         Token!workerVars, TokenP!workerVars, Token!platformVars,
         TokenP!platformVars, Token!InFlight, TokenP!InFlight, Token!Begin,
         TokenP!Begin, Token!StillValid, TokenP!StillValid, Token!Returned,
         TokenP!Returned, Token!NoRefreshNeeded, TokenP!NoRefreshNeeded,
         Token!FlightLock, TokenP!FlightLock, Token!Reread, TokenP!Reread,
         Token!Answer, TokenP!Answer, Token!Rotate, TokenP!Rotate,
         Token!RefreshOnce, TokenP!RefreshOnce, Token!UpdateExisting,
         TokenP!UpdateExisting, Token!SetRefreshDead, TokenP!SetRefreshDead,
         Token!Land, TokenP!Land, Token!Send, TokenP!Send, Token!Grant,
         TokenP!Grant, Token!Put, TokenP!Put, Token!TeardownAccount,
         TokenP!TeardownAccount, Token!RevokeRoot, TokenP!RevokeRoot,
         Token!Age, TokenP!Age, Token!WorkerStep, TokenP!WorkerStep,
         Token!Next, TokenP!Next
<1>3. UNCHANGED tokenVars => UNCHANGED TokenP!vars
  BY DEF tokenVars, TokenP!vars, TokenP!storeVars, TokenP!lockVars,
         TokenP!workerVars, TokenP!platformVars
<1> QED
  BY <1>1, <1>2, <1>3, SceneSteps, Zenon

\* Of the pairs of the stored connect the platform accepts the one in the
\* record, or the one a refresh is about to write there, unless the platform
\* ended the connect itself: however many workers refresh it, whichever
\* answers get lost and however often the user connects again.
THEOREM CredentialAlwaysKept == SceneSpec => []CredentialKept
<1>1. TokenP!Spec => []TokenP!CredentialKept
  BY BoundsAssumption, TokenP!CredentialIsKept, SMTT(30)
<1>2. TokenP!CredentialKept => CredentialKept
  BY Zenon DEF TokenP!CredentialKept, CredentialKept, Token!CredentialKept,
         TokenP!None, Token!None, TokenP!OwnFlight, Token!OwnFlight,
         TokenP!InFlight, Token!InFlight
<1> QED
  BY <1>1, <1>2, SceneIsToken, PTL DEF SceneSpec, TokenP!Spec

\* An account reads signed out only when the platform refuses its token.
THEOREM DeadAlwaysDead == SceneSpec => []DeadIsDead
<1>1. TokenP!Spec => []TokenP!DeadIsDead
  BY BoundsAssumption, TokenP!DeadIsReallyDead
<1>2. TokenP!DeadIsDead => DeadIsDead
  BY DEF TokenP!DeadIsDead, DeadIsDead, Token!DeadIsDead, TokenP!None,
         Token!None
<1> QED
  BY <1>1, <1>2, SceneIsToken, PTL DEF SceneSpec, TokenP!Spec
=============================================================================
