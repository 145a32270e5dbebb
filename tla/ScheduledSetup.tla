--------------------------- MODULE ScheduledSetup ---------------------------
(***************************************************************************)
(* ScheduledSetup (frontend/src/history): loads a scheduled entry into the *)
(* routing and the remembered metadata for one broadcast and puts back     *)
(* what it changed.  The runner, schedule.stageRouting and                 *)
(* schedule.unstageRouting and the live edge call it, all on the UI        *)
(* thread; between two calls the user edits the same configuration and     *)
(* broadcasts start and end.                                               *)
(*                                                                         *)
(* mine, mineBag and edited are bookkeeping of the properties: what the    *)
(* user last asked for, and what they changed since the last application.  *)
(***************************************************************************)
EXTENDS SetupOperators

VARIABLES
    config,      \* the configuration and ScheduledSetup's records of it
    streaming,   \* isStreaming: outputs are up or a go-live prelude runs
    loaded,      \* profiles the loaded entry names, none without one
    mine,        \* bindings the user wants switched on
    mineBag,     \* mineBag[p]: bag the user wants remembered for p
    edited,      \* bindings the user switched or removed since the application
    editedBag    \* profiles whose bag the user wrote since the application

userVars == <<mine, mineBag, edited, editedBag>>
vars == <<config, streaming, loaded, userVars>>

\* Types; a binding that is switched on exists.
TypeOK ==
    /\ config \in Config
    /\ config.enabled \subseteq config.present
    /\ streaming \in BOOLEAN
    /\ loaded \in SUBSET Profile
    /\ mine \in SUBSET Binding
    /\ mineBag \in [Profile -> Bag]
    /\ edited \in SUBSET Binding
    /\ editedBag \in SUBSET Profile

\* The stores as launch loaded them: a bindings file may enable one profile
\* twice, OutputBindings::FromDataArray does not check.
Init ==
    /\ \E on \in SUBSET Binding, b \in Bag :
         config = [present |-> Binding, enabled |-> on, touched |-> {},
                   applied |-> FALSE, bag |-> [p \in Profile |-> b],
                   planned |-> {},
                   before |-> [p \in Profile |-> NoFields],
                   after |-> [p \in Profile |-> NoFields]]
    /\ streaming = FALSE
    /\ loaded = {}
    /\ mine = config.enabled
    /\ mineBag = config.bag
    /\ edited = {}
    /\ editedBag = {}

\* The user's choices once `c` was put back: an edit the application no longer
\* holds a record against stands as it is.
Settle(c) ==
    /\ mine' = (mine \ (edited \ c.touched))
                 \cup ((edited \ c.touched) \cap c.enabled)
    /\ mineBag' = [p \in Profile |-> IF p \in editedBag THEN c.bag[p]
                                                        ELSE mineBag[p]]
    /\ edited' = edited \cap c.touched
    /\ editedBag' = {}

-----------------------------------------------------------------------------
(* The entry points of ScheduledSetup.                                     *)

\* ScheduleRunner::applyEntry.
ApplyEntry(e) ==
    /\ ~ streaming
    /\ LET c == Unstacked(config)
       IN \E taken \in SUBSET Unwanted(c, e) :
            /\ config' = Apply(config, e, taken)
            /\ loaded' = IF Narrows(c, e, taken) THEN e.names ELSE {}
            /\ Settle(c)
    /\ UNCHANGED streaming

\* schedule.stageRouting.
StageRouting(e) ==
    /\ ~ streaming
    /\ LET c == Unstacked(config)
       IN \E taken \in SUBSET Unwanted(c, e) :
            /\ config' = ApplyRouting(config, e, taken)
            /\ loaded' = IF Narrows(c, e, taken) THEN e.names ELSE {}
            /\ Settle(c)
    /\ UNCHANGED streaming

\* ScheduleRunner::revertEntry, schedule.unstageRouting, the stop edge.
RevertSetup ==
    /\ config' = Revert(config, streaming)
    /\ IF streaming /\ Outstanding(config)
         THEN UNCHANGED <<loaded, userVars>>
         ELSE loaded' = {} /\ Settle(config')
    /\ UNCHANGED streaming

-----------------------------------------------------------------------------
(* The user and the broadcast.                                             *)

\* outputBinding.setEnabled with a value the binding does not hold yet.
SetEnabled(b, on) ==
    /\ b \in config.present
    /\ on # (b \in config.enabled)
    /\ on => ~ ProfileEnabledElsewhere(config, b)
    /\ config' = [config EXCEPT !.enabled = IF on THEN @ \cup {b} ELSE @ \ {b}]
    /\ mine' = IF on THEN mine \cup {b} ELSE mine \ {b}
    /\ edited' = edited \cup {b}
    /\ UNCHANGED <<streaming, loaded, mineBag, editedBag>>

\* outputBinding.remove.
RemoveBinding(b) ==
    /\ b \in config.present
    /\ config' = [config EXCEPT !.present = @ \ {b}, !.enabled = @ \ {b}]
    /\ mine' = mine \ {b}
    /\ edited' = edited \cup {b}
    /\ UNCHANGED <<streaming, loaded, mineBag, editedBag>>

\* streamMeta: the user's own stream override.
PutStreamOverride(p, bag) ==
    /\ config.bag[p] # bag
    /\ config' = [config EXCEPT !.bag = [@ EXCEPT ![p] = bag]]
    /\ mineBag' = [mineBag EXCEPT ![p] = bag]
    /\ editedBag' = editedBag \cup {p}
    /\ UNCHANGED <<streaming, loaded, mine, edited>>

\* A go-live begins, from the schedule or by hand; everything it brought up
\* ended.
GoLive == ~ streaming /\ streaming' = TRUE /\ UNCHANGED <<config, loaded, userVars>>

GoOffline == streaming /\ streaming' = FALSE /\ UNCHANGED <<config, loaded, userVars>>

Next ==
    \/ \E e \in Entry : ApplyEntry(e) \/ StageRouting(e)
    \/ RevertSetup
    \/ \E b \in Binding, on \in BOOLEAN : SetEnabled(b, on)
    \/ \E b \in Binding : RemoveBinding(b)
    \/ \E p \in Profile, bag \in Bag : PutStreamOverride(p, bag)
    \/ GoLive
    \/ GoOffline

Spec == Init /\ [][Next]_vars

-----------------------------------------------------------------------------
(* Properties.                                                             *)

\* Every binding reads as the user left it, except one the application took
\* off the air: the user wants that one on and a record of it is held, so a
\* restore still finds it.
RoutingOwed ==
    \A b \in config.present \ edited :
        IF b \in config.touched THEN b \in mine /\ b \notin config.enabled
                                ELSE b \in config.enabled <=> b \in mine

\* Every bag reads as the user left it, except one the application merged
\* over: the plan still holds the user's bag.
MetadataOwed ==
    \A p \in Profile \ editedBag :
        IF p \in config.planned
          THEN config.before[p] = mineBag[p] /\ config.bag[p] = config.after[p]
          ELSE config.bag[p] = mineBag[p]

\* While an entry is loaded only destinations it names are on, except what the
\* user switched on themselves: it never widens and never half-applies.
LoadedNarrows ==
    loaded # {} => \A b \in config.enabled \ edited : ProfileOf[b] \in loaded

\* While a broadcast is running no binding is switched and no remembered bag is
\* rewritten except by an edit of the user's.
StreamingUntouched ==
    [][streaming =>
         /\ \A b \in Binding : (b \in config'.enabled) # (b \in config.enabled)
                                => b \in edited'
         /\ \A p \in Profile : config'.bag[p] # config.bag[p] => p \in editedBag']_vars
=============================================================================
