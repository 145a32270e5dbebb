----------------------------- MODULE AccountFile -----------------------------
(***************************************************************************)
(* AccountStore on disk: oauth_tokens.json, which holds every linked       *)
(* account, and the temporary file it is written through, with writes and  *)
(* replaces that fail at any step, crashes at any step, and restarts.      *)
(*                                                                         *)
(* The content of the store is the number of the change that made it.      *)
(* Every operation of the store runs under mutex_, so one save at a time   *)
(* is under way.  No backup is kept.  A file that was written completely   *)
(* reads back and unwraps; one that was not does not unwrap.               *)
(***************************************************************************)
EXTENDS Integers

CONSTANT MaxChanges     \* changes of the store a behaviour may make

Contents == 0..MaxChanges

\* A file that is missing, and one that holds an unfinished write.
Missing == -1
Partial == -2
Files == Contents \cup {Missing, Partial}

VARIABLES
    loaded,     \* loaded_, in a process that is running
    accounts,   \* content of accounts_
    pc,         \* where the operation that holds mutex_ is
    target,     \* oauth_tokens.json
    temp,       \* oauth_tokens.json.tmp
    changes,    \* ghost: changes made so far
    due,        \* ghost: contents a restart may show
    exposed     \* ghost: a save is overwriting the only copy

disk == <<target, temp>>
vars == <<loaded, accounts, pc, disk, changes, due, exposed>>

Init ==
    /\ loaded = TRUE
    /\ accounts = 0
    /\ pc = "idle"
    /\ target = Missing /\ temp = Missing
    /\ changes = 0
    /\ due = {0}
    /\ exposed = FALSE

Whole(f) == f >= 0

-----------------------------------------------------------------------------
(* SaveLocked and WriteBinaryFileAtomic.                                   *)

\* Put, UpdateExisting, Remove and the field-scoped updates change a record
\* and save; a save whose DPAPI wrap fails writes nothing.
Change ==
    /\ loaded /\ pc = "idle"
    /\ changes < MaxChanges
    /\ changes' = changes + 1
    /\ accounts' = changes'
    /\ due' = due \cup {accounts'}
    /\ pc' \in {"open", "idle"}
    /\ UNCHANGED <<loaded, disk, exposed>>

Step(from, to) ==
    /\ pc = from
    /\ pc' = to
    /\ UNCHANGED <<loaded, accounts, changes>>

\* CREATE_ALWAYS truncates whatever the temporary file held.
OpenTemp ==
    \/ /\ Step("open", "write")
       /\ temp' = Partial
       /\ exposed' = (exposed \/ (target = Missing /\ Whole(temp)))
       /\ UNCHANGED <<target, due>>
    \/ Step("open", "idle") /\ UNCHANGED <<disk, due, exposed>>

\* WriteAllAndFlush; a temporary file that could not be written is deleted,
\* unless that fails too.
WriteTemp ==
    \/ /\ Step("write", "replace")
       /\ temp' = accounts
       /\ exposed' = FALSE
       /\ UNCHANGED <<target, due>>
    \/ /\ Step("write", "idle")
       /\ temp' \in {Missing, Partial}
       /\ UNCHANGED <<target, due, exposed>>

\* os_safe_replace: ReplaceFileW, or a plain move when nothing is there.
Replace ==
    /\ Step("replace", "idle")
    /\ target' = temp
    /\ temp' = Missing
    /\ due' = {accounts}
    /\ UNCHANGED exposed

\* ERROR_UNABLE_TO_MOVE_REPLACEMENT: the attempt deleted the previous file
\* and failed.  It may be repeated.
ReplaceLoses ==
    /\ target # Missing
    /\ Step("replace", "replace")
    /\ target' = Missing
    /\ UNCHANGED <<temp, due, exposed>>

\* Mutant: a failed replace always deletes the temporary file.
ReplaceFailsClean ==
    /\ Step("replace", "idle")
    /\ temp' \in {Missing, temp}
    /\ UNCHANGED <<target, due, exposed>>

\* ReplaceFailed: the temporary file goes only while the target is there.
ReplaceFails ==
    /\ Step("replace", "idle")
    /\ temp' \in IF target # Missing THEN {Missing, temp} ELSE {temp}
    /\ UNCHANGED <<target, due, exposed>>

-----------------------------------------------------------------------------
(* Crash and restart.                                                      *)

Crash ==
    /\ loaded' = FALSE
    /\ accounts' = 0
    /\ pc' = "idle"
    /\ UNCHANGED <<disk, changes, due, exposed>>

\* EnsureLoadedLocked: the target, and the temporary file beside it goes; or
\* the temporary file when there is no target, moved into place if it can be.
EnsureLoaded ==
    /\ ~loaded
    /\ loaded' = TRUE
    /\ IF target # Missing
       THEN /\ accounts' = target
            /\ temp' \in {Missing, temp}
            /\ UNCHANGED target
       ELSE /\ accounts' = IF Whole(temp) THEN temp ELSE 0
            /\ \/ Whole(temp) /\ target' = temp /\ temp' = Missing
               \/ UNCHANGED disk
    /\ due' = {accounts'}
    /\ exposed' = FALSE
    /\ UNCHANGED <<pc, changes>>

-----------------------------------------------------------------------------
(* The specification.                                                      *)

Next ==
    \/ Change
    \/ OpenTemp
    \/ WriteTemp
    \/ Replace
    \/ ReplaceLoses
    \/ ReplaceFails
    \/ Crash
    \/ EnsureLoaded

Spec == Init /\ [][Next]_vars

-----------------------------------------------------------------------------
(* Properties.                                                             *)

\* Every variable ranges over the values the code can give it.
AccountTypeOK ==
    /\ loaded \in BOOLEAN /\ exposed \in BOOLEAN
    /\ accounts \in Contents /\ changes \in Contents
    /\ pc \in {"idle", "open", "write", "replace"}
    /\ target \in Files /\ temp \in Files
    /\ due \subseteq Contents

\* A restart loads the last save that reported Ok, or one that was under way
\* or failed after it: never nothing, never an older one in which a removed
\* account is back, although no backup is kept (WriteBinaryFileAtomic,
\* EnsureLoadedLocked).  The exception: after a replace that deleted the
\* target for good, the next save truncates the temporary file, which then
\* held the only copy.
AccountsSurvive ==
    [][~loaded /\ loaded' /\ ~exposed => accounts' \in due]_vars
=============================================================================
