------------------------------ MODULE EventFile ------------------------------
(***************************************************************************)
(* EventStore on disk: events.json, its temporary file and its backup,     *)
(* through debounced writes, removals that must reach the disk at once,    *)
(* writes that fail at any step, crashes at any step, and restarts.        *)
(*                                                                         *)
(* The content of the store is the number of the change that made it.  Two *)
(* threads write: "worker" stands for the event and chat workers, which    *)
(* EventHub's admitMutex_ serialises, "ui" for the UI thread.  What the    *)
(* process wrote survives a crash of the process; a file that was written  *)
(* completely reads back.                                                  *)
(***************************************************************************)
EXTENDS Integers

CONSTANTS
    MaxVer,     \* changes of the store a behaviour may make
    SlowWrite   \* whether a write may outlast the debounce interval

ASSUME VersionAssumption == MaxVer \in Nat

Writers == {"worker", "ui"}
Versions == 0..MaxVer

\* A file that is missing, and one that holds an unfinished write.
Absent == -1
Torn == -2
Disk == Versions \cup {Absent, Torn}

VARIABLES
    up,         \* the store is loaded
    mem,        \* content of events_
    seq,        \* seq_: write epoch
    dirty,      \* dirty_
    filePc,     \* filePc[t]: where t is in Persist or Load
    snap,       \* snap[t]: content t is writing
    epoch,      \* epoch[t]: its epoch
    writer,     \* holder of writeMutex_, "none" for none
    written,    \* lastWrittenSeq_
    outcome,    \* what the writer's save comes to
    file, tmp, bak,
    top,        \* ghost: changes made so far
    recent      \* ghost: contents a restart may show

disk == <<file, tmp, bak>>
store == <<up, mem, seq, dirty>>
fileVars == <<store, filePc, snap, epoch, writer, written, outcome, disk, top,
              recent>>

FileInit ==
    /\ up = TRUE
    /\ mem = 0
    /\ seq = 0
    /\ dirty = FALSE
    /\ filePc = [t \in Writers |-> "idle"]
    /\ snap = [t \in Writers |-> 0]
    /\ epoch = [t \in Writers |-> 0]
    /\ writer = "none"
    /\ written = 0
    /\ outcome = "none"
    /\ file = Absent /\ tmp = Absent /\ bak = Absent
    /\ top = 0
    /\ recent = {0}

Loads(f) == f >= 0

-----------------------------------------------------------------------------
(* Changes of the store, under mutex_.                                     *)

WriterFree(t) == up /\ filePc[t] = "idle"

\* t takes content v, of epoch s, to Persist.
Snapshot(t, v, s) ==
    /\ filePc' = [filePc EXCEPT ![t] = "persist"]
    /\ snap' = [snap EXCEPT ![t] = v]
    /\ epoch' = [epoch EXCEPT ![t] = s]
    /\ dirty' = FALSE
    /\ recent' = recent \cup {v}

Change ==
    /\ top < MaxVer
    /\ top' = top + 1
    /\ mem' = top'

\* Add inside the debounce interval, or of a stored event that takes up ids.
AddLater ==
    /\ WriterFree("worker")
    /\ Change
    /\ dirty' = TRUE
    /\ UNCHANGED <<up, seq, filePc, snap, epoch, writer, written, outcome,
                   disk, recent>>

\* Add when the last snapshot was taken an interval ago.
AddNow ==
    /\ WriterFree("worker")
    /\ SlowWrite \/ \A t \in Writers : filePc[t] = "idle"
    /\ Change
    /\ Snapshot("worker", mem', seq)
    /\ UNCHANGED <<up, seq, writer, written, outcome, disk>>

\* RedactMessages on a worker; Clear, PurgeAccount and PruneExpired on the UI
\* thread: NewEpochSnapshotLocked opens an epoch of its own.
Remove(t) ==
    /\ WriterFree(t)
    /\ Change
    /\ seq' = seq + 1
    /\ Snapshot(t, mem', seq')
    /\ UNCHANGED <<up, writer, written, outcome, disk>>

Flush ==
    /\ WriterFree("ui")
    /\ dirty
    /\ Snapshot("ui", mem, seq)
    /\ UNCHANGED <<up, mem, seq, writer, written, outcome, disk, top>>

-----------------------------------------------------------------------------
(* Persist: WriteToDisk under writeMutex_, and dirty_ again if it failed.  *)

\* A snapshot that a later epoch superseded is dropped.
WriteToDisk(t) ==
    /\ filePc[t] = "persist"
    /\ writer = "none"
    /\ IF epoch[t] < written
       THEN /\ filePc' = [filePc EXCEPT ![t] = "idle"]
            /\ UNCHANGED <<writer, written>>
       ELSE /\ filePc' = [filePc EXCEPT ![t] = "open"]
            /\ writer' = t
            /\ written' = epoch[t]
    /\ UNCHANGED <<store, snap, epoch, outcome, disk, top, recent>>

Step(t, from, to) ==
    /\ filePc[t] = from
    /\ filePc' = [filePc EXCEPT ![t] = to]
    /\ UNCHANGED <<store, snap, epoch, writer, written, top, recent>>

\* os_quick_write_utf8_file of the temporary file: opening truncates it.
OpenTmp(t) ==
    \/ /\ Step(t, "open", "fill")
       /\ tmp' = Torn
       /\ UNCHANGED <<file, bak, outcome>>
    \/ /\ Step(t, "open", "failed")
       /\ UNCHANGED <<disk, outcome>>

FillTmp(t) ==
    \/ /\ Step(t, "fill", "replace")
       /\ tmp' = snap[t]
       /\ UNCHANGED <<file, bak, outcome>>
    \/ /\ Step(t, "fill", "failed")
       /\ UNCHANGED <<disk, outcome>>

\* os_safe_replace: the old file becomes the backup, the new one the file.
Replace(t) ==
    /\ Step(t, "replace", "backup")
    /\ file' = tmp
    /\ tmp' = Absent
    /\ bak' = IF file = Absent THEN bak ELSE file
    /\ outcome' = "saved"

\* Mutant: no backup is named, so the old file is gone.
ReplaceMovesAway(t) ==
    /\ file # Absent
    /\ Step(t, "replace", "replace")
    /\ file' = Absent
    /\ UNCHANGED <<tmp, bak, outcome>>

\* An attempt that fails after it moved the old file; it may be repeated.
ReplaceMoves(t) ==
    /\ file # Absent
    /\ Step(t, "replace", "replace")
    /\ bak' = file
    /\ file' = Absent
    /\ UNCHANGED <<tmp, outcome>>

ReplaceGivesUp(t) ==
    /\ Step(t, "replace", "failed")
    /\ UNCHANGED <<disk, outcome>>

\* Mutant: whatever was moved into place counts as this save.
TmpIsAnySave(t) == TRUE

\* tmpIsThisSave
TmpIsThisSave(t) == tmp = snap[t]

\* DropStoreHistory, after a save failed and before a load.
DropStoreHistory(t) ==
    LET result == IF filePc[t] = "boot" THEN "load" ELSE "failed" IN
    \/ /\ file = Absent /\ Loads(tmp)
       /\ Step(t, filePc[t], "clean")
       /\ file' = tmp
       /\ tmp' = Absent
       /\ outcome' = IF result = "failed" /\ TmpIsThisSave(t) THEN "saved"
                     ELSE result
       /\ UNCHANGED bak
    \/ /\ file = Absent \* nothing to move into place, or the move failed
       /\ Step(t, filePc[t], "done")
       /\ outcome' = result
       /\ UNCHANGED disk
    \/ /\ file # Absent
       /\ Step(t, filePc[t], IF Loads(file) THEN "clean" ELSE "done")
       /\ outcome' = result
       /\ UNCHANGED disk

DropHistory(t) == filePc[t] \in {"failed", "boot"} /\ DropStoreHistory(t)

\* The temporary file is removed, or stays.
Clean(t) ==
    /\ Step(t, "clean", "backup")
    /\ tmp' \in {tmp, Absent}
    /\ UNCHANGED <<file, bak, outcome>>

\* ReplaceBackupWithCurrent: copy, or else remove, or else leave.
Backup(t) ==
    \/ /\ Step(t, "backup", "copy")
       /\ bak' = Torn
       /\ UNCHANGED <<file, tmp, outcome>>
    \/ /\ Step(t, "backup", "done")
       /\ bak' \in {bak, Absent}
       /\ UNCHANGED <<file, tmp, outcome>>

Copy(t) ==
    /\ Step(t, "copy", "done")
    /\ bak' \in {file, Absent, Torn}
    /\ UNCHANGED <<file, tmp, outcome>>

\* WriteToDisk returns.
Written(t) ==
    /\ filePc[t] = "done"
    /\ outcome \in {"saved", "failed"}
    /\ writer' = "none"
    /\ outcome' = "none"
    /\ filePc' = [filePc EXCEPT ![t] = IF outcome = "saved" THEN "idle"
                               ELSE "retry"]
    /\ recent' = IF outcome = "saved" THEN {v \in recent : v >= snap[t]}
                 ELSE recent
    /\ UNCHANGED <<store, snap, epoch, written, disk, top>>

MarkDirty(t) ==
    /\ filePc[t] = "retry"
    /\ filePc' = [filePc EXCEPT ![t] = "idle"]
    /\ dirty' = TRUE
    /\ UNCHANGED <<up, mem, seq, snap, epoch, writer, written, outcome, disk,
                   top, recent>>

-----------------------------------------------------------------------------
(* Crash and restart.                                                      *)

Crash ==
    /\ up' = FALSE
    /\ mem' = 0 /\ seq' = 0 /\ dirty' = FALSE
    /\ filePc' = [t \in Writers |-> IF t = "ui" THEN "boot" ELSE "idle"]
    /\ snap' = [t \in Writers |-> 0]
    /\ epoch' = [t \in Writers |-> 0]
    /\ writer' = "none" /\ written' = 0 /\ outcome' = "none"
    /\ UNCHANGED <<disk, top, recent>>

\* obs_data_create_from_json_file_safe: the file, or else the backup.
Load ==
    /\ filePc["ui"] = "done" /\ outcome = "load"
    /\ IF Loads(file) \/ bak = Absent
       THEN UNCHANGED <<file, bak>>
       ELSE file' = bak /\ bak' = Absent
    /\ mem' = IF Loads(file') THEN file' ELSE 0
    /\ up' = TRUE
    /\ filePc' = [filePc EXCEPT !["ui"] = "idle"]
    /\ outcome' = "none"
    /\ recent' = {v \in recent : v >= mem'}
    /\ UNCHANGED <<seq, dirty, snap, epoch, writer, written, tmp, top>>

-----------------------------------------------------------------------------
(* The specification.                                                      *)

WriteStep(t) ==
    \/ WriteToDisk(t)
    \/ OpenTmp(t)
    \/ FillTmp(t)
    \/ Replace(t)
    \/ ReplaceMoves(t)
    \/ ReplaceGivesUp(t)
    \/ DropHistory(t)
    \/ Clean(t)
    \/ Backup(t)
    \/ Copy(t)
    \/ Written(t)
    \/ MarkDirty(t)

FileNext ==
    \/ AddLater
    \/ AddNow
    \/ Flush
    \/ Crash
    \/ Load
    \/ \E t \in Writers : Remove(t) \/ WriteStep(t)

FileSpec == FileInit /\ [][FileNext]_fileVars

-----------------------------------------------------------------------------
(* Properties.                                                             *)

\* Every variable ranges over the values the code can give it.
FileTypeOK ==
    /\ up \in BOOLEAN /\ dirty \in BOOLEAN
    /\ mem \in Versions /\ seq \in Versions /\ written \in Versions
    /\ top \in Versions
    /\ filePc \in [Writers -> {"idle", "persist", "open", "fill", "replace",
                           "failed", "boot", "clean", "backup", "copy",
                           "done", "retry"}]
    /\ snap \in [Writers -> Versions] /\ epoch \in [Writers -> Versions]
    /\ writer \in Writers \cup {"none"}
    /\ outcome \in {"none", "saved", "failed", "load"}
    /\ file \in Disk /\ tmp \in Disk /\ bak \in Disk
    /\ recent \subseteq Versions

\* What a save reported to be on disk is never undone by a crash: a restart
\* loads the content of the last save that returned true or a later one, and
\* so brings back no event and no words a removal took, not from the backup,
\* not from a leftover temporary file, not from an older snapshot that was
\* written late (WriteToDisk, SaveJsonAtomicDroppingHistory, Load).
LoadIsRecent == [][~up /\ up' => mem' \in recent]_fileVars

\* Nothing is forgotten: with no write under way and the store not marked
\* dirty, the file holds what the store holds, whichever writes failed and
\* whichever overtook each other (Persist, dirty_).
FileCurrent ==
    up /\ (\A t \in Writers : filePc[t] = "idle") /\ ~dirty /\ mem # 0 =>
        file = mem
=============================================================================
