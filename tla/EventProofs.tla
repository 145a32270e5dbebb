----------------------------- MODULE EventProofs -----------------------------
(***************************************************************************)
(* Proofs about events.  The transports of one account, for any number of  *)
(* restarts: no generation escapes being told to stop, and Shutdown leaves *)
(* nothing behind.  The store and its files, for any number of changes: no *)
(* change is forgotten, and no crash undoes what a save reported.          *)
(***************************************************************************)
EXTENDS EventHub, EventFile, TLAPS

-----------------------------------------------------------------------------
(* The transports.                                                         *)

\* g was told to stop, or somebody can still tell it.
Owned(g) == g \in stopped \/ g = hubActive \/ \E t \in Threads : old[t] = g

\* What StartAccount, StopAccount and StopAll hold at each point.  Generation
\* 0 stands for none and has no worker; a worker that reports has something to
\* say.
LocalsInv ==
    /\ gens \in Nat
    /\ \A t \in Threads :
          /\ hubPc[t] \in {"displace", "signal"} <=> old[t] # 0
          /\ hubPc[t] \in {"displace", "spawn"} => new[t] # 0 /\ Owned(new[t])
    /\ \A g \in HubGens :
          /\ wpc[g] # "none" => g # 0
          /\ wpc[g] \in {"check", "report"} => say[g] # "none"

\* The stages of Shutdown: the UI thread starts nothing once it has begun, and
\* what was drained stays so.
StagesInv ==
    /\ hubPc["ui"] \in {"start", "displace", "spawn"} => life = "up"
    /\ life \in {"drained", "stoppedAgain", "down"} /\ ~timedOut => Drained
    /\ life = "down" => hubPc["ui"] = "idle"
    /\ life = "down" /\ ~timedOut => row = "none"

\* The inductive invariant.
HubInv ==
    /\ HubTypeOK
    /\ LocalsInv
    /\ EveryGenerationReachable
    /\ StagesInv

-----------------------------------------------------------------------------

LEMMA InitHubInv == HubInit => HubInv
<1> SUFFICES ASSUME HubInit PROVE HubInv
  OBVIOUS
<1> USE DEF HubInit, Threads
<1>1. HubTypeOK
  BY Zenon DEF HubTypeOK
<1>2. LocalsInv
  BY DEF LocalsInv
<1>3. EveryGenerationReachable
  BY DEF EveryGenerationReachable
<1>4. StagesInv
  BY DEF StagesInv
<1> QED
  BY <1>1, <1>2, <1>3, <1>4 DEF HubInv

LEMMA StutterHubInv == HubInv /\ UNCHANGED hubVars => HubInv'
  BY DEF HubInv, HubTypeOK, LocalsInv, EveryGenerationReachable, StagesInv,
         Owned, Drained, Canceled, hubVars, workerVars, threadVars

\* StartAccount, on either thread.
LEMMA ThreadStepHubInv ==
  ASSUME NEW t \in Threads, HubInv, ThreadStep(t)
  PROVE  HubInv'
<1> USE DEF HubInv, HubTypeOK, LocalsInv, EveryGenerationReachable, StagesInv,
            Threads, Owned, Drained, Canceled, workerVars, threadVars
<1>1. CASE Install(t)
  BY <1>1 DEF Install
<1>2. CASE Signal(t)
  BY <1>2 DEF Signal
<1>3. CASE Spawn(t)
  BY <1>3, SMTT(30) DEF Spawn
<1> QED
  BY <1>1, <1>2, <1>3 DEF ThreadStep

\* The UI thread: boot, teardown and shutdown; and a connect worker.
LEMMA UiStepHubInv ==
  ASSUME HubInv,
         \/ ConnectSucceeds \/ Boot \/ StopAccount
         \/ Terminal \/ ShutdownStep
  PROVE  HubInv'
<1> USE DEF HubInv, HubTypeOK, LocalsInv, EveryGenerationReachable, StagesInv,
            Threads, Owned, Drained, Canceled, workerVars, threadVars
<1>1. CASE ConnectSucceeds
  BY <1>1 DEF ConnectSucceeds
<1>2. CASE Boot
  BY <1>2 DEF Boot
<1>3. CASE StopAccount
  BY <1>3 DEF StopAccount, Take
<1>4. CASE Terminal
  BY <1>4 DEF Terminal
<1>5. CASE ShutdownStops("up", "stopping")
  BY <1>5 DEF ShutdownStops, Take
<1>6. CASE WaitForDrain
  BY <1>6, ZenonT(30) DEF WaitForDrain
<1>7. CASE ShutdownStops("drained", "stoppedAgain")
  BY <1>7 DEF ShutdownStops, Take
<1>8. CASE ShutdownClears
  BY <1>8 DEF ShutdownClears
<1> QED
  BY <1>1, <1>2, <1>3, <1>4, <1>5, <1>6, <1>7, <1>8 DEF ShutdownStep

\* A generation's worker: it moves on only while it runs, and never revives.
LEMMA WorkerStepHubInv ==
  ASSUME NEW g \in HubGens, HubInv, WorkerStep(g)
  PROVE  HubInv'
<1> USE DEF HubInv, HubTypeOK, LocalsInv, EveryGenerationReachable, StagesInv,
            Threads, Owned, Drained, Canceled, workerVars, threadVars,
            HubWorker
<1>1. CASE Backfill(g)
  BY <1>1 DEF Backfill
<1>2. CASE CheckStop(g)
  BY <1>2 DEF CheckStop, After
<1>3. CASE Report(g)
  BY <1>3 DEF Report, After
<1>4. CASE Loop(g)
  BY <1>4 DEF Loop, Quits
<1>5. CASE Connected(g)
  BY <1>5 DEF Connected
<1>6. CASE Returned(g)
  BY <1>6 DEF Returned, Quits
<1>7. CASE Sleep(g)
  BY <1>7 DEF Sleep, Quits
<1> QED
  BY <1>1, <1>2, <1>3, <1>4, <1>5, <1>6, <1>7 DEF WorkerStep

\* The invariant above holds in every state of EventHub.
THEOREM HubInvariant == HubSpec => []HubInv
<1>1. HubInv /\ [HubNext]_hubVars => HubInv'
  BY StutterHubInv, ThreadStepHubInv, UiStepHubInv, WorkerStepHubInv
     DEF HubNext
<1> QED
  BY InitHubInv, <1>1, PTL DEF HubSpec

-----------------------------------------------------------------------------

\* For any number of generations, one that runs and was not told to stop is
\* the active one or about to be told (EventHub::StartAccount's one lock).
THEOREM GenerationsReachable == HubSpec => []EveryGenerationReachable
  BY HubInvariant, PTL DEF HubInv

\* Bridge::Shutdown leaves no transport, no connect worker and no row behind,
\* unless its drain gave up.
THEOREM ShutdownQuiet == HubSpec => []DownIsQuiet
<1>1. HubInv => DownIsQuiet
  BY DEF HubInv, StagesInv, DownIsQuiet
<1> QED
  BY HubInvariant, <1>1, PTL

-----------------------------------------------------------------------------
(* The store and its files.                                                *)

USE VersionAssumption

\* A thread inside WriteToDisk.
Writing == {"open", "fill", "replace", "failed", "clean", "backup", "copy",
            "done"}

\* Types without the flags, and what each program point knows.
StoreInv ==
    /\ top \in Versions /\ mem \in 0..top /\ seq \in 0..top
    /\ written \in 0..seq
    /\ filePc \in
          [Writers -> {"idle", "persist", "boot", "retry"} \cup Writing]
    /\ snap \in [Writers -> 0..top] /\ epoch \in [Writers -> 0..seq]
    /\ writer \in Writers \cup {"none"}
    /\ outcome \in {"none", "saved", "failed", "load"}
    /\ file \in 0..top \cup {Absent}
    /\ tmp \in 0..top \cup {Absent, Torn} /\ bak \in 0..top \cup {Absent, Torn}

\* The write in progress is the holder's of writeMutex_; a start-up has none.
WriterInv ==
    /\ up => /\ \A t \in Writers : filePc[t] \in Writing <=> writer = t
             /\ \A t \in Writers : filePc[t] # "boot"
             /\ writer = "none" => outcome = "none"
             /\ outcome # "load"
    /\ ~up => /\ writer = "none" /\ filePc["worker"] = "idle"
              /\ filePc["ui"] \in {"boot", "clean", "backup", "copy", "done"}
              /\ filePc["ui"] # "boot" => outcome = "load"
    /\ \A t \in Writers :
         /\ writer = t => written = epoch[t]
         /\ filePc[t] \in {"open", "fill", "replace", "failed"} =>
              outcome = "none"
         /\ filePc[t] \in {"clean", "backup", "copy", "done"} =>
              outcome # "none"

\* What the writer has done to the files.
DiskInv ==
    /\ file = Absent => bak # Torn
    /\ \A t \in Writers :
         /\ filePc[t] = "replace" => tmp = snap[t]
         /\ filePc[t] \in {"clean", "backup", "copy"} => Loads(file)
         /\ writer = t /\ outcome = "saved" => file = snap[t]

\* A later epoch has a later content, and one epoch one content.
EpochInv ==
    /\ \A t \in Writers : filePc[t] # "idle" => snap[t] <= mem
    /\ filePc["worker"] # "idle" /\ epoch["worker"] = seq =>
         snap["worker"] = mem
    /\ \A t, u \in Writers :
         filePc[t] # "idle" /\ filePc[u] # "idle" /\ epoch[t] <= epoch[u] =>
            snap[t] <= snap[u]

\* A restart may find v.
MayLoad(v) ==
    \/ Loads(file) /\ v = file
    \/ file = Absent /\ Loads(tmp) /\ v = tmp
    \/ file = Absent /\ v = IF Loads(bak) THEN bak ELSE 0

\* Whatever is or may come to be on disk is as recent as the last save that
\* returned true.
RecentInv ==
    /\ \A v \in Versions : MayLoad(v) => v \in recent
    /\ \A t \in Writers :
         /\ filePc[t] = "persist" /\ epoch[t] >= written => snap[t] \in recent
         /\ up /\ filePc[t] \in Writing => snap[t] \in recent

\* A snapshot that WriteToDisk will not drop as superseded.
Awaits(t) == filePc[t] = "persist" /\ epoch[t] >= written

\* The file holds the store's content, and no write will replace it by another.
Settled ==
    /\ writer = "none" /\ file = mem
    /\ \A t \in Writers : Awaits(t) => snap[t] = mem

\* The store's content is on disk, on its way there, or known to be missing.
CurrentInv ==
    up /\ mem # 0 =>
        \/ dirty
        \/ \E t \in Writers : filePc[t] = "retry"
        \/ \E t \in Writers : Awaits(t) /\ snap[t] = mem
        \/ \E t \in Writers : writer = t /\ snap[t] = mem
        \/ Settled

\* The inductive invariant.
FileInv ==
    /\ StoreInv
    /\ WriterInv
    /\ DiskInv
    /\ EpochInv
    /\ RecentInv
    /\ CurrentInv

-----------------------------------------------------------------------------
(* One lemma for each action.                                              *)

LEMMA AddLaterFileInv ==
  ASSUME ~SlowWrite, FileInv, AddLater
  PROVE  FileInv'
<1> USE DEF FileInv, StoreInv, Writers, Versions, Absent, Torn, Loads,
            Writing, AddLater, WriterFree, Change, disk
<1>1. StoreInv'
  OBVIOUS
<1>2. WriterInv'
  BY DEF WriterInv
<1>3. DiskInv'
  BY DEF WriterInv, DiskInv
<1>4. EpochInv'
  BY DEF WriterInv, EpochInv
<1>5. RecentInv'
  BY DEF WriterInv, DiskInv, EpochInv, RecentInv, MayLoad
<1>6. CurrentInv'
  BY DEF WriterInv, DiskInv, EpochInv, CurrentInv, Settled, Awaits
<1> QED
  BY <1>1, <1>2, <1>3, <1>4, <1>5, <1>6

LEMMA AddNowFileInv ==
  ASSUME ~SlowWrite, FileInv, AddNow
  PROVE  FileInv'
<1> USE DEF FileInv, StoreInv, Writers, Versions, Absent, Torn, Loads,
            Writing, AddNow, WriterFree, Change, Snapshot, disk
<1>1. StoreInv'
  OBVIOUS
<1>2. WriterInv'
  BY DEF WriterInv
<1>3. DiskInv'
  BY DEF WriterInv, DiskInv
<1>4. EpochInv'
  BY DEF WriterInv, EpochInv
<1>5. RecentInv'
  BY DEF WriterInv, DiskInv, EpochInv, RecentInv, MayLoad
<1>6. CurrentInv'
  BY DEF WriterInv, DiskInv, EpochInv, CurrentInv, Settled, Awaits
<1> QED
  BY <1>1, <1>2, <1>3, <1>4, <1>5, <1>6

LEMMA FlushFileInv ==
  ASSUME ~SlowWrite, FileInv, Flush
  PROVE  FileInv'
<1> USE DEF FileInv, StoreInv, Writers, Versions, Absent, Torn, Loads,
            Writing, Flush, WriterFree, Snapshot, disk
<1>1. StoreInv'
  OBVIOUS
<1>2. WriterInv'
  BY DEF WriterInv
<1>3. DiskInv'
  BY DEF WriterInv, DiskInv
<1>4. EpochInv'
  BY DEF WriterInv, EpochInv
<1>5. RecentInv'
  BY DEF WriterInv, DiskInv, EpochInv, RecentInv, MayLoad
<1>6. CurrentInv'
  BY DEF WriterInv, DiskInv, EpochInv, CurrentInv, Settled, Awaits
<1> QED
  BY <1>1, <1>2, <1>3, <1>4, <1>5, <1>6

LEMMA CrashFileInv ==
  ASSUME ~SlowWrite, FileInv, Crash
  PROVE  FileInv'
<1> USE DEF FileInv, StoreInv, Writers, Versions, Absent, Torn, Loads,
            Writing, Crash, disk
<1>1. StoreInv'
  OBVIOUS
<1>2. WriterInv'
  BY DEF WriterInv
<1>3. DiskInv'
  BY DEF WriterInv, DiskInv
<1>4. EpochInv'
  BY DEF WriterInv, EpochInv
<1>5. RecentInv'
  BY DEF WriterInv, DiskInv, EpochInv, RecentInv, MayLoad
<1>6. CurrentInv'
  BY DEF WriterInv, DiskInv, EpochInv, CurrentInv, Settled, Awaits
<1> QED
  BY <1>1, <1>2, <1>3, <1>4, <1>5, <1>6

LEMMA LoadFileInv ==
  ASSUME ~SlowWrite, FileInv, Load
  PROVE  FileInv'
<1> USE DEF FileInv, StoreInv, Writers, Versions, Absent, Torn, Loads,
            Writing, Load
<1>1. StoreInv'
  BY DEF DiskInv
<1>2. WriterInv'
  BY DEF WriterInv
<1>3. DiskInv'
  BY DEF WriterInv, DiskInv
<1>4. EpochInv'
  BY Zenon DEF WriterInv, EpochInv
<1>5. RecentInv'
  BY DEF WriterInv, DiskInv, EpochInv, RecentInv, MayLoad
<1>6. CurrentInv'
  BY Zenon DEF WriterInv, DiskInv, EpochInv, CurrentInv, Settled, Awaits
<1> QED
  BY <1>1, <1>2, <1>3, <1>4, <1>5, <1>6

LEMMA RemoveFileInv ==
  ASSUME ~SlowWrite, FileInv, NEW t \in Writers, Remove(t)
  PROVE  FileInv'
<1> USE DEF FileInv, StoreInv, Writers, Versions, Absent, Torn, Loads,
            Writing, Remove, WriterFree, Change, Snapshot, disk
<1>1. StoreInv'
  OBVIOUS
<1>2. WriterInv'
  BY DEF WriterInv
<1>3. DiskInv'
  BY DEF WriterInv, DiskInv
<1>4. EpochInv'
  BY DEF WriterInv, EpochInv
<1>5. RecentInv'
  BY Zenon DEF WriterInv, DiskInv, EpochInv, RecentInv, MayLoad
<1>6. CurrentInv'
  BY DEF WriterInv, DiskInv, EpochInv, CurrentInv, Settled, Awaits
<1> QED
  BY <1>1, <1>2, <1>3, <1>4, <1>5, <1>6

LEMMA WriteToDiskFileInv ==
  ASSUME ~SlowWrite, FileInv, NEW t \in Writers, WriteToDisk(t)
  PROVE  FileInv'
<1> USE DEF FileInv, StoreInv, Writers, Versions, Absent, Torn, Loads,
            Writing, WriteToDisk, store, disk
<1>1. StoreInv'
  OBVIOUS
<1>2. WriterInv'
  BY DEF WriterInv
<1>3. DiskInv'
  BY DEF WriterInv, DiskInv
<1>4. EpochInv'
  BY DEF WriterInv, EpochInv
<1>5. RecentInv'
  BY DEF WriterInv, DiskInv, EpochInv, RecentInv, MayLoad
<1>6. CurrentInv'
  BY DEF WriterInv, DiskInv, EpochInv, CurrentInv, Settled, Awaits
<1> QED
  BY <1>1, <1>2, <1>3, <1>4, <1>5, <1>6

LEMMA OpenTmpFileInv ==
  ASSUME ~SlowWrite, FileInv, NEW t \in Writers, OpenTmp(t)
  PROVE  FileInv'
<1> USE DEF FileInv, StoreInv, Writers, Versions, Absent, Torn, Loads,
            Writing, OpenTmp, Step, store, disk
<1>1. StoreInv'
  OBVIOUS
<1>2. WriterInv'
  BY DEF WriterInv
<1>3. DiskInv'
  BY DEF WriterInv, DiskInv
<1>4. EpochInv'
  BY DEF WriterInv, EpochInv
<1>5. RecentInv'
  BY DEF WriterInv, DiskInv, EpochInv, RecentInv, MayLoad
<1>6. CurrentInv'
  BY ZenonT(30) DEF WriterInv, DiskInv, EpochInv, CurrentInv, Settled, Awaits
<1> QED
  BY <1>1, <1>2, <1>3, <1>4, <1>5, <1>6

LEMMA FillTmpFileInv ==
  ASSUME ~SlowWrite, FileInv, NEW t \in Writers, FillTmp(t)
  PROVE  FileInv'
<1> USE DEF FileInv, StoreInv, Writers, Versions, Absent, Torn, Loads,
            Writing, FillTmp, Step, store, disk
<1>1. StoreInv'
  OBVIOUS
<1>2. WriterInv'
  BY Zenon DEF WriterInv
<1>3. DiskInv'
  BY DEF WriterInv, DiskInv
<1>4. EpochInv'
  BY DEF WriterInv, EpochInv
<1>5. RecentInv'
  BY DEF WriterInv, DiskInv, EpochInv, RecentInv, MayLoad
<1>6. CurrentInv'
  BY ZenonT(30) DEF WriterInv, DiskInv, EpochInv, CurrentInv, Settled, Awaits
<1> QED
  BY <1>1, <1>2, <1>3, <1>4, <1>5, <1>6

LEMMA ReplaceFileInv ==
  ASSUME ~SlowWrite, FileInv, NEW t \in Writers, Replace(t)
  PROVE  FileInv'
<1> USE DEF FileInv, StoreInv, Writers, Versions, Absent, Torn, Loads,
            Writing, Replace, Step, store, disk
<1>1. StoreInv'
  BY DEF DiskInv
<1>2. WriterInv'
  BY DEF WriterInv
<1>3. DiskInv'
  BY DEF WriterInv, DiskInv
<1>4. EpochInv'
  BY Zenon DEF WriterInv, EpochInv
<1>5. RecentInv'
  BY DEF WriterInv, DiskInv, EpochInv, RecentInv, MayLoad
<1>6. CurrentInv'
  BY Zenon DEF WriterInv, DiskInv, EpochInv, CurrentInv, Settled, Awaits
<1> QED
  BY <1>1, <1>2, <1>3, <1>4, <1>5, <1>6

LEMMA ReplaceMovesFileInv ==
  ASSUME ~SlowWrite, FileInv, NEW t \in Writers, ReplaceMoves(t)
  PROVE  FileInv'
<1> USE DEF FileInv, StoreInv, Writers, Versions, Absent, Torn, Loads,
            Writing, ReplaceMoves, Step, store, disk
<1>1. StoreInv'
  BY Zenon
<1>2. WriterInv'
  BY DEF WriterInv
<1>3. DiskInv'
  BY DEF WriterInv, DiskInv
<1>4. EpochInv'
  BY Zenon DEF WriterInv, EpochInv
<1>5. RecentInv'
  BY DEF WriterInv, DiskInv, EpochInv, RecentInv, MayLoad
<1>6. CurrentInv'
  BY Zenon DEF WriterInv, DiskInv, EpochInv, CurrentInv, Settled, Awaits
<1> QED
  BY <1>1, <1>2, <1>3, <1>4, <1>5, <1>6

LEMMA ReplaceGivesUpFileInv ==
  ASSUME ~SlowWrite, FileInv, NEW t \in Writers, ReplaceGivesUp(t)
  PROVE  FileInv'
<1> USE DEF FileInv, StoreInv, Writers, Versions, Absent, Torn, Loads,
            Writing, ReplaceGivesUp, Step, store, disk
<1>1. StoreInv'
  OBVIOUS
<1>2. WriterInv'
  BY DEF WriterInv
<1>3. DiskInv'
  BY Zenon DEF WriterInv, DiskInv
<1>4. EpochInv'
  BY Zenon DEF WriterInv, EpochInv
<1>5. RecentInv'
  BY Zenon DEF WriterInv, DiskInv, EpochInv, RecentInv, MayLoad
<1>6. CurrentInv'
  BY Zenon DEF WriterInv, DiskInv, EpochInv, CurrentInv, Settled, Awaits
<1> QED
  BY <1>1, <1>2, <1>3, <1>4, <1>5, <1>6

LEMMA DropHistoryFileInv ==
  ASSUME ~SlowWrite, FileInv, NEW t \in Writers, DropHistory(t)
  PROVE  FileInv'
<1> USE DEF FileInv, StoreInv, Writers, Versions, Absent, Torn, Loads,
            Writing, DropHistory, Step, store, disk, DropStoreHistory,
            TmpIsThisSave
<1>1. StoreInv'
  OBVIOUS
<1>2. WriterInv'
  BY DEF WriterInv
<1>3. DiskInv'
  BY DEF WriterInv, DiskInv
<1>4. EpochInv'
  BY DEF WriterInv, EpochInv
<1>5. RecentInv'
  BY DEF WriterInv, DiskInv, EpochInv, RecentInv, MayLoad
<1>6. CurrentInv'
  <2>1. UNCHANGED <<up, mem, dirty, snap, epoch, writer, written>>
    OBVIOUS
  <2>2. up /\ mem # 0 =>
          filePc[t] \in Writing /\ filePc'[t] \in Writing /\ writer = t
    BY Zenon DEF WriterInv
  <2>3. \A u \in Writers : u # t => filePc'[u] = filePc[u]
    BY Zenon
  <2> QED
    BY <2>1, <2>2, <2>3, Zenon DEF CurrentInv, Settled, Awaits
<1> QED
  BY <1>1, <1>2, <1>3, <1>4, <1>5, <1>6, Zenon

LEMMA CleanFileInv ==
  ASSUME ~SlowWrite, FileInv, NEW t \in Writers, Clean(t)
  PROVE  FileInv'
<1> USE DEF FileInv, StoreInv, Writers, Versions, Absent, Torn, Loads,
            Writing, Clean, Step, store, disk
<1>1. StoreInv'
  BY Zenon
<1>2. WriterInv'
  BY Zenon DEF WriterInv
<1>3. DiskInv'
  BY Zenon DEF WriterInv, DiskInv
<1>4. EpochInv'
  BY Zenon DEF WriterInv, EpochInv
<1>5. RecentInv'
  BY Zenon DEF WriterInv, DiskInv, EpochInv, RecentInv, MayLoad
<1>6. CurrentInv'
  BY Zenon DEF WriterInv, DiskInv, EpochInv, CurrentInv, Settled, Awaits
<1> QED
  BY <1>1, <1>2, <1>3, <1>4, <1>5, <1>6

LEMMA BackupFileInv ==
  ASSUME ~SlowWrite, FileInv, NEW t \in Writers, Backup(t)
  PROVE  FileInv'
<1> USE DEF FileInv, StoreInv, Writers, Versions, Absent, Torn, Loads,
            Writing, Backup, Step, store, disk
<1>1. StoreInv'
  OBVIOUS
<1>2. WriterInv'
  BY DEF WriterInv
<1>3. DiskInv'
  BY DEF WriterInv, DiskInv
<1>4. EpochInv'
  BY DEF WriterInv, EpochInv
<1>5. RecentInv'
  BY DEF WriterInv, DiskInv, EpochInv, RecentInv, MayLoad
<1>6. CurrentInv'
  BY Zenon DEF WriterInv, DiskInv, EpochInv, CurrentInv, Settled, Awaits
<1> QED
  BY <1>1, <1>2, <1>3, <1>4, <1>5, <1>6, Zenon

LEMMA CopyFileInv ==
  ASSUME ~SlowWrite, FileInv, NEW t \in Writers, Copy(t)
  PROVE  FileInv'
<1> USE DEF FileInv, StoreInv, Writers, Versions, Absent, Torn, Loads,
            Writing, Copy, Step, store, disk
<1>1. StoreInv'
  OBVIOUS
<1>2. WriterInv'
  BY Zenon DEF WriterInv
<1>3. DiskInv'
  BY DEF WriterInv, DiskInv
<1>4. EpochInv'
  BY Zenon DEF WriterInv, EpochInv
<1>5. RecentInv'
  BY DEF WriterInv, DiskInv, EpochInv, RecentInv, MayLoad
<1>6. CurrentInv'
  BY Zenon DEF WriterInv, DiskInv, EpochInv, CurrentInv, Settled, Awaits
<1> QED
  BY <1>1, <1>2, <1>3, <1>4, <1>5, <1>6

LEMMA WrittenFileInv ==
  ASSUME ~SlowWrite, FileInv, NEW t \in Writers, Written(t)
  PROVE  FileInv'
<1> USE DEF FileInv, StoreInv, Writers, Versions, Absent, Torn, Loads,
            Writing, Written, store, disk
<1>1. StoreInv'
  BY Zenon
<1>2. WriterInv'
  BY Zenon DEF WriterInv
<1>3. DiskInv'
  BY Zenon DEF WriterInv, DiskInv
<1>4. EpochInv'
  BY Zenon DEF WriterInv, EpochInv
<1>5. RecentInv'
  BY DEF WriterInv, DiskInv, EpochInv, RecentInv, MayLoad
<1>6. CurrentInv'
  BY DEF WriterInv, DiskInv, EpochInv, CurrentInv, Settled, Awaits
<1> QED
  BY <1>1, <1>2, <1>3, <1>4, <1>5, <1>6, Zenon

LEMMA MarkDirtyFileInv ==
  ASSUME ~SlowWrite, FileInv, NEW t \in Writers, MarkDirty(t)
  PROVE  FileInv'
<1> USE DEF FileInv, StoreInv, Writers, Versions, Absent, Torn, Loads,
            Writing, MarkDirty, disk
<1>1. StoreInv'
  BY Zenon
<1>2. WriterInv'
  BY Zenon DEF WriterInv
<1>3. DiskInv'
  BY Zenon DEF WriterInv, DiskInv
<1>4. EpochInv'
  BY SMTT(30) DEF WriterInv, EpochInv
<1>5. RecentInv'
  BY SMTT(30) DEF WriterInv, DiskInv, EpochInv, RecentInv, MayLoad
<1>6. CurrentInv'
  BY Zenon DEF WriterInv, DiskInv, EpochInv, CurrentInv, Settled, Awaits
<1> QED
  BY <1>1, <1>2, <1>3, <1>4, <1>5, <1>6, Zenon
LEMMA InitFileInv == FileInit => FileInv
  BY DEF FileInit, FileInv, StoreInv, WriterInv, DiskInv, EpochInv, RecentInv,
         CurrentInv, MayLoad, Writers, Versions, Absent, Torn, Loads, Writing

LEMMA StutterFileInv == FileInv /\ UNCHANGED fileVars => FileInv'
<1> SUFFICES ASSUME FileInv, UNCHANGED fileVars PROVE FileInv'
  BY Zenon
<1> USE DEF fileVars, store, disk, FileInv
<1>1. StoreInv'
  BY DEF StoreInv
<1>2. WriterInv'
  BY DEF WriterInv
<1>3. DiskInv'
  BY DEF DiskInv
<1>4. EpochInv'
  BY Zenon DEF EpochInv
<1>5. RecentInv'
  BY DEF RecentInv, MayLoad
<1>6. CurrentInv'
  BY DEF CurrentInv, Settled, Awaits
<1> QED
  BY <1>1, <1>2, <1>3, <1>4, <1>5, <1>6

LEMMA StepFileInv ==
  ASSUME ~SlowWrite, FileInv, [FileNext]_fileVars
  PROVE  FileInv'
<1>1. ASSUME NEW t \in Writers, WriteStep(t)
      PROVE  FileInv'
  BY <1>1, WriteToDiskFileInv, OpenTmpFileInv, FillTmpFileInv, ReplaceFileInv,
     ReplaceMovesFileInv, ReplaceGivesUpFileInv, DropHistoryFileInv,
     CleanFileInv, BackupFileInv, CopyFileInv, WrittenFileInv,
     MarkDirtyFileInv
     DEF WriteStep
<1> QED
  BY <1>1, AddLaterFileInv, AddNowFileInv, FlushFileInv, CrashFileInv,
     LoadFileInv, RemoveFileInv, StutterFileInv, Zenon
     DEF FileNext

\* Whichever writes fail or overtake each other, and wherever a crash comes,
\* the store and its files agree as Persist, WriteToDisk and Load leave them.
THEOREM FileInvariant ==
  ASSUME ~SlowWrite
  PROVE  FileSpec => []FileInv
  BY InitFileInv, StepFileInv, PTL DEF FileSpec

\* No change is forgotten: when nobody is writing and the store is not marked
\* dirty, the file holds what the store holds, if no write outlasts the
\* debounce interval (Persist, WriteToDisk, dirty_).
THEOREM FileIsCurrent ==
  ASSUME ~SlowWrite
  PROVE  FileSpec => []FileCurrent
<1>1. FileInv => FileCurrent
  BY DEF FileInv, WriterInv, CurrentInv, FileCurrent, Settled, Awaits, Writers
<1> QED
  BY <1>1, FileInvariant, PTL

\* A restart loads the content of the last save that returned true, or a later
\* one: neither the backup, a leftover temporary file nor an older snapshot
\* written late brings back what a removal took (WriteToDisk, Load).
THEOREM LoadsAreRecent ==
  ASSUME ~SlowWrite
  PROVE  FileSpec => LoadIsRecent
<1>1. FileInv /\ [FileNext]_fileVars =>
        [~up /\ up' => mem' \in recent]_fileVars
  <2> SUFFICES ASSUME FileInv, [FileNext]_fileVars, ~up, up'
               PROVE  mem' \in recent
    OBVIOUS
  <2>1. Load
    BY Zenon
       DEF FileNext, fileVars, store, AddLater, AddNow, Flush, Crash, Remove,
           WriterFree, WriteStep, WriteToDisk, OpenTmp, FillTmp, Replace,
           ReplaceMoves, ReplaceGivesUp, DropHistory, DropStoreHistory, Clean,
           Backup, Copy, Written, MarkDirty, Step
  <2> QED
    BY <2>1
       DEF Load, FileInv, StoreInv, DiskInv, RecentInv, MayLoad, Loads,
           Versions, Absent, Torn
<1> QED
  BY <1>1, FileInvariant, PTL DEF FileSpec, LoadIsRecent

\* What FileInv leaves out.
FlagsInv == up \in BOOLEAN /\ dirty \in BOOLEAN /\ recent \subseteq Versions

LEMMA StepFlags ==
  ASSUME FileInv, FileInv', FlagsInv, [FileNext]_fileVars
  PROVE  FlagsInv'
<1>1. up' \in BOOLEAN /\ dirty' \in BOOLEAN
  BY ZenonT(30)
     DEF FlagsInv, FileNext, fileVars, store, AddLater, AddNow, Flush, Crash,
         Load, Remove, WriterFree, WriteStep, WriteToDisk, OpenTmp, FillTmp,
         Replace, ReplaceMoves, ReplaceGivesUp, DropHistory, DropStoreHistory,
         Clean, Backup, Copy, Written, MarkDirty, Step, Snapshot, Change
<1>2. recent' \subseteq recent \/ recent' \subseteq recent \cup {mem, mem'}
  BY Zenon
     DEF FileNext, fileVars, store, AddLater, AddNow, Flush, Crash, Load,
         Remove, WriterFree, WriteStep, WriteToDisk, OpenTmp, FillTmp,
         Replace, ReplaceMoves, ReplaceGivesUp, DropHistory, DropStoreHistory,
         Clean, Backup, Copy, Written, MarkDirty, Step, Snapshot, Change
<1>3. mem \in Versions /\ mem' \in Versions
  BY DEF FileInv, StoreInv, Versions
<1>4. recent' \subseteq Versions
  BY <1>2, <1>3 DEF FlagsInv
<1> QED
  BY <1>1, <1>4, Zenon DEF FlagsInv, Versions

\* Every variable of the store and its files keeps its type.
THEOREM FileTyped ==
  ASSUME ~SlowWrite
  PROVE  FileSpec => []FileTypeOK
<1>1. FileInit => FlagsInv
  <2>1. 0 \in Versions
    BY DEF Versions
  <2> QED
    BY <2>1, Zenon DEF FileInit, FlagsInv
<1>2. FileInv /\ FlagsInv => FileTypeOK
  <2> SUFFICES ASSUME FileInv, FlagsInv PROVE FileTypeOK
    OBVIOUS
  <2>1. /\ mem \in Versions /\ seq \in Versions /\ written \in Versions
        /\ top \in Versions
        /\ snap \in [Writers -> Versions] /\ epoch \in [Writers -> Versions]
        /\ file \in Disk /\ tmp \in Disk /\ bak \in Disk
    BY DEF FileInv, StoreInv, Versions, Disk
  <2>2. filePc \in [Writers -> {"idle", "persist", "open", "fill", "replace",
                             "failed", "boot", "clean", "backup", "copy",
                             "done", "retry"}]
    BY DEF FileInv, StoreInv, Writing
  <2> QED
    BY <2>1, <2>2, Zenon DEF FlagsInv, FileInv, StoreInv, FileTypeOK
<1> QED
  BY <1>1, <1>2, StepFlags, FileInvariant, PTL DEF FileSpec
=============================================================================
