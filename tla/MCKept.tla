------------------------------- MODULE MCKept -------------------------------
(* Four things the program holds for the user and must not lose, each alone *)
(* in one run: `scene` picks the one that moves.  The routing and metadata  *)
(* a scheduled entry took over, with three bindings of which two share a    *)
(* profile; the credential of one account under two workers; the file the   *)
(* accounts are in; and the verdict on a GPU that froze.                    *)
EXTENDS ScheduledSetup, Integers, TLC

CONSTANTS
    b1, b2, b3, p1, p2,
    Worker, MaxPairs,   \* TokenRefresh
    MaxChanges          \* AccountFile

ASSUME BoundsAssumption == MaxPairs \in Nat /\ MaxChanges \in Nat

MCProfileOf == b1 :> p1 @@ b2 :> p1 @@ b3 :> p2

\* The two bindings of one profile stand for each other, and so do workers.
Symmetry ==
    Permutations({b1, b2}) \cup Permutations(Worker)

VARIABLES
    scene,
    stored, dead, slot, mutexes, workerPc, acct, force, mutex, answer,
    granted, aged, issued, root, valid, cut, astray,        \* TokenRefresh
    accountsLoaded, accounts, filePc, target, temp, changes, due,
    exposed,                                                \* AccountFile
    marker, safeMode, sentinel, hwSentinel, setting, run, browserHwAccel,
    software, enabled, armed, frozen, verdict               \* GpuProbe

tokenVars == <<stored, dead, slot, mutexes, workerPc, acct, force, mutex,
               answer, granted, aged, issued, root, valid, cut, astray>>
fileVars == <<accountsLoaded, accounts, filePc, target, temp, changes, due,
              exposed>>
gpuVars == <<marker, safeMode, sentinel, hwSentinel, setting, run,
             browserHwAccel, software, enabled, armed, frozen, verdict>>
sceneVars == <<scene, vars, tokenVars, fileVars, gpuVars>>

Token == INSTANCE TokenRefresh WITH pc <- workerPc, mine <- mutex

File == INSTANCE AccountFile WITH loaded <- accountsLoaded, pc <- filePc

Gpu == INSTANCE GpuProbe

SceneInit ==
    /\ scene \in {"setup", "token", "file", "gpu"}
    /\ Init /\ Token!Init /\ File!Init /\ Gpu!Init
    /\ scene # "setup" =>
         mine = {} /\ mineBag = [p \in Profile |-> NoFields]
    /\ scene # "gpu" => setting = FALSE

Scene(moving) ==
    /\ scene = moving
    /\ UNCHANGED scene
    /\ moving # "setup" => UNCHANGED vars
    /\ moving # "token" => UNCHANGED tokenVars
    /\ moving # "file" => UNCHANGED fileVars
    /\ moving # "gpu" => UNCHANGED gpuVars

SceneNext ==
    \/ Scene("setup") /\ Next
    \/ Scene("token") /\ Token!Next
    \/ Scene("file") /\ File!Next
    \/ Scene("gpu") /\ Gpu!Next

SceneSpec == SceneInit /\ [][SceneNext]_sceneVars

-----------------------------------------------------------------------------
(* The properties, each stated in its component's module.                  *)

\* No worker's refresh loses the account's working token (TokenRefresh).
CredentialKept == Token!CredentialKept

\* An account reads signed out only when its token is refused (TokenRefresh).
DeadIsDead == Token!DeadIsDead

\* A restart finds the accounts that were saved (AccountFile).
AccountsSurvive == File!AccountsSurvive

\* A launch does not repeat the acceleration that froze one (GpuProbe).
FreezeRemembered == Gpu!FreezeRemembered
=============================================================================
