---------------------------- MODULE TokenRefresh ----------------------------
(***************************************************************************)
(* The credential of one account: workers that send authorised requests    *)
(* and refresh the access token when it has aged or was refused            *)
(* (SendAuthed, ensureFresh), connects that store a new grant, and         *)
(* disconnects that remove the account while refreshes are on the wire.    *)
(*                                                                         *)
(* The platform rotates: a refresh spends the refresh token and issues a   *)
(* new pair, so a pair is one number, and the pair a connect brought is    *)
(* the root of those refreshed from it.  The answer to a refresh may get   *)
(* lost after the platform acted on it.  A request that uses the pair just *)
(* granted, before the connect stores it, is taken to be accepted.         *)
(***************************************************************************)
EXTENDS Integers

CONSTANTS
    Worker,     \* threads that send requests of the account
    MaxPairs    \* token pairs the platform may issue

Pairs == 1..MaxPairs
None == 0

\* What the platform says to a refresh, when it is not a new pair.
NoAnswer == 0
InvalidGrant == -1

VARIABLES
    stored,     \* the pair of the account's record, None without a record
    dead,       \* its refreshDead
    slot,       \* the mutex flightLocks_ holds for the account, or None
    mutexes,    \* mutexes made so far
    pc,         \* pc[w]: where worker w is in SendAuthed
    acct,       \* acct[w]: the pair in its copy of the record
    force,      \* force[w]: ensureFresh runs because of a 401
    mine,       \* mine[w]: the mutex FlightLock handed it
    answer,     \* answer[w]: what its refresh came to
    granted,    \* the pair a connect is about to store, or None
    aged,       \* pairs up to this one are near their expireTime
    issued,     \* platform: pairs issued so far
    root,       \* platform: root[n], the connect that pair n descends from
    valid,      \* platform: pairs whose refresh token it accepts
    cut,        \* ghost: roots the platform or the network broke
    astray      \* ghost: a flight of another connect wrote the record

storeVars == <<stored, dead, astray>>
lockVars == <<slot, mutexes>>
workerVars == <<pc, acct, force, mine, answer>>
platformVars == <<issued, root, valid, cut>>
vars == <<storeVars, lockVars, workerVars, granted, aged, platformVars>>

Init ==
    /\ stored = None /\ dead = FALSE /\ astray = FALSE
    /\ slot = None /\ mutexes = 0
    /\ pc = [w \in Worker |-> "idle"]
    /\ acct = [w \in Worker |-> None]
    /\ force = [w \in Worker |-> FALSE]
    /\ mine = [w \in Worker |-> None]
    /\ answer = [w \in Worker |-> NoAnswer]
    /\ granted = None
    /\ aged = 0
    /\ issued = 0
    /\ root = [n \in Pairs |-> None]
    /\ valid = {} /\ cut = {}

InFlight(w) == pc[w] \in {"wire", "answered"}

-----------------------------------------------------------------------------
(* SendAuthed and ensureFresh.                                             *)

\* A request begins with the record as it is stored, or with a copy that the
\* caller (a transport) has held for a while.
Begin(w) ==
    /\ pc[w] = "idle"
    /\ \E n \in {stored, acct[w]} \ {None} :
         acct' = [acct EXCEPT ![w] = n]
    /\ pc' = [pc EXCEPT ![w] = "fresh"]
    /\ UNCHANGED <<storeVars, lockVars, force, mine, answer, granted, aged,
                   platformVars>>

StillValid(w, n) == ~force[w] /\ n > aged

\* ensureFresh has returned: to the request, or to the retry, after which the
\* request is over whatever comes back.
Returned(w) == IF force[w] THEN "idle" ELSE "send"

NoRefreshNeeded(w) ==
    /\ pc[w] = "fresh"
    /\ StillValid(w, acct[w])
    /\ pc' = [pc EXCEPT ![w] = Returned(w)]
    /\ UNCHANGED <<storeVars, lockVars, acct, force, mine, answer, granted,
                   aged, platformVars>>

\* Mutant: every caller gets a mutex of its own.
FlightLockAlone(w) ==
    /\ pc[w] = "fresh"
    /\ ~StillValid(w, acct[w])
    /\ mutexes < MaxPairs
    /\ slot' = mutexes + 1 /\ mutexes' = mutexes + 1
    /\ mine' = [mine EXCEPT ![w] = slot']
    /\ pc' = [pc EXCEPT ![w] = "lock"]
    /\ UNCHANGED <<storeVars, acct, force, answer, granted, aged,
                   platformVars>>

FlightLock(w) ==
    /\ pc[w] = "fresh"
    /\ ~StillValid(w, acct[w])
    /\ IF slot = None THEN slot' = mutexes + 1 /\ mutexes' = mutexes + 1
                      ELSE UNCHANGED lockVars
    /\ mine' = [mine EXCEPT ![w] = slot']
    /\ pc' = [pc EXCEPT ![w] = "lock"]
    /\ UNCHANGED <<storeVars, acct, force, answer, granted, aged,
                   platformVars>>

\* The mutex is taken, the record read again, and the refresh sent unless the
\* record has a usable pair by now.
Reread(w) ==
    /\ pc[w] = "lock"
    /\ \A v \in Worker : InFlight(v) => mine[v] # mine[w]
    /\ LET now == IF stored = None THEN acct[w] ELSE stored IN
       /\ acct' = [acct EXCEPT ![w] = now]
       /\ pc' = [pc EXCEPT ![w] =
                   IF StillValid(w, now) \/ (force[w] /\ now # acct[w])
                   THEN Returned(w) ELSE "wire"]
    /\ mine' = [mine EXCEPT ![w] = IF pc'[w] = "wire" THEN @ ELSE None]
    /\ astray' = (astray \/ (stored # None /\ mine[w] # slot))
    /\ force' = [force EXCEPT ![w] = @ /\ pc'[w] = "wire"]
    /\ UNCHANGED <<stored, dead, lockVars, answer, granted, aged,
                   platformVars>>

\* The platform's part in RefreshOnce.
Answer(w, a) ==
    /\ pc[w] = "wire"
    /\ pc' = [pc EXCEPT ![w] = "answered"]
    /\ answer' = [answer EXCEPT ![w] = a]
    /\ UNCHANGED <<storeVars, lockVars, acct, force, mine, granted, aged>>

Rotate(n) ==
    /\ n \in valid
    /\ issued < MaxPairs
    /\ issued' = issued + 1
    /\ root' = [root EXCEPT ![issued'] = root[n]]
    /\ valid' = (valid \ {n}) \cup {issued'}

RefreshOnce(w) ==
    \/ Rotate(acct[w]) /\ Answer(w, issued') /\ UNCHANGED cut
    \/ /\ Rotate(acct[w]) /\ Answer(w, NoAnswer)
       /\ cut' = cut \cup {root[acct[w]]}
    \/ /\ acct[w] \notin valid
       /\ Answer(w, InvalidGrant)
       /\ UNCHANGED platformVars
    \/ Answer(w, NoAnswer) /\ UNCHANGED platformVars

\* Mutant: the rotated pair is not written back.
UpdateExistingNot(n) == UNCHANGED storeVars

\* UpdateExisting: the record is replaced, never inserted again.
UpdateExisting(n) ==
    IF stored = None THEN UNCHANGED storeVars
    ELSE /\ stored' = n
         /\ dead' = FALSE
         /\ astray' = (astray \/ root[n] # root[stored])

\* SetRefreshDead: only the verdict, on the record of the moment.
SetRefreshDead(n) ==
    IF stored = None THEN UNCHANGED storeVars
    ELSE /\ dead' = TRUE
         /\ astray' = (astray \/ root[n] # root[stored])
         /\ UNCHANGED stored

\* The answer is acted on and the mutex released.
Land(w) ==
    /\ pc[w] = "answered"
    /\ \/ /\ answer[w] \in Pairs
          /\ UpdateExisting(answer[w])
          /\ acct' = [acct EXCEPT ![w] = answer[w]]
       \/ /\ answer[w] = InvalidGrant
          /\ SetRefreshDead(acct[w])
          /\ UNCHANGED acct
       \/ answer[w] = NoAnswer /\ UNCHANGED <<storeVars, acct>>
    /\ pc' = [pc EXCEPT ![w] = Returned(w)]
    /\ answer' = [answer EXCEPT ![w] = NoAnswer]
    /\ mine' = [mine EXCEPT ![w] = None]
    /\ force' = [force EXCEPT ![w] = FALSE]
    /\ UNCHANGED <<lockVars, granted, aged, platformVars>>

\* The request itself: a 401 forces one refresh, anything else ends it.
Send(w) ==
    /\ pc[w] = "send"
    /\ \/ /\ pc' = [pc EXCEPT ![w] = "fresh"]
          /\ force' = [force EXCEPT ![w] = TRUE]
       \/ pc' = [pc EXCEPT ![w] = "idle"] /\ UNCHANGED force
    /\ UNCHANGED <<storeVars, lockVars, acct, mine, answer, granted, aged,
                   platformVars>>

-----------------------------------------------------------------------------
(* Connect and disconnect, the clock and the platform.                     *)

\* The user grants access; the platform may drop earlier grants for it.  A
\* later connect supersedes one that has not stored its pair.
Grant ==
    /\ issued < MaxPairs
    /\ issued' = issued + 1
    /\ root' = [root EXCEPT ![issued'] = issued']
    /\ \/ valid' = valid \cup {issued'} /\ UNCHANGED cut
       \/ valid' = {issued'} /\ cut' = cut \cup {root[n] : n \in valid}
    /\ granted' = issued'
    /\ UNCHANGED <<storeVars, lockVars, workerVars, aged>>

\* RunOAuthConnect stores the account, new or relinked.
Put ==
    /\ granted # None
    /\ stored' = granted /\ dead' = FALSE /\ astray' = FALSE
    /\ granted' = None
    /\ UNCHANGED <<lockVars, workerVars, aged, platformVars>>

\* TeardownAccount: Remove and ForgetAccount; Revoke is the platform's step.
TeardownAccount ==
    /\ stored # None
    /\ stored' = None /\ dead' = FALSE /\ astray' = FALSE
    /\ slot' = None
    /\ UNCHANGED <<mutexes, workerVars, granted, aged, platformVars>>

\* A disconnect's revocation reaches the platform, the user takes the grant
\* back there, or the platform ends it.
RevokeRoot(r) ==
    /\ \E n \in valid : root[n] = r
    /\ valid' = {n \in valid : root[n] # r}
    /\ cut' = cut \cup {r}
    /\ UNCHANGED <<storeVars, lockVars, workerVars, granted, aged, issued,
                   root>>

\* Pairs near their expireTime in the order in which they were issued.
Age ==
    /\ aged < issued
    /\ aged' = aged + 1
    /\ UNCHANGED <<storeVars, lockVars, workerVars, granted, platformVars>>

-----------------------------------------------------------------------------
(* The specification.                                                      *)

WorkerStep(w) ==
    \/ Begin(w)
    \/ NoRefreshNeeded(w)
    \/ FlightLock(w)
    \/ Reread(w)
    \/ RefreshOnce(w)
    \/ Land(w)
    \/ Send(w)

Next ==
    \/ \E w \in Worker : WorkerStep(w)
    \/ Grant
    \/ Put
    \/ TeardownAccount
    \/ \E r \in Pairs : RevokeRoot(r)
    \/ Age

Spec == Init /\ [][Next]_vars

-----------------------------------------------------------------------------
(* Properties.                                                             *)

\* Every variable ranges over the values the code can give it.
TokenTypeOK ==
    /\ stored \in Pairs \cup {None} /\ granted \in Pairs \cup {None}
    /\ dead \in BOOLEAN /\ astray \in BOOLEAN
    /\ slot \in Nat /\ mutexes \in Nat
    /\ pc \in [Worker -> {"idle", "fresh", "lock", "wire", "answered",
                          "send"}]
    /\ acct \in [Worker -> Pairs \cup {None}]
    /\ force \in [Worker -> BOOLEAN]
    /\ mine \in [Worker -> Nat]
    /\ answer \in [Worker -> Pairs \cup {NoAnswer, InvalidGrant}]
    /\ aged \in 0..MaxPairs
    /\ issued \in 0..MaxPairs
    /\ root \in [Pairs -> Pairs \cup {None}]
    /\ valid \subseteq Pairs
    /\ cut \subseteq Pairs

\* A refresh of the stored connect that has not landed.
OwnFlight(w) == InFlight(w) /\ root[acct[w]] = root[stored]

\* The account is not bricked by its own workers: with no refresh of its on
\* the wire the record holds the pair that the platform rotated to last,
\* whoever refreshed, unless the platform or the network broke the grant the
\* record holds (ensureFresh under FlightLock, UpdateExisting).
CredentialKept ==
    stored # None /\ root[stored] \notin cut
    /\ (\A w \in Worker : ~OwnFlight(w)) => stored \in valid

\* An account is shown as signed out only when its stored refresh token is
\* really refused: no verdict on a pair that another worker had rotated away
\* reaches the record (SetRefreshDead).  Set aside: a flight that a relink or
\* a disconnect overtook, which writes its verdict on another connect's record.
DeadIsDead == stored # None /\ dead /\ ~astray => stored \notin valid
=============================================================================
