-------------------------- MODULE TokenRefreshProofs --------------------------
(***************************************************************************)
(* Proofs about the credential of one account, for any number of workers   *)
(* and token pairs: no order of refreshes, connects, disconnects and lost  *)
(* answers makes the record lose the pair its platform accepts, and a      *)
(* verdict that the account is dead is about the pair in the record.       *)
(***************************************************************************)
EXTENDS TokenRefresh, TLAPS

\* The platform: a pair descends from an earlier one or is a root, and of the
\* pairs of one connect it accepts at most one.
PlatformInv ==
    /\ MaxPairs \in Nat
    /\ issued \in 0..MaxPairs
    /\ valid \subseteq 1..issued
    /\ root \in [1..MaxPairs -> 0..MaxPairs]
    /\ \A n \in 1..issued : root[n] \in 1..n
    /\ \A m, n \in valid : root[m] = root[n] => m = n

\* Every copy of a pair is of one that was issued, and a busy worker has one.
CopiesInv ==
    /\ stored \in 0..issued /\ granted \in 0..issued
    /\ pc \in [Worker -> {"idle", "fresh", "lock", "wire", "answered",
                          "send"}]
    /\ acct \in [Worker -> 0..issued]
    /\ answer \in [Worker -> -1..issued]
    /\ \A w \in Worker :
          /\ pc[w] # "idle" => acct[w] # 0
          /\ pc[w] # "answered" => answer[w] = 0

\* The pair a connect is about to store is known to nobody else.
GrantedInv ==
    granted # 0 =>
        /\ \A n \in 1..issued : root[n] = granted <=> n = granted
        /\ granted \in valid \/ granted \in cut
        /\ stored # granted
        /\ \A w \in Worker : acct[w] # granted /\ answer[w] # granted

\* A mutex has one holder, and its number was handed out.
MutexInv ==
    /\ mutexes \in Nat /\ slot \in 0..mutexes
    /\ mine \in [Worker -> 0..mutexes]
    /\ \A w \in Worker :
          pc[w] \in {"lock", "wire", "answered"} => mine[w] # 0
    /\ \A v, w \in Worker :
          InFlight(v) /\ InFlight(w) /\ mine[v] = mine[w] => v = w

\* A refresh of the stored connect holds the mutex of the account and spends
\* the pair of the record, unless another connect's flight wrote the record.
OwnFlightInv ==
    stored # 0 /\ ~astray =>
        \A w \in Worker :
            OwnFlight(w) => mine[w] = slot /\ acct[w] = stored

\* A pair that was issued and not yet stored is its worker's alone; a refused
\* one stays refused.
AnswerInv ==
    \A w \in Worker :
        pc[w] = "answered" =>
            /\ answer[w] = -1 => acct[w] \notin valid
            /\ answer[w] > 0 =>
                 /\ root[answer[w]] = root[acct[w]]
                 /\ answer[w] \in valid \/ root[answer[w]] \in cut
                 /\ answer[w] # stored
                 /\ \A v \in Worker :
                       /\ answer[w] # acct[v]
                       /\ v # w => answer[w] # answer[v]

\* The record's connect has a working pair, in the record or in the hands of
\* the worker that is about to write it there.
StoredInv ==
    stored # 0 /\ root[stored] \notin cut =>
        \/ stored \in valid
        \/ \E w \in Worker :
              /\ pc[w] = "answered" /\ answer[w] > 0
              /\ root[answer[w]] = root[stored]

\* The inductive invariant.
TokenInv ==
    /\ PlatformInv
    /\ CopiesInv
    /\ GrantedInv
    /\ MutexInv
    /\ OwnFlightInv
    /\ AnswerInv
    /\ StoredInv
    /\ DeadIsDead

-----------------------------------------------------------------------------

USE DEF None, NoAnswer, InvalidGrant, Pairs

LEMMA InitTokenInv ==
  ASSUME MaxPairs \in Nat
  PROVE  Init => TokenInv
  BY DEF Init, TokenInv, PlatformInv, CopiesInv, GrantedInv, MutexInv,
         OwnFlightInv, AnswerInv, StoredInv, DeadIsDead, OwnFlight, InFlight

LEMMA StutterTokenInv == TokenInv /\ UNCHANGED vars => TokenInv'
  BY SMTT(30) DEF vars, TokenInv, PlatformInv, CopiesInv, GrantedInv, MutexInv,
         OwnFlightInv, AnswerInv, StoredInv, DeadIsDead, OwnFlight, InFlight,
         storeVars, lockVars, workerVars, platformVars

\* A worker that is on no flight, before and after, and takes its copy from
\* the record if it takes one.
LEMMA GroundedTokenInv ==
  ASSUME NEW w \in Worker, TokenInv,
         NEW p \in {"idle", "fresh", "lock", "send"},
         NEW n \in {acct[w], stored},
         NEW m \in 0..mutexes',
         pc[w] \notin {"wire", "answered"},
         p # "idle" => n # 0,
         p = "lock" => m # 0,
         pc' = [pc EXCEPT ![w] = p],
         acct' = [acct EXCEPT ![w] = n],
         mine' = [mine EXCEPT ![w] = m],
         mutexes' \in Nat, mutexes <= mutexes', slot' \in 0..mutexes',
         slot' # slot => slot = 0,
         ~astray' => ~astray,
         UNCHANGED <<stored, dead, answer, granted, issued, root, valid, cut>>
  PROVE  TokenInv'
<1> USE DEF TokenInv
<1>1. n \in 0..issued /\ issued \in Nat /\ mutexes \in Nat
  BY DEF CopiesInv, PlatformInv, MutexInv
<1>2. PlatformInv'
  BY DEF PlatformInv
<1>3. CopiesInv'
  BY <1>1 DEF CopiesInv
<1>4. GrantedInv'
  BY <1>1 DEF GrantedInv, CopiesInv
<1>5. MutexInv'
  <2>1. mine' \in [Worker -> 0..mutexes']
    BY <1>1 DEF MutexInv
  <2> QED
    BY <1>1, <2>1 DEF MutexInv, CopiesInv, InFlight
<1>6. OwnFlightInv'
  <2> SUFFICES ASSUME stored # 0, ~astray, NEW v \in Worker,
                      OwnFlight(v)'
               PROVE  mine'[v] = slot' /\ acct'[v] = stored
    BY DEF OwnFlightInv
  <2>1. v # w /\ OwnFlight(v) /\ mine'[v] = mine[v]
        /\ acct'[v] = acct[v]
    BY DEF OwnFlight, InFlight, CopiesInv, MutexInv
  <2>2. mine[v] = slot /\ mine[v] # 0
    BY <2>1 DEF OwnFlightInv, MutexInv, OwnFlight, InFlight
  <2> QED
    BY <2>1, <2>2 DEF OwnFlightInv
<1>7. AnswerInv'
  BY <1>1 DEF AnswerInv, CopiesInv
<1>8. StoredInv'
  BY DEF StoredInv, CopiesInv
<1>9. DeadIsDead'
  BY DEF DeadIsDead
<1> QED
  BY <1>2, <1>3, <1>4, <1>5, <1>6, <1>7, <1>8, <1>9

\* A request starts, finds its pair usable, or is over.
LEMMA RequestTokenInv ==
  ASSUME NEW w \in Worker, TokenInv,
         Begin(w) \/ NoRefreshNeeded(w) \/ Send(w)
  PROVE  TokenInv'
<1> USE DEF storeVars, lockVars, platformVars
<1>1. /\ mutexes' \in Nat /\ mutexes <= mutexes' /\ slot' \in 0..mutexes'
      /\ slot' = slot /\ mine[w] \in 0..mutexes'
      /\ mine' = [mine EXCEPT ![w] = mine[w]]
      /\ pc[w] # "idle" => acct[w] # 0
      /\ pc[w] \notin {"wire", "answered"}
      /\ UNCHANGED <<stored, dead, answer, granted, issued, root, valid, cut>>
      /\ ~astray' => ~astray
  BY DEF TokenInv, MutexInv, CopiesInv, Begin, NoRefreshNeeded, Send
<1>2. PICK n \in {acct[w], stored} : acct' = [acct EXCEPT ![w] = n] /\ n # 0
  BY DEF TokenInv, CopiesInv, Begin, NoRefreshNeeded, Send
<1>3. PICK p \in {"idle", "fresh", "send"} :
        pc' = [pc EXCEPT ![w] = p]
  BY DEF Begin, NoRefreshNeeded, Send, Returned
<1> QED
  BY <1>1, <1>2, <1>3, GroundedTokenInv, Zenon

\* A mutex made now is nobody's yet.
LEMMA FlightLockTokenInv ==
  ASSUME NEW w \in Worker, TokenInv, FlightLock(w)
  PROVE  TokenInv'
<1> USE DEF storeVars, lockVars, platformVars
<1>1. /\ mutexes \in Nat /\ slot \in 0..mutexes
      /\ acct = [acct EXCEPT ![w] = acct[w]]
      /\ pc[w] # "idle" => acct[w] # 0
  BY DEF TokenInv, MutexInv, CopiesInv
<1>2. /\ mutexes' \in Nat /\ mutexes <= mutexes' /\ slot' \in 0..mutexes'
      /\ slot' # 0 /\ (slot' # slot => slot = 0)
  BY <1>1 DEF FlightLock
<1> QED
  BY <1>1, <1>2, GroundedTokenInv, Zenon DEF FlightLock

\* Reading the record again under the mutex is what ties a flight to it.
LEMMA RereadTokenInv ==
  ASSUME NEW w \in Worker, TokenInv, Reread(w)
  PROVE  TokenInv'
<1> USE DEF TokenInv, PlatformInv, CopiesInv, MutexInv, InFlight, storeVars,
            lockVars, workerVars, platformVars
<1> USE DEF Reread, Returned
<1>1. PlatformInv'
  BY SMTT(30)
<1>2. CopiesInv'
  BY SMTT(30)
<1>3. GrantedInv'
  BY DEF GrantedInv
<1>4. MutexInv'
  BY SMTT(30)
<1>5. OwnFlightInv'
  BY Zenon DEF OwnFlightInv, OwnFlight
<1>6. AnswerInv'
  BY SMTT(30) DEF AnswerInv
<1>7. StoredInv'
  BY Zenon DEF StoredInv
<1>8. DeadIsDead'
  BY Zenon DEF DeadIsDead
<1> QED
  BY <1>1, <1>2, <1>3, <1>4, <1>5, <1>6, <1>7, <1>8, Zenon

\* A pair issued now is new, and its root one that was known or itself.
LEMMA NewPair ==
  ASSUME NEW r \in 1..MaxPairs, PlatformInv,
         issued < MaxPairs,
         issued' = issued + 1,
         root' = [root EXCEPT ![issued'] = r],
         r \in 1..issued'
  PROVE  /\ issued' \in 1..MaxPairs
         /\ root' \in [1..MaxPairs -> 0..MaxPairs]
         /\ root'[issued'] = r
         /\ \A n \in 1..issued : root'[n] = root[n] /\ n # issued'
         /\ \A n \in 1..issued' : root'[n] \in 1..n
<1> USE DEF PlatformInv
<1>1. issued' \in 1..MaxPairs /\ issued \in Nat
  OBVIOUS
<1>2. root' \in [1..MaxPairs -> 0..MaxPairs] /\ root'[issued'] = r
  BY <1>1
<1>3. \A n \in 1..issued : root'[n] = root[n] /\ n # issued'
  BY <1>1
<1>4. ASSUME NEW n \in 1..issued' PROVE root'[n] \in 1..n
  BY <1>1, <1>2, <1>3
<1> QED
  BY <1>1, <1>2, <1>3, <1>4

\* Rotation keeps one working pair per connect.
LEMMA Rotated ==
  ASSUME NEW n, PlatformInv, Rotate(n)
  PROVE  /\ PlatformInv'
         /\ n \in valid /\ n \in 1..issued
         /\ issued' = issued + 1 /\ issued \in Nat /\ issued' \in 1..MaxPairs
         /\ root'[issued'] = root[n]
         /\ \A m \in 1..issued : root'[m] = root[m] /\ m # issued'
         /\ valid' = (valid \ {n}) \cup {issued'}
<1>1. /\ n \in valid /\ n \in 1..issued /\ issued \in Nat
      /\ issued < MaxPairs /\ issued' = issued + 1
      /\ root' = [root EXCEPT ![issued'] = root[n]]
      /\ valid' = (valid \ {n}) \cup {issued'}
  BY DEF Rotate, PlatformInv
<1>2. root[n] \in 1..n
  BY <1>1 DEF PlatformInv
<1>3. root[n] \in 1..MaxPairs /\ root[n] \in 1..issued'
  BY <1>1, <1>2 DEF PlatformInv
<1>4. /\ issued' \in 1..MaxPairs
      /\ root' \in [1..MaxPairs -> 0..MaxPairs]
      /\ root'[issued'] = root[n]
      /\ \A m \in 1..issued : root'[m] = root[m] /\ m # issued'
      /\ \A m \in 1..issued' : root'[m] \in 1..m
  BY <1>1, <1>3, NewPair, Zenon
<1>5. valid' \subseteq 1..issued'
  BY <1>1, <1>4 DEF PlatformInv
<1>6. \A k, m \in valid' : root'[k] = root'[m] => k = m
  BY <1>1, <1>4 DEF PlatformInv
<1>7. PlatformInv'
  BY <1>1, <1>4, <1>5, <1>6 DEF PlatformInv
<1> QED
  BY <1>1, <1>4, <1>7

\* The platform rotated: the new pair is in w's hands, or the answer got lost
\* and its root is cut.
LEMMA RotateTokenInv ==
  ASSUME NEW w \in Worker, NEW a, TokenInv, Rotate(acct[w]),
         Answer(w, a),
         \/ a = issued' /\ cut' = cut
         \/ a = 0 /\ cut' = cut \cup {root[acct[w]]}
  PROVE  TokenInv'
<1> USE DEF TokenInv
<1> DEFINE n == acct[w]
<1>0. /\ PlatformInv'
      /\ n \in valid /\ n \in 1..issued
      /\ issued' = issued + 1 /\ issued \in Nat /\ issued' \in 1..MaxPairs
      /\ root'[issued'] = root[n]
      /\ \A m \in 1..issued : root'[m] = root[m] /\ m # issued'
      /\ valid' = (valid \ {n}) \cup {issued'}
  BY Rotated
<1> HIDE DEF n
<1>a. /\ pc[w] = "wire"
      /\ pc' = [pc EXCEPT ![w] = "answered"]
      /\ answer' = [answer EXCEPT ![w] = a]
      /\ UNCHANGED <<stored, dead, astray, slot, mutexes, acct, mine, granted>>
  BY DEF Answer, storeVars, lockVars
<1>b. a \in 0..issued' /\ (a = 0 \/ a = issued')
  BY <1>0
<1>c. n = acct[w] /\ acct' = acct
  BY <1>a DEF n
<1>2. CopiesInv'
  BY <1>0, <1>a, <1>b DEF CopiesInv
<1>3. GrantedInv'
  BY <1>0, <1>a, <1>b, <1>c DEF GrantedInv, CopiesInv
<1>4. MutexInv'
  BY <1>a DEF MutexInv, CopiesInv, InFlight
<1>5. OwnFlightInv'
  <2> SUFFICES ASSUME stored # 0, ~astray, NEW v \in Worker,
                      OwnFlight(v)'
               PROVE  mine[v] = slot /\ acct[v] = stored
    BY <1>a DEF OwnFlightInv
  <2>1. acct[v] \in 1..issued /\ stored \in 1..issued
    BY <1>0, <1>a DEF CopiesInv, OwnFlight, InFlight
  <2>2. OwnFlight(v)
    BY <2>1, <1>0, <1>a DEF CopiesInv, OwnFlight, InFlight
  <2> QED
    BY <2>2 DEF OwnFlightInv
<1>6. AnswerInv'
  <2> SUFFICES ASSUME NEW v \in Worker, pc'[v] = "answered"
               PROVE  /\ answer'[v] = -1 => acct[v] \notin valid'
                      /\ answer'[v] > 0 =>
                           /\ root'[answer'[v]] = root'[acct[v]]
                           /\ \/ answer'[v] \in valid'
                              \/ root'[answer'[v]] \in cut'
                           /\ answer'[v] # stored
                           /\ \A u \in Worker :
                                 /\ answer'[v] # acct[u]
                                 /\ u # v => answer'[v] # answer'[u]
    BY <1>a DEF AnswerInv
  <2>1. CASE v = w
    BY <2>1, <1>0, <1>a, <1>b, <1>c DEF CopiesInv
  <2>2. CASE v # w
    <3>1. /\ pc[v] = "answered" /\ answer'[v] = answer[v]
          /\ answer[v] \in -1..issued
      BY <2>2, <1>a DEF CopiesInv
    <3>2. answer[v] = -1 => acct[v] \notin valid'
      BY <3>1, <1>0, <1>a DEF CopiesInv, AnswerInv
    <3>3. ASSUME answer[v] > 0
          PROVE  /\ root'[answer[v]] = root'[acct[v]]
                 /\ answer[v] \in valid' \/ root'[answer[v]] \in cut'
                 /\ answer[v] # stored
                 /\ \A u \in Worker :
                       /\ answer[v] # acct[u]
                       /\ u # v => answer[v] # answer'[u]
      <4>1. /\ root[answer[v]] = root[acct[v]]
            /\ answer[v] \in valid \/ root[answer[v]] \in cut
            /\ answer[v] # stored
            /\ \A u \in Worker :
                 /\ answer[v] # acct[u]
                 /\ u # v => answer[v] # answer[u]
        BY <3>1, <3>3 DEF AnswerInv
      <4>2. answer[v] \in 1..issued /\ acct[v] \in 1..issued
        BY <3>1, <3>3 DEF CopiesInv
      <4>3. \A u \in Worker : u # v => answer[v] # answer'[u]
        BY <4>1, <4>2, <1>0, <1>a, <1>b DEF CopiesInv
      <4> QED
        BY <4>1, <4>2, <4>3, <1>0, <1>c
    <3> QED
      BY <3>1, <3>2, <3>3
  <2> QED
    BY <2>1, <2>2
<1>7. StoredInv'
  <2> SUFFICES ASSUME stored # 0, root'[stored] \notin cut'
               PROVE  \/ stored \in valid'
                      \/ \E v \in Worker :
                            /\ pc'[v] = "answered" /\ answer'[v] > 0
                            /\ root'[answer'[v]] = root'[stored]
    BY <1>a DEF StoredInv
  <2>1. stored \in 1..issued /\ root'[stored] = root[stored]
        /\ root[stored] \notin cut
    BY <1>0 DEF CopiesInv
  <2>2. CASE stored \in valid /\ n # stored
    BY <2>2, <1>0
  <2>3. CASE n = stored
    <3>1. a = issued'
      BY <2>1, <2>3, <1>c
    <3>2. pc'[w] = "answered" /\ answer'[w] = issued' /\ issued' > 0
      BY <3>1, <1>0, <1>a DEF CopiesInv
    <3> QED
      BY <2>1, <2>3, <3>2, <1>0
  <2>4. CASE stored \notin valid
    <3>1. PICK v \in Worker : /\ pc[v] = "answered" /\ answer[v] > 0
                              /\ root[answer[v]] = root[stored]
      BY <2>1, <2>4 DEF StoredInv
    <3>2. pc'[v] = "answered" /\ answer'[v] = answer[v]
      BY <3>1, <1>a DEF CopiesInv
    <3>3. answer[v] \in 1..issued
      BY <3>1 DEF CopiesInv
    <3> QED
      BY <2>1, <3>1, <3>2, <3>3, <1>0
  <2> QED
    BY <2>2, <2>3, <2>4
<1>8. DeadIsDead'
  BY <1>0, <1>a DEF DeadIsDead, CopiesInv
<1> QED
  BY <1>0, <1>2, <1>3, <1>4, <1>5, <1>6, <1>7, <1>8

\* The platform refused the pair, or nothing came back.
LEMMA AnswerTokenInv ==
  ASSUME NEW w \in Worker, NEW a \in {-1, 0}, TokenInv, Answer(w, a),
         a = -1 => acct[w] \notin valid,
         UNCHANGED platformVars
  PROVE  TokenInv'
<1> USE DEF TokenInv
<1>1. /\ pc[w] = "wire"
      /\ pc' = [pc EXCEPT ![w] = "answered"]
      /\ answer' = [answer EXCEPT ![w] = a]
      /\ UNCHANGED <<stored, dead, astray, slot, mutexes, acct, mine, granted,
                     issued, root, valid, cut>>
  BY DEF Answer, storeVars, lockVars, platformVars
<1>2. PlatformInv'
  BY <1>1 DEF PlatformInv
<1>3. CopiesInv'
  BY <1>1 DEF CopiesInv, PlatformInv
<1>4. GrantedInv'
  BY <1>1 DEF GrantedInv, CopiesInv
<1>5. MutexInv'
  BY <1>1 DEF MutexInv, CopiesInv, InFlight
<1>6. OwnFlightInv'
  BY <1>1 DEF OwnFlightInv, CopiesInv, OwnFlight, InFlight
<1>7. AnswerInv'
  BY <1>1 DEF AnswerInv, CopiesInv
<1>8. StoredInv'
  BY <1>1 DEF StoredInv, CopiesInv
<1>9. DeadIsDead'
  BY <1>1 DEF DeadIsDead
<1> QED
  BY <1>2, <1>3, <1>4, <1>5, <1>6, <1>7, <1>8, <1>9

LEMMA RefreshOnceTokenInv ==
  ASSUME NEW w \in Worker, TokenInv, RefreshOnce(w)
  PROVE  TokenInv'
  BY RotateTokenInv, AnswerTokenInv DEF RefreshOnce

\* Landing writes the record only from a flight of the stored connect, or sets
\* `astray`; two flights of one connect hold one mutex.
LEMMA LandTokenInv ==
  ASSUME NEW w \in Worker, TokenInv, Land(w)
  PROVE  TokenInv'
<1> USE DEF TokenInv
<1> DEFINE n == answer[w]
           wrote == n > 0 /\ stored # 0
           blamed == n = -1 /\ stored # 0
<1>1. /\ pc[w] = "answered"
      /\ pc' = [pc EXCEPT ![w] = Returned(w)]
      /\ answer' = [answer EXCEPT ![w] = 0]
      /\ mine' = [mine EXCEPT ![w] = 0]
      /\ UNCHANGED <<slot, mutexes, granted, issued, root, valid, cut>>
      /\ Returned(w) \in {"idle", "send"}
  BY DEF Land, lockVars, platformVars, Returned
<1>2. /\ acct' = [acct EXCEPT ![w] = IF n > 0 THEN n ELSE @]
      /\ stored' = IF wrote THEN n ELSE stored
  BY DEF Land, UpdateExisting, SetRefreshDead, storeVars, CopiesInv,
         PlatformInv
<1>3. /\ ~astray' => ~astray
      /\ ~astray' /\ wrote => root[n] = root[stored]
      /\ ~astray' /\ blamed => root[acct[w]] = root[stored]
      /\ dead' => ~wrote /\ (dead \/ blamed)
  <2>1. CASE n > 0
    <3>1. UpdateExisting(n)
      BY <2>1 DEF Land, CopiesInv, PlatformInv
    <3>2. CASE stored = 0
      BY <2>1, <3>1, <3>2 DEF UpdateExisting, storeVars
    <3>3. CASE stored # 0
      <4>1. dead' = FALSE /\ astray' = (astray \/ root[n] # root[stored])
        BY <3>1, <3>3 DEF UpdateExisting
      <4>2. ~astray' => ~astray /\ root[n] = root[stored]
        BY <4>1, Zenon
      <4> QED
        BY <2>1, <4>1, <4>2
    <3> QED
      BY <3>2, <3>3
  <2>2. CASE n = -1
    <3>1. SetRefreshDead(acct[w])
      BY <2>2 DEF Land, CopiesInv, PlatformInv
    <3>2. CASE stored = 0
      BY <2>2, <3>1, <3>2 DEF SetRefreshDead, storeVars
    <3>3. CASE stored # 0
      <4>1. astray' = (astray \/ root[acct[w]] # root[stored])
        BY <3>1, <3>3 DEF SetRefreshDead
      <4>2. ~astray' => ~astray /\ root[acct[w]] = root[stored]
        BY <4>1, Zenon
      <4> QED
        BY <2>2, <3>3, <4>2
    <3> QED
      BY <3>2, <3>3
  <2>3. CASE n = 0
    BY <2>3 DEF Land, CopiesInv, PlatformInv, storeVars
  <2> QED
    BY <2>1, <2>2, <2>3 DEF CopiesInv, PlatformInv
<1>4. /\ n = -1 => acct[w] \notin valid
      /\ n > 0 =>
           /\ n \in 1..issued
           /\ root[n] = root[acct[w]]
           /\ n \in valid \/ root[n] \in cut
           /\ n # stored /\ n # granted
           /\ \A v \in Worker : n # acct[v] /\ (v # w => n # answer[v])
  BY <1>1 DEF AnswerInv, GrantedInv, CopiesInv, PlatformInv
<1>5. acct[w] \in 1..issued
  BY <1>1 DEF CopiesInv, PlatformInv
<1> HIDE DEF n
<1>6. PlatformInv'
  BY <1>1 DEF PlatformInv
<1>7. CopiesInv'
  BY <1>1, <1>2, <1>4, SMTT(30) DEF CopiesInv, PlatformInv
<1>8. GrantedInv'
  BY <1>1, <1>2, <1>4 DEF GrantedInv, CopiesInv
<1>9. MutexInv'
  BY <1>1 DEF MutexInv, CopiesInv, InFlight
<1>10. OwnFlightInv'
  <2> SUFFICES ASSUME stored' # 0, ~astray', NEW v \in Worker,
                      OwnFlight(v)'
               PROVE  mine'[v] = slot' /\ acct'[v] = stored'
    BY DEF OwnFlightInv
  <2>1. v # w /\ InFlight(v) /\ mine'[v] = mine[v]
        /\ acct'[v] = acct[v]
    BY <1>1, <1>2 DEF OwnFlight, InFlight, CopiesInv, MutexInv
  <2>2. root[acct[v]] = root[stored']
    BY <2>1, <1>1, Zenon DEF OwnFlight
  <2>3. CASE wrote
    <3>1. OwnFlight(v) /\ OwnFlight(w)
      BY <2>1, <2>2, <2>3, <1>1, <1>2, <1>3, <1>4, Zenon DEF OwnFlight, InFlight
    <3> QED
      BY <3>1, <2>1, <2>3, <1>3, Zenon DEF OwnFlightInv, MutexInv, OwnFlight
  <2>4. CASE ~wrote
    BY <2>1, <2>2, <2>4, <1>1, <1>2, <1>3, Zenon DEF OwnFlightInv, OwnFlight
  <2> QED
    BY <2>3, <2>4
<1>11. AnswerInv'
  BY <1>1, <1>2, <1>4 DEF AnswerInv, CopiesInv
<1>12. StoredInv'
  <2>1. CASE wrote
    BY <2>1, <1>1, <1>2, <1>4 DEF StoredInv
  <2>2. CASE ~wrote
    <3>1. n > 0 => stored = 0
      BY <2>2
    <3> QED
      BY <2>2, <3>1, <1>1, <1>2 DEF StoredInv, CopiesInv, n
  <2> QED
    BY <2>1, <2>2
<1>13. DeadIsDead'
  <2> SUFFICES ASSUME stored' # 0, dead', ~astray' PROVE stored' \notin valid
    BY <1>1 DEF DeadIsDead
  <2>1. stored' = stored /\ ~astray /\ (dead \/ blamed)
    BY <1>2, <1>3, Zenon
  <2>2. CASE blamed
    <3>1. OwnFlight(w)
      BY <2>2, <1>1, <1>3 DEF OwnFlight, InFlight
    <3> QED
      BY <3>1, <2>1, <2>2, <1>4 DEF OwnFlightInv
  <2>3. CASE dead
    BY <2>1, <2>3 DEF DeadIsDead
  <2> QED
    BY <2>1, <2>2, <2>3
<1> QED
  BY <1>6, <1>7, <1>8, <1>9, <1>10, <1>11, <1>12, <1>13

\* A connect's pair is a root of its own.
LEMMA Granted ==
  ASSUME TokenInv, Grant
  PROVE  /\ PlatformInv'
         /\ issued \in Nat /\ issued' = issued + 1
         /\ root'[issued'] = issued'
         /\ \A n \in 1..issued : root'[n] = root[n] /\ n # issued'
         /\ \A n \in 1..issued : root[n] \in 1..issued
<1> USE DEF TokenInv
<1>1. /\ issued < MaxPairs /\ issued' = issued + 1 /\ issued' \in 1..MaxPairs
      /\ root' = [root EXCEPT ![issued'] = issued']
      /\ valid' \in {valid \cup {issued'}, {issued'}}
  BY DEF Grant, PlatformInv
<1>2. /\ root' \in [1..MaxPairs -> 0..MaxPairs]
      /\ root'[issued'] = issued'
      /\ \A n \in 1..issued : root'[n] = root[n] /\ n # issued'
      /\ \A n \in 1..issued' : root'[n] \in 1..n
  <2>1. issued' \in 1..issued'
    BY <1>1
  <2> QED
    BY <1>1, <2>1, NewPair DEF PlatformInv
<1>3. \A n \in valid : root'[n] = root[n] /\ root[n] # issued'
  BY <1>1, <1>2 DEF PlatformInv
<1>4. valid' \subseteq 1..issued' /\ issued' \in 0..MaxPairs
  BY <1>1 DEF PlatformInv
<1>5. \A m, n \in valid' : root'[m] = root'[n] => m = n
  BY <1>1, <1>2, <1>3, <1>4 DEF PlatformInv
<1>6. \A n \in 1..issued : root[n] \in 1..issued
  BY DEF PlatformInv
<1> QED
  BY <1>1, <1>2, <1>4, <1>5, <1>6 DEF PlatformInv

\* The platform issues the pair a connect is about to store, and may drop the
\* grants before it.
LEMMA GrantTokenInv ==
  ASSUME TokenInv, Grant
  PROVE  TokenInv'
<1> USE DEF TokenInv
<1>1. /\ PlatformInv'
      /\ issued \in Nat /\ issued' = issued + 1
      /\ root'[issued'] = issued'
      /\ \A n \in 1..issued : root'[n] = root[n] /\ n # issued'
      /\ \A n \in 1..issued : root[n] \in 1..issued
  BY Granted
<1>2. /\ \/ valid' = valid \cup {issued'} /\ cut' = cut
         \/ valid' = {issued'} /\ cut' = cut \cup {root[n] : n \in valid}
      /\ granted' = issued'
      /\ UNCHANGED <<stored, dead, astray, slot, mutexes, pc, acct,
                     mine, answer>>
  BY DEF Grant, storeVars, lockVars, workerVars
<1>3. CopiesInv'
  BY <1>1, <1>2 DEF CopiesInv
<1>4. GrantedInv'
  BY <1>1, <1>2 DEF GrantedInv, CopiesInv
<1>5. MutexInv'
  BY <1>2 DEF MutexInv, InFlight
<1>6. OwnFlightInv'
  <2> SUFFICES ASSUME stored # 0, ~astray, NEW w \in Worker,
                      OwnFlight(w)'
               PROVE  mine[w] = slot /\ acct[w] = stored
    BY <1>2 DEF OwnFlightInv
  <2>1. acct[w] \in 1..issued /\ stored \in 1..issued
    BY <1>1, <1>2 DEF CopiesInv, OwnFlight, InFlight
  <2>2. OwnFlight(w)
    BY <2>1, <1>1, <1>2 DEF OwnFlight, InFlight
  <2> QED
    BY <2>2 DEF OwnFlightInv
<1>7. AnswerInv'
  <2> SUFFICES ASSUME NEW w \in Worker, pc[w] = "answered"
               PROVE  /\ answer[w] = -1 => acct[w] \notin valid'
                      /\ answer[w] > 0 =>
                           /\ root'[answer[w]] = root'[acct[w]]
                           /\ answer[w] \in valid' \/ root'[answer[w]] \in cut'
    BY <1>2 DEF AnswerInv
  <2>1. acct[w] \in 1..issued /\ answer[w] \in -1..issued
    BY <1>1 DEF CopiesInv
  <2> QED
    BY <2>1, <1>1, <1>2 DEF AnswerInv
<1>8. StoredInv'
  BY <1>1, <1>2 DEF StoredInv, CopiesInv, AnswerInv
<1>9. DeadIsDead'
  BY <1>1, <1>2 DEF DeadIsDead, CopiesInv
<1> QED
  BY <1>1, <1>3, <1>4, <1>5, <1>6, <1>7, <1>8, <1>9

\* No worker has the pair that is stored now.
LEMMA PutTokenInv ==
  ASSUME TokenInv, Put
  PROVE  TokenInv'
<1> USE DEF TokenInv, PlatformInv, CopiesInv, MutexInv, InFlight, storeVars,
            lockVars, workerVars, platformVars
<1> USE DEF Put
<1>1. PlatformInv'
  OBVIOUS
<1>2. CopiesInv'
  OBVIOUS
<1>3. GrantedInv'
  BY DEF GrantedInv
<1>4. MutexInv'
  BY Zenon
<1>5. OwnFlightInv'
  BY SMTT(30) DEF OwnFlightInv, OwnFlight, GrantedInv
<1>6. AnswerInv'
  BY SMTT(30) DEF AnswerInv, GrantedInv
<1>7. StoredInv'
  BY DEF StoredInv, GrantedInv
<1>8. DeadIsDead'
  BY SMTT(30) DEF DeadIsDead
<1> QED
  BY <1>1, <1>2, <1>3, <1>4, <1>5, <1>6, <1>7, <1>8

\* Without a record there is nothing to keep.
LEMMA TeardownAccountTokenInv ==
  ASSUME TokenInv, TeardownAccount
  PROVE  TokenInv'
<1> USE DEF TokenInv, PlatformInv, CopiesInv, MutexInv, InFlight, storeVars,
            lockVars, workerVars, platformVars
<1> USE DEF TeardownAccount
<1>1. PlatformInv'
  OBVIOUS
<1>2. CopiesInv'
  OBVIOUS
<1>3. GrantedInv'
  BY Zenon DEF GrantedInv
<1>4. MutexInv'
  OBVIOUS
<1>5. OwnFlightInv'
  BY Zenon DEF OwnFlightInv
<1>6. AnswerInv'
  BY SMTT(30) DEF AnswerInv
<1>7. StoredInv'
  BY DEF StoredInv
<1>8. DeadIsDead'
  BY DEF DeadIsDead
<1> QED
  BY <1>1, <1>2, <1>3, <1>4, <1>5, <1>6, <1>7, <1>8, Zenon

\* The platform ends a grant.
LEMMA RevokeRootTokenInv ==
  ASSUME NEW r \in 1..MaxPairs, TokenInv, RevokeRoot(r)
  PROVE  TokenInv'
<1> USE DEF TokenInv, PlatformInv, CopiesInv, MutexInv, InFlight, storeVars,
            lockVars, workerVars, platformVars
<1> USE DEF RevokeRoot
<1>1. PlatformInv'
  BY Zenon
<1>2. CopiesInv'
  OBVIOUS
<1>3. GrantedInv'
  BY DEF GrantedInv
<1>4. MutexInv'
  OBVIOUS
<1>5. OwnFlightInv'
  BY Zenon DEF OwnFlightInv, OwnFlight
<1>6. AnswerInv'
  BY Zenon DEF AnswerInv
<1>7. StoredInv'
  BY DEF StoredInv
<1>8. DeadIsDead'
  BY DEF DeadIsDead
<1> QED
  BY <1>1, <1>2, <1>3, <1>4, <1>5, <1>6, <1>7, <1>8, SMTT(30)

LEMMA StepTokenInv == TokenInv /\ [Next]_vars => TokenInv'
<1> SUFFICES ASSUME TokenInv, [Next]_vars PROVE TokenInv'
  OBVIOUS
<1>1. ASSUME NEW w \in Worker, WorkerStep(w) PROVE TokenInv'
  BY <1>1, RequestTokenInv, FlightLockTokenInv, RereadTokenInv,
     RefreshOnceTokenInv, LandTokenInv, SMTT(30)
     DEF WorkerStep
<1>2. CASE Age
  BY <1>2, SMTT(30)
     DEF Age, TokenInv, PlatformInv, CopiesInv, GrantedInv, MutexInv,
         OwnFlightInv, AnswerInv, StoredInv, DeadIsDead, OwnFlight, InFlight,
         storeVars, lockVars, workerVars, platformVars
<1> QED
  BY <1>1, <1>2, GrantTokenInv, PutTokenInv, TeardownAccountTokenInv,
     RevokeRootTokenInv, StutterTokenInv
     DEF Next

-----------------------------------------------------------------------------

\* One working pair per connect, one holder per mutex, and an answer that is
\* its worker's alone, in every state.
THEOREM TokenInvariant ==
  ASSUME MaxPairs \in Nat
  PROVE  Spec => []TokenInv
  BY InitTokenInv, StepTokenInv, PTL DEF Spec

\* For any number of workers, connects, disconnects and lost answers, the
\* record of an account holds the pair its platform accepts whenever no
\* refresh of its connect is on the wire (ensureFresh, UpdateExisting).
THEOREM CredentialIsKept ==
  ASSUME MaxPairs \in Nat
  PROVE  Spec => []CredentialKept
<1>1. TokenInv => CredentialKept
  <2> SUFFICES ASSUME TokenInv, stored # 0, root[stored] \notin cut,
                      \A w \in Worker : ~OwnFlight(w)
               PROVE  stored \in valid
    BY DEF CredentialKept
  <2>1. ASSUME NEW w \in Worker, pc[w] = "answered", answer[w] > 0,
               root[answer[w]] = root[stored]
        PROVE  FALSE
    BY <2>1 DEF TokenInv, AnswerInv, OwnFlight, InFlight
  <2> QED
    BY <2>1 DEF TokenInv, StoredInv
<1> QED
  BY TokenInvariant, <1>1, PTL

\* A dead account's stored pair is refused by its platform, unless a flight
\* that a relink or a disconnect overtook wrote the record (SetRefreshDead).
THEOREM DeadIsReallyDead ==
  ASSUME MaxPairs \in Nat
  PROVE  Spec => []DeadIsDead
  BY TokenInvariant, PTL DEF TokenInv

-----------------------------------------------------------------------------
(* Typing.                                                                 *)

\* What the invariant above leaves out.
FlagsInv ==
    /\ dead \in BOOLEAN /\ astray \in BOOLEAN
    /\ force \in [Worker -> BOOLEAN]

SetsInv ==
    /\ aged \in 0..MaxPairs
    /\ cut \subseteq 1..MaxPairs

LEMMA StepFlags == FlagsInv /\ [Next]_vars => FlagsInv'
<1> SUFFICES ASSUME FlagsInv, [Next]_vars PROVE FlagsInv'
  OBVIOUS
<1> USE DEF FlagsInv, storeVars, workerVars
<1>1. ASSUME NEW w \in Worker, WorkerStep(w)
      PROVE  FlagsInv'
  <2>1. CASE Begin(w)
    BY <2>1 DEF Begin
  <2>2. CASE NoRefreshNeeded(w)
    BY <2>2 DEF NoRefreshNeeded
  <2>3. CASE FlightLock(w)
    BY <2>3 DEF FlightLock
  <2>4. CASE Reread(w)
    BY <2>4, Zenon DEF Reread
  <2>5. CASE RefreshOnce(w)
    BY <2>5 DEF RefreshOnce, Answer
  <2>6. CASE Land(w)
    BY <2>6, Zenon DEF Land, UpdateExisting, SetRefreshDead
  <2>7. CASE Send(w)
    BY <2>7, Zenon DEF Send
  <2> QED
    BY <1>1, <2>1, <2>2, <2>3, <2>4, <2>5, <2>6, <2>7 DEF WorkerStep
<1>2. CASE Put \/ TeardownAccount
  BY <1>2, ZenonT(30) DEF Put, TeardownAccount
<1>3. CASE Grant \/ Age \/ (\E r \in Pairs : RevokeRoot(r))
  BY <1>3 DEF Grant, Age, RevokeRoot
<1>4. CASE UNCHANGED vars
  BY <1>4 DEF vars
<1> QED
  BY <1>1, <1>2, <1>3, <1>4 DEF Next

LEMMA StepSets == TokenInv /\ SetsInv /\ [Next]_vars => SetsInv'
<1> SUFFICES ASSUME TokenInv, SetsInv, [Next]_vars PROVE SetsInv'
  OBVIOUS
<1> USE DEF TokenInv, PlatformInv, SetsInv
<1>1. \A n \in valid : root[n] \in 1..MaxPairs
  OBVIOUS
<1>2. ASSUME NEW w \in Worker, WorkerStep(w)
      PROVE  UNCHANGED aged /\ cut' \subseteq 1..MaxPairs
  <2>1. CASE RefreshOnce(w)
    <3>1. UNCHANGED aged
      BY <2>1 DEF RefreshOnce, Answer
    <3>2. cut' = cut \/ (acct[w] \in valid /\ cut' = cut \cup {root[acct[w]]})
      BY <2>1, SMTT(30) DEF RefreshOnce, Rotate, platformVars
    <3> QED
      BY <3>1, <3>2, <1>1, Zenon
  <2>2. CASE ~RefreshOnce(w)
    BY <1>2, <2>2
       DEF WorkerStep, Begin, NoRefreshNeeded, FlightLock, Reread, Land, Send,
           platformVars
  <2> QED
    BY <2>1, <2>2
<1>3. CASE Grant
  BY <1>1, <1>3, Zenon DEF Grant
<1>4. CASE Put \/ TeardownAccount
  BY <1>4, Zenon DEF Put, TeardownAccount, platformVars
<1>5. ASSUME NEW r \in 1..MaxPairs, RevokeRoot(r)
      PROVE  UNCHANGED aged /\ cut' \subseteq 1..MaxPairs
  BY <1>5 DEF RevokeRoot
<1>6. CASE Age
  BY <1>6 DEF Age, platformVars
<1>7. CASE UNCHANGED vars
  BY <1>7 DEF vars, platformVars
<1> QED
  BY <1>2, <1>3, <1>4, <1>5, <1>6, <1>7 DEF Next

\* Every variable ranges over the values the code can give it.
THEOREM TokenTyped ==
  ASSUME MaxPairs \in Nat
  PROVE  Spec => []TokenTypeOK
<1>1. Init => FlagsInv
  BY Zenon DEF Init, FlagsInv
<1>2. Init => SetsInv
  BY DEF Init, SetsInv
<1>3. TokenInv /\ FlagsInv /\ SetsInv => TokenTypeOK
  <2> SUFFICES ASSUME TokenInv, FlagsInv, SetsInv PROVE TokenTypeOK
    OBVIOUS
  <2>1. /\ stored \in 1..MaxPairs \cup {0} /\ granted \in 1..MaxPairs \cup {0}
        /\ slot \in Nat /\ mutexes \in Nat
        /\ issued \in 0..MaxPairs /\ valid \subseteq 1..MaxPairs
    BY DEF TokenInv, PlatformInv, CopiesInv, MutexInv
  <2>2. /\ acct \in [Worker -> 1..MaxPairs \cup {0}]
        /\ mine \in [Worker -> Nat]
        /\ answer \in [Worker -> 1..MaxPairs \cup {0, -1}]
    BY SMTT(30) DEF TokenInv, PlatformInv, CopiesInv, MutexInv
  <2>3. root \in [1..MaxPairs -> 1..MaxPairs \cup {0}]
    BY DEF TokenInv, PlatformInv
  <2> QED
    BY <2>1, <2>2, <2>3, Zenon
       DEF TokenInv, CopiesInv, FlagsInv, SetsInv, TokenTypeOK
<1> QED
  BY <1>1, <1>2, <1>3, StepFlags, StepSets, TokenInvariant, PTL DEF Spec
=============================================================================
