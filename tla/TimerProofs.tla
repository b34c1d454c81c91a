---------------------------- MODULE TimerProofs -----------------------------
(* Proofs about the two parts of the node that live by timers of CDocker:  *)
(* the keys of CWallet, which open after a restart and are not locked too  *)
(* early, for any keys, passphrases, threads, timeouts and bounds; and     *)
(* CNetChannel's PushTx, which never loses its timer and waits for the     *)
(* answers of a peer, for any peers, transactions, message sizes and calls.*)
EXTENDS WalletKeys, PushTx, SequenceTheorems, TLAPS

-----------------------------------------------------------------------------
(* The keys of the wallet: the inductive invariant.                        *)
KeyStore(n) == [key : Keys, locked : BOOLEAN, nTimerId : 0..n, nAutoLockTime : Int,
                nAutoDelayTime : Nat]

Types ==
  /\ DOMAIN store \subseteq Key /\ store \in [DOMAIN store -> KeyStore(nTimerIdAlloc)]
  /\ DOMAIN db \subseteq Key /\ db \in [DOMAIN db -> Keys]
  /\ clock \in Nat /\ nTimerIdAlloc \in Nat /\ up \in BOOLEAN
  /\ timers \in [DOMAIN timers -> [key : Key, at : Int]]
  /\ DOMAIN timers \subseteq 1..nTimerIdAlloc
  /\ fired \subseteq (1..nTimerIdAlloc) \X Key

(* The memory of the process is empty while it is down.                    *)
DownInv == ~up => store = <<>> /\ timers = <<>> /\ fired = {}

(* A timer that is still the timer of its key is armed for the time that   *)
(* was promised last, and when it has fired that time has come.            *)
TimerInv ==
  /\ \A i \in DOMAIN timers :
       timers[i].key \in DOMAIN store /\ store[timers[i].key].nTimerId = i
         => timers[i].at = store[timers[i].key].nAutoLockTime
  /\ \A c \in fired :
       c[2] \in DOMAIN store /\ store[c[2]].nTimerId = c[1] => clock >= store[c[2]].nAutoLockTime

KeyInv == Types /\ DownInv /\ TimerInv /\ OpensAfterRestart

-----------------------------------------------------------------------------
(* A call that changes one key and may arm a timer for it.                 *)
LEMMA OneKey ==
  ASSUME KeyInv, up, NEW k \in Key, NEW n \in {nTimerIdAlloc, nTimerIdAlloc + 1},
         NEW r \in KeyStore(n), store' = Put(store, k, r), nTimerIdAlloc' = n,
         \/ r.nTimerId \in {0, n} \ (1..nTimerIdAlloc)
         \/ /\ k \in DOMAIN store /\ r.nTimerId = store[k].nTimerId
            /\ r.nAutoLockTime = store[k].nAutoLockTime,
         DOMAIN timers' \subseteq 1..n,
         timers' \in [DOMAIN timers' -> [key : Key, at : Int]],
         \A i \in DOMAIN timers' :
           \/ i \in DOMAIN timers /\ timers'[i] = timers[i]
           \/ i \notin 1..nTimerIdAlloc /\ timers'[i] = [key |-> k, at |-> r.nAutoLockTime],
         fired' \subseteq fired, UNCHANGED <<clock, up>>,
         DOMAIN db' \subseteq Key, db' \in [DOMAIN db' -> Keys],
         k \in DOMAIN db' /\ db'[k] = r.key,
         \A x \in DOMAIN db : x # k => x \in DOMAIN db' /\ db'[x] = db[x]
  PROVE  KeyInv'
<1>1. /\ DOMAIN store' = DOMAIN store \cup {k} /\ store'[k] = r
      /\ \A x \in DOMAIN store : x # k => store'[x] = store[x]
  BY Zenon DEF Put
<1>2. nTimerIdAlloc \in Nat /\ n \in Nat /\ 0..nTimerIdAlloc \subseteq 0..n
      /\ KeyStore(nTimerIdAlloc) \subseteq KeyStore(n)
  BY DEF KeyInv, Types, KeyStore
<1>3. Types'
  <2>1. DOMAIN store' \subseteq Key /\ store' \in [DOMAIN store' -> KeyStore(n)]
    <3>1. store' = [x \in DOMAIN store \cup {k} |-> IF x = k THEN r ELSE store[x]]
      BY Zenon DEF Put
    <3>2. \A x \in DOMAIN store : store[x] \in KeyStore(n)
      BY Zenon, <1>2 DEF KeyInv, Types
    <3> QED  BY Zenon, <3>1, <3>2 DEF KeyInv, Types
  <2>2. fired' \subseteq (1..n) \X Key
    BY <1>2 DEF KeyInv, Types
  <2> QED  BY Zenon, <1>2, <2>1, <2>2 DEF KeyInv, Types
<1>4. DownInv'
  BY Zenon DEF DownInv
<1>5. ASSUME NEW i \in DOMAIN timers', timers'[i].key \in DOMAIN store',
             store'[timers'[i].key].nTimerId = i
      PROVE  timers'[i].at = store'[timers'[i].key].nAutoLockTime
  <2>1. CASE i \in DOMAIN timers /\ timers'[i] = timers[i]
    <3>1. i \in 1..nTimerIdAlloc
      BY Zenon, <2>1 DEF KeyInv, Types
    <3>2. CASE timers[i].key = k
      BY <1>1, <1>2, <1>5, <2>1, <3>1, <3>2 DEF KeyInv, TimerInv
    <3>3. CASE timers[i].key # k
      BY <1>1, <1>5, <2>1, <3>3 DEF KeyInv, TimerInv
    <3> QED  BY Zenon, <3>2, <3>3
  <2>2. CASE timers'[i] = [key |-> k, at |-> r.nAutoLockTime]
    BY <1>1, <2>2
  <2> QED  BY Zenon, <2>1, <2>2
<1>6. ASSUME NEW c \in fired', c[2] \in DOMAIN store', store'[c[2]].nTimerId = c[1]
      PROVE  clock' >= store'[c[2]].nAutoLockTime
  <2>1. c \in fired /\ c[1] \in 1..nTimerIdAlloc
    BY Zenon, <1>6 DEF KeyInv, Types
  <2>2. CASE c[2] = k
    BY <1>1, <1>2, <1>6, <2>1, <2>2 DEF KeyInv, TimerInv
  <2>3. CASE c[2] # k
    BY Zenon, <1>1, <1>6, <2>1, <2>3 DEF KeyInv, TimerInv
  <2> QED  BY Zenon, <2>2, <2>3
<1>7. TimerInv'
  BY Zenon, <1>5, <1>6 DEF TimerInv
<1>8. OpensAfterRestart'
  BY Zenon, <1>1 DEF KeyInv, OpensAfterRestart
<1> QED  BY Zenon, <1>3, <1>4, <1>7, <1>8 DEF KeyInv

(* A key is forgotten, or nothing of it changes; timers may go.            *)
LEMMA FewerTimers ==
  ASSUME KeyInv, NEW S, store' = Without(store, S), NEW T, timers' = Without(timers, T),
         fired' \subseteq fired \cup {<<i, timers[i].key>> : i \in {j \in DOMAIN timers :
                                                                   timers[j].at <= clock}},
         UNCHANGED <<db, nTimerIdAlloc, up>>, clock' \in Nat, clock' >= clock
  PROVE  KeyInv'
<1>1. /\ DOMAIN store' \subseteq DOMAIN store /\ \A x \in DOMAIN store' : store'[x] = store[x]
      /\ store' \in [DOMAIN store' -> KeyStore(nTimerIdAlloc)]
  BY Zenon DEF Without, KeyInv, Types
<1>2. /\ DOMAIN timers' \subseteq DOMAIN timers /\ \A i \in DOMAIN timers' : timers'[i] = timers[i]
      /\ timers' \in [DOMAIN timers' -> [key : Key, at : Int]]
  BY Zenon DEF Without, KeyInv, Types
<1>3. ASSUME NEW i \in DOMAIN timers
      PROVE  /\ i \in 1..nTimerIdAlloc /\ timers[i].key \in Key /\ timers[i].at \in Int
             /\ timers[i].key \in DOMAIN store /\ store[timers[i].key].nTimerId = i
                  => timers[i].at = store[timers[i].key].nAutoLockTime
  BY Zenon DEF KeyInv, Types, TimerInv
<1>4. fired' \subseteq (1..nTimerIdAlloc) \X Key
  BY <1>3 DEF KeyInv, Types
<1>5. Types'
  BY Zenon, <1>1, <1>2, <1>4 DEF KeyInv, Types
<1>6. DownInv'
  <2>1. SUFFICES ASSUME ~up  PROVE DownInv'
    BY Zenon DEF DownInv
  <2>2. store = <<>> /\ timers = <<>> /\ fired = {}
    BY Zenon, <2>1 DEF KeyInv, DownInv
  <2>3. DOMAIN store = {} /\ DOMAIN timers = {}
    BY <2>2
  <2>4. store' = store /\ timers' = timers
    BY <2>2, <2>3 DEF Without
  <2> QED  BY Zenon, <2>2, <2>3, <2>4 DEF DownInv
<1>7. ASSUME NEW c \in fired', c[2] \in DOMAIN store', store'[c[2]].nTimerId = c[1]
      PROVE  clock' >= store'[c[2]].nAutoLockTime
  <2>1. c[2] \in DOMAIN store /\ store[c[2]].nTimerId = c[1] /\ store'[c[2]] = store[c[2]]
    BY Zenon, <1>1, <1>7
  <2>2. store[c[2]].nAutoLockTime \in Int /\ clock \in Nat
    BY Zenon, <2>1 DEF KeyInv, Types, KeyStore
  <2>3. clock >= store[c[2]].nAutoLockTime
    <3>1. CASE c \in fired
      BY Zenon, <2>1, <3>1 DEF KeyInv, TimerInv
    <3>2. CASE \E i \in DOMAIN timers : timers[i].at <= clock /\ c = <<i, timers[i].key>>
      BY <1>3, <2>1, <2>2, <3>2
    <3> QED  BY Zenon, <3>1, <3>2
  <2> QED  BY <2>1, <2>2, <2>3
<1>8. TimerInv'
  BY <1>1, <1>2, <1>3, <1>7 DEF TimerInv
<1>9. OpensAfterRestart'
  BY Zenon, <1>1 DEF KeyInv, OpensAfterRestart
<1> QED  BY Zenon, <1>5, <1>6, <1>8, <1>9 DEF KeyInv

LEMMA KeyFacts ==
  ASSUME KeyInv, NEW k \in DOMAIN store
  PROVE  /\ up /\ k \in Key /\ store[k] \in KeyStore(nTimerIdAlloc)
         /\ k \in DOMAIN db /\ db[k] = store[k].key
<1>1. up
  BY DEF KeyInv, DownInv, Types
<1> QED  BY Zenon, <1>1 DEF KeyInv, Types, OpensAfterRestart

LEMMA KeyKinds ==
  /\ PubKey \in Keys /\ \A p \in Pass : PrivKey(p) \in Keys
  /\ \A n \in Nat, key \in Keys : New(key) \in KeyStore(n)
  /\ \A n \in Nat : \A r \in KeyStore(n) : Locked(r) \in KeyStore(n)
<1>1. PubKey \in Keys /\ \A p \in Pass : PrivKey(p) \in Keys
  BY Zenon DEF Keys
<1>2. ASSUME NEW n \in Nat, NEW key \in Keys  PROVE New(key) \in KeyStore(n)
  BY DEF New, KeyStore
<1>3. ASSUME NEW n \in Nat, NEW r \in KeyStore(n)  PROVE Locked(r) \in KeyStore(n)
  <2>1. r.key \in Keys
    BY Zenon DEF KeyStore
  <2> QED  BY Zenon, <1>2, <2>1 DEF Locked
<1> QED  BY Zenon, <1>1, <1>2, <1>3

(* Nothing is taken from a function.                                       *)
LEMMA WithoutNone ==
  ASSUME KeyInv  PROVE store = Without(store, {}) /\ timers = Without(timers, {})
BY Zenon DEF KeyInv, Types, Without

LEMMA AddKeyInv ==
  ASSUME KeyInv, NEW k \in Key, NEW key \in Keys, AddKey(k, key)  PROVE KeyInv'
<1>1. New(key) \in KeyStore(nTimerIdAlloc) /\ New(key).key = key /\ New(key).nTimerId = 0
  BY Zenon, KeyKinds DEF New, KeyInv, Types
<1>2. /\ DOMAIN db' \subseteq Key /\ db' \in [DOMAIN db' -> Keys] /\ k \in DOMAIN db'
      /\ db'[k] = key /\ \A x \in DOMAIN db : x # k => x \in DOMAIN db' /\ db'[x] = db[x]
  BY Zenon DEF AddKey, Put, KeyInv, Types
<1>3. /\ store' = Put(store, k, New(key)) /\ up
      /\ UNCHANGED <<timers, nTimerIdAlloc, fired, clock, up>>
  BY Zenon DEF AddKey, SetKey, docker, rest
<1> QED  BY <1>1, <1>2, <1>3, OneKey DEF KeyInv, Types

LEMMA EncryptInv ==
  ASSUME KeyInv, NEW k \in Key, NEW p \in Pass, NEW old \in Pass, NEW w \in BOOLEAN,
         Encrypt(k, p, old, w)
  PROVE  KeyInv'
<1>1. CASE w
  <2> DEFINE r == [store[k] EXCEPT !.key = PrivKey(p), !.locked = TRUE]
  <2>1. /\ r \in KeyStore(nTimerIdAlloc) /\ r.key = PrivKey(p) /\ r.nTimerId = store[k].nTimerId
        /\ r.nAutoLockTime = store[k].nAutoLockTime /\ k \in DOMAIN store
    <3>1. k \in DOMAIN store /\ store[k] \in KeyStore(nTimerIdAlloc) /\ PrivKey(p) \in Keys
      BY Zenon, KeyKinds, KeyFacts DEF Encrypt
    <3> QED  BY Zenon, <3>1 DEF KeyStore
  <2>2. /\ DOMAIN db' \subseteq Key /\ db' \in [DOMAIN db' -> Keys] /\ k \in DOMAIN db'
        /\ db'[k] = PrivKey(p) /\ \A x \in DOMAIN db : x # k => x \in DOMAIN db' /\ db'[x] = db[x]
    BY <1>1, KeyKinds DEF Encrypt, Put, KeyInv, Types
  <2>3. store' = Put(store, k, r) /\ up /\ UNCHANGED <<timers, nTimerIdAlloc, fired, clock, up>>
    BY Zenon, <1>1 DEF Encrypt, SetKey, docker, rest
  <2> QED  BY Zenon, <2>1, <2>2, <2>3, OneKey DEF KeyInv, Types
<1>2. CASE ~w
  BY <1>2, WithoutNone, FewerTimers DEF Encrypt, docker, rest, KeyInv, Types
<1> QED  BY Zenon, <1>1, <1>2

LEMMA LockInv ==
  ASSUME KeyInv, NEW k \in Key, Lock(k)  PROVE KeyInv'
<1>1. k \in DOMAIN store /\ UNCHANGED <<db, nTimerIdAlloc, fired, clock, up>> /\ up
  BY Zenon DEF Lock, Private, rest
<1>2. PICK r \in KeyStore(nTimerIdAlloc) : \E T :
        /\ store' = Put(store, k, r) /\ timers' = Without(timers, T) /\ r.key = store[k].key
        /\ r.nTimerId = 0 \/ (r.nTimerId = store[k].nTimerId
                              /\ r.nAutoLockTime = store[k].nAutoLockTime)
  <2>1. CASE store[k].nTimerId # 0
    <3>1. Locked(store[k]) \in KeyStore(nTimerIdAlloc) /\ Locked(store[k]).key = store[k].key
          /\ Locked(store[k]).nTimerId = 0
      BY Zenon, <1>1, KeyFacts, KeyKinds DEF Locked, New, KeyInv, Types, KeyStore
    <3> QED  BY Zenon, <2>1, <3>1 DEF Lock, SetKey
  <2>2. CASE store[k].nTimerId = 0
    <3> DEFINE r == [store[k] EXCEPT !.locked = TRUE]
    <3>1. /\ r \in KeyStore(nTimerIdAlloc) /\ r.key = store[k].key
          /\ r.nTimerId = store[k].nTimerId /\ r.nAutoLockTime = store[k].nAutoLockTime
      BY Zenon, <1>1, KeyFacts DEF KeyStore
    <3>2. store' = Put(store, k, r) /\ timers' = Without(timers, {})
      BY Zenon, <2>2, WithoutNone DEF Lock, SetKey
    <3> QED  BY Zenon, <3>1, <3>2
  <2> QED  BY Zenon, <2>1, <2>2
<1>3. /\ DOMAIN timers' \subseteq DOMAIN timers /\ \A i \in DOMAIN timers' : timers'[i] = timers[i]
      /\ timers' \in [DOMAIN timers' -> [key : Key, at : Int]]
  BY Zenon, <1>2 DEF Without, KeyInv, Types
<1>4. r.nTimerId \in {0, nTimerIdAlloc} \ (1..nTimerIdAlloc)
      \/ (r.nTimerId = store[k].nTimerId /\ r.nAutoLockTime = store[k].nAutoLockTime)
  BY <1>2
<1> QED  BY Zenon, <1>1, <1>2, <1>3, <1>4, KeyFacts, OneKey DEF KeyInv, Types

(* A key is given a new timer, and older ones may go.                      *)
LEMMA ArmInv ==
  ASSUME KeyInv, NEW k \in DOMAIN store, NEW d \in Nat, NEW r \in KeyStore(nTimerIdAlloc + 1),
         NEW T, r.key = store[k].key, r.nTimerId = nTimerIdAlloc + 1,
         r.nAutoLockTime = clock + d, store' = Put(store, k, r),
         timers' = Without(Arm(k, d), T), nTimerIdAlloc' = nTimerIdAlloc + 1,
         UNCHANGED <<db, fired, clock, up>>
  PROVE  KeyInv'
<1> DEFINE n == nTimerIdAlloc + 1
<1>1. up /\ k \in Key /\ k \in DOMAIN db /\ db[k] = store[k].key
  BY Zenon, KeyFacts
<1>2. nTimerIdAlloc \in Nat /\ clock \in Nat /\ n \notin 1..nTimerIdAlloc
      /\ 1..nTimerIdAlloc \subseteq 1..n /\ n \in 1..n
  BY DEF KeyInv, Types
<1>3. timers' = [i \in (DOMAIN timers \cup {n}) \ T |->
                   IF i = n THEN [key |-> k, at |-> clock + d] ELSE timers[i]]
  BY Zenon DEF Without, Arm, Put
<1>4. DOMAIN timers' \subseteq 1..n /\ timers' \in [DOMAIN timers' -> [key : Key, at : Int]]
  BY <1>1, <1>2, <1>3 DEF KeyInv, Types
<1>5. \A i \in DOMAIN timers' :
        \/ i \in DOMAIN timers /\ timers'[i] = timers[i]
        \/ i \notin 1..nTimerIdAlloc /\ timers'[i] = [key |-> k, at |-> r.nAutoLockTime]
  BY Zenon, <1>2, <1>3
<1> QED  BY Zenon, <1>1, <1>2, <1>4, <1>5, OneKey DEF KeyInv, Types

(* What a new timer changes of a key.                                      *)
Rearm(r, t, n) == [r EXCEPT !.nAutoLockTime = t, !.nTimerId = n + 1]

LEMMA Rearmed ==
  ASSUME NEW n \in Nat, NEW r \in KeyStore(n), NEW t \in Int
  PROVE  /\ Rearm(r, t, n) \in KeyStore(n + 1) /\ Rearm(r, t, n).key = r.key
         /\ Rearm(r, t, n).nTimerId = n + 1 /\ Rearm(r, t, n).nAutoLockTime = t
<1>1. PICK m \in Nat : m = n + 1
  OBVIOUS
<1>2. 0..n \subseteq 0..m /\ m \in 0..m
  BY <1>1
<1>3. r \in KeyStore(m)
  BY Zenon, <1>2 DEF KeyStore
<1>4. PICK q : q = [r EXCEPT !.nAutoLockTime = t, !.nTimerId = m]
  BY Zenon
<1>5. q \in KeyStore(m) /\ q.key = r.key /\ q.nTimerId = m /\ q.nAutoLockTime = t
  BY Zenon, <1>2, <1>3, <1>4 DEF KeyStore
<1>6. q = Rearm(r, t, n)
  BY Zenon, <1>1, <1>4 DEF Rearm
<1> QED  BY Zenon, <1>1, <1>5, <1>6

LEMMA UnlockInv ==
  ASSUME KeyConstants, KeyInv, NEW k \in Key, NEW p \in Pass, NEW d \in Delay, Unlock(k, p, d)
  PROVE  KeyInv'
<1>1. k \in DOMAIN store /\ UNCHANGED <<db, fired, clock, up>>
  BY Zenon DEF Unlock, Private, rest
<1>2. up /\ store[k] \in KeyStore(nTimerIdAlloc) /\ k \in DOMAIN db /\ db[k] = store[k].key
      /\ d \in Nat /\ clock \in Nat /\ nTimerIdAlloc \in Nat
  BY Zenon, <1>1, KeyFacts DEF KeyConstants, KeyInv, Types
<1>3. CASE d > 0
  <2> DEFINE r == [store[k] EXCEPT !.locked = FALSE, !.nAutoDelayTime = d,
                                   !.nAutoLockTime = clock + d, !.nTimerId = nTimerIdAlloc + 1]
             q == [store[k] EXCEPT !.locked = FALSE, !.nAutoDelayTime = d]
  <2>1. q \in KeyStore(nTimerIdAlloc) /\ q.key = store[k].key
    BY Zenon, <1>2 DEF KeyStore
  <2>2. r = Rearm(q, clock + d, nTimerIdAlloc)
    BY Zenon DEF Rearm
  <2>3. /\ r \in KeyStore(nTimerIdAlloc + 1) /\ r.key = q.key
        /\ r.nTimerId = nTimerIdAlloc + 1 /\ r.nAutoLockTime = clock + d
    <3>1. clock + d \in Int
      BY <1>2
    <3> HIDE DEF q, r
    <3>2. /\ Rearm(q, clock + d, nTimerIdAlloc) \in KeyStore(nTimerIdAlloc + 1)
          /\ Rearm(q, clock + d, nTimerIdAlloc).key = q.key
          /\ Rearm(q, clock + d, nTimerIdAlloc).nTimerId = nTimerIdAlloc + 1
          /\ Rearm(q, clock + d, nTimerIdAlloc).nAutoLockTime = clock + d
      BY ZenonT(40), <1>2, <2>1, <3>1, Rearmed
    <3> QED  BY Zenon, <2>2, <3>2
  <2>4. /\ store' = Put(store, k, r) /\ timers' = Arm(k, d)
        /\ nTimerIdAlloc' = nTimerIdAlloc + 1
    BY Zenon, <1>3 DEF Unlock, SetKey
  <2>5. timers' = Without(Arm(k, d), {})
    BY Zenon, <2>4 DEF Without, Arm, Put
  <2> HIDE DEF r, q
  <2> QED  BY Zenon, <1>1, <1>2, <2>1, <2>3, <2>4, <2>5, ArmInv
<1>4. CASE ~(d > 0)
  <2> DEFINE r == [store[k] EXCEPT !.locked = FALSE]
  <2>1. /\ r \in KeyStore(nTimerIdAlloc) /\ r.key = store[k].key
        /\ r.nTimerId = store[k].nTimerId /\ r.nAutoLockTime = store[k].nAutoLockTime
    BY Zenon, <1>2 DEF KeyStore
  <2>2. store' = Put(store, k, r) /\ UNCHANGED <<timers, nTimerIdAlloc>>
    BY Zenon, <1>4 DEF Unlock, SetKey
  <2> HIDE DEF r
  <2> QED  BY Zenon, <1>1, <1>2, <2>1, <2>2, OneKey DEF KeyInv, Types
<1> QED  BY Zenon, <1>3, <1>4

LEMMA UpdateAutoLockInv ==
  ASSUME KeyInv, NEW s \in Signer, UpdateAutoLock(s)  PROVE KeyInv'
<1>1. UNCHANGED <<db, fired, clock, up>>
  BY Zenon DEF UpdateAutoLock
<1>2. PICK k \in signed[s] :
        IF Private(k) /\ store[k].nAutoDelayTime > 0
          THEN /\ SetKey(k, [store[k] EXCEPT !.nAutoLockTime = clock + store[k].nAutoDelayTime,
                                             !.nTimerId = nTimerIdAlloc + 1])
               /\ timers' = Without(Arm(k, store[k].nAutoDelayTime), {store[k].nTimerId})
               /\ nTimerIdAlloc' = nTimerIdAlloc + 1
          ELSE UNCHANGED <<store, timers, nTimerIdAlloc>>
  BY Zenon DEF UpdateAutoLock
<1>3. CASE Private(k) /\ store[k].nAutoDelayTime > 0
  <2> DEFINE r == [store[k] EXCEPT !.nAutoLockTime = clock + store[k].nAutoDelayTime,
                                   !.nTimerId = nTimerIdAlloc + 1]
             d == store[k].nAutoDelayTime
  <2>1. k \in DOMAIN store /\ store[k] \in KeyStore(nTimerIdAlloc) /\ clock \in Nat
        /\ nTimerIdAlloc \in Nat /\ d \in Nat
    BY Zenon, <1>3, KeyFacts DEF Private, KeyInv, Types, KeyStore
  <2>2. /\ r \in KeyStore(nTimerIdAlloc + 1) /\ r.key = store[k].key
        /\ r.nTimerId = nTimerIdAlloc + 1 /\ r.nAutoLockTime = clock + d
    <3>1. clock + d \in Int
      BY <2>1
    <3>2. r = Rearm(store[k], clock + d, nTimerIdAlloc)
      BY Zenon DEF Rearm
    <3> HIDE DEF r, d
    <3>3. PICK q \in KeyStore(nTimerIdAlloc) : q = store[k]
      BY Zenon, <2>1
    <3>4. PICK t \in Int : t = clock + d
      BY Zenon, <3>1
    <3>5. /\ Rearm(q, t, nTimerIdAlloc) \in KeyStore(nTimerIdAlloc + 1)
          /\ Rearm(q, t, nTimerIdAlloc).key = q.key
          /\ Rearm(q, t, nTimerIdAlloc).nTimerId = nTimerIdAlloc + 1
          /\ Rearm(q, t, nTimerIdAlloc).nAutoLockTime = t
      BY Zenon, <2>1, Rearmed
    <3> QED  BY Zenon, <3>2, <3>3, <3>4, <3>5
  <2>5. /\ store' = Put(store, k, r) /\ timers' = Without(Arm(k, d), {store[k].nTimerId})
        /\ nTimerIdAlloc' = nTimerIdAlloc + 1
    BY Zenon, <1>2, <1>3 DEF SetKey
  <2> HIDE DEF r, d
  <2> QED  BY Zenon, <1>1, <2>1, <2>2, <2>5, ArmInv
<1>4. CASE ~(Private(k) /\ store[k].nAutoDelayTime > 0)
  BY <1>1, <1>2, <1>4, WithoutNone, FewerTimers DEF KeyInv, Types
<1> QED  BY Zenon, <1>3, <1>4

LEMMA TimerStepInv ==
  ASSUME KeyInv, Timer  PROVE KeyInv'
<1>1. PICK i \in 1..MaxTimer : Expire(i) \/ \E k \in Key : AutoLock(i, k)
  BY Zenon DEF Timer
<1>2. CASE Expire(i)
  <2>1. /\ store' = Without(store, {}) /\ timers' = Without(timers, {i})
        /\ UNCHANGED <<db, nTimerIdAlloc, up, clock>> /\ clock \in Nat
    BY Zenon, <1>2, WithoutNone DEF Expire, rest, KeyInv, Types
  <2>2. fired' \subseteq fired \cup {<<j, timers[j].key>> : j \in {h \in DOMAIN timers :
                                                                  timers[h].at <= clock}}
    BY Zenon, <1>2 DEF Expire
  <2> QED  BY <2>1, <2>2, FewerTimers
<1>3. CASE \E k \in Key : AutoLock(i, k)
  <2>1. PICK k \in Key : AutoLock(i, k)
    BY Zenon, <1>3
  <2>2. fired' \subseteq fired /\ UNCHANGED <<db, timers, nTimerIdAlloc, clock, up>>
    BY Zenon, <2>1 DEF AutoLock, rest
  <2>3. CASE Private(k) /\ store[k].nTimerId = i
    <3>1. k \in DOMAIN store /\ store' = Put(store, k, Locked(store[k]))
      BY Zenon, <2>1, <2>3 DEF AutoLock, SetKey, Private
    <3>2. Locked(store[k]) \in KeyStore(nTimerIdAlloc) /\ Locked(store[k]).key = store[k].key
          /\ Locked(store[k]).nTimerId = 0
      BY Zenon, <3>1, KeyFacts, KeyKinds DEF Locked, New, KeyInv, Types, KeyStore
    <3> QED  BY <2>2, <3>1, <3>2, KeyFacts, OneKey DEF KeyInv, Types
  <2>4. CASE ~(Private(k) /\ store[k].nTimerId = i)
    <3>1. UNCHANGED store
      BY Zenon, <2>1, <2>4 DEF AutoLock
    <3> QED  BY <2>2, <3>1, WithoutNone, FewerTimers DEF KeyInv, Types
  <2> QED  BY Zenon, <2>3, <2>4
<1> QED  BY Zenon, <1>1, <1>2, <1>3

LEMMA StopInv ==
  ASSUME KeyInv, Stop  PROVE KeyInv'
<1>1. store' = <<>> /\ timers' = <<>> /\ fired' = {} /\ ~up' /\ up' \in BOOLEAN
      /\ UNCHANGED <<db, clock, nTimerIdAlloc>>
  BY Zenon DEF Stop
<1>2. DOMAIN store' = {} /\ DOMAIN timers' = {}
  BY <1>1
<1>3. store' \in [DOMAIN store' -> KeyStore(nTimerIdAlloc)]
      /\ timers' \in [DOMAIN timers' -> [key : Key, at : Int]]
  BY <1>1, <1>2
<1> QED  BY Zenon, <1>1, <1>2, <1>3 DEF KeyInv, Types, DownInv, TimerInv, OpensAfterRestart

LEMMA StartInv ==
  ASSUME KeyInv, Start  PROVE KeyInv'
<1>1. /\ up' /\ up' \in BOOLEAN /\ store' = [k \in DOMAIN db |-> New(db[k])]
      /\ UNCHANGED <<db, clock, timers, nTimerIdAlloc, fired>>
      /\ timers = <<>> /\ fired = {}
  BY Zenon DEF Start, docker, KeyInv, DownInv
<1>2. DOMAIN timers = {}
  BY <1>1
<1>3. \A k \in DOMAIN db : New(db[k]) \in KeyStore(nTimerIdAlloc) /\ New(db[k]).key = db[k]
  BY Zenon, KeyKinds DEF KeyInv, Types, New
<1>4. store' \in [DOMAIN store' -> KeyStore(nTimerIdAlloc)] /\ DOMAIN store' = DOMAIN db
  BY Zenon, <1>1, <1>3
<1>5. Types'
  BY Zenon, <1>1, <1>4 DEF KeyInv, Types
<1>6. DownInv' /\ TimerInv'
  BY Zenon, <1>1, <1>2 DEF DownInv, TimerInv
<1>7. OpensAfterRestart'
  BY Zenon, <1>1, <1>3, <1>4 DEF OpensAfterRestart
<1> QED  BY Zenon, <1>5, <1>6, <1>7 DEF KeyInv

LEMMA NextInv ==
  ASSUME KeyConstants, KeyInv, [Next]_vars  PROVE KeyInv'
<1>1. CASE Calls
  <2>1. PICK k \in Key :
          \/ \E key \in Keys : AddKey(k, key) \/ AddKeyFails(k, key)
          \/ \E p, q \in Pass, w \in BOOLEAN : Encrypt(k, p, q, w)
          \/ \E p \in Pass, d \in Delay : Unlock(k, p, d)
          \/ Lock(k) \/ \E s \in Signer : Sign(s, k)
    BY Zenon, <1>1 DEF Calls
  <2>2. ASSUME NEW key \in Keys, AddKeyFails(k, key)  PROVE KeyInv'
    <3>1. store' = Without(store, {k}) /\ timers' = Without(timers, {}) /\ fired' \subseteq fired
          /\ UNCHANGED <<db, nTimerIdAlloc, up, clock>> /\ clock \in Nat
      BY Zenon, <2>2, WithoutNone DEF AddKeyFails, docker, rest, KeyInv, Types
    <3> QED  BY <3>1, FewerTimers
  <2>3. ASSUME NEW s \in Signer, Sign(s, k)  PROVE KeyInv'
    BY <2>3, WithoutNone, FewerTimers DEF Sign, docker, KeyInv, Types
  <2> QED  BY Zenon, <2>1, <2>2, <2>3, AddKeyInv, EncryptInv, UnlockInv, LockInv
<1>2. CASE Tick
  BY <1>2, WithoutNone, FewerTimers DEF Tick, docker, KeyInv, Types
<1>3. CASE UNCHANGED vars
  BY <1>3, WithoutNone, FewerTimers DEF vars, KeyInv, Types
<1> QED  BY Zenon, <1>1, <1>2, <1>3, TimerStepInv, StopInv, StartInv, UpdateAutoLockInv DEF Next

LEMMA InitInv ==
  ASSUME Init  PROVE KeyInv
<1>1. DOMAIN store = {} /\ DOMAIN db = {} /\ DOMAIN timers = {}
  BY DEF Init
<1>2. store \in [DOMAIN store -> KeyStore(nTimerIdAlloc)] /\ db \in [DOMAIN db -> Keys]
      /\ timers \in [DOMAIN timers -> [key : Key, at : Int]]
  BY <1>1 DEF Init
<1> QED  BY Zenon, <1>1, <1>2 DEF Init, KeyInv, Types, DownInv, TimerInv, OpensAfterRestart

THEOREM Invariance ==
  ASSUME KeyConstants  PROVE Spec => []KeyInv
BY InitInv, NextInv, PTL DEF Spec

(* AddKey, Encrypt, InsertKey: whatever writes fail and whenever the       *)
(* process ends, a key in use opens with the same passphrase after a       *)
(* restart, for any number of keys, passphrases, threads and restarts.     *)
THEOREM KeysOpen ==
  ASSUME KeyConstants  PROVE Spec => []OpensAfterRestart
<1>1. KeyInv => OpensAfterRestart
  BY Zenon DEF KeyInv
<1> QED  BY <1>1, Invariance, PTL

(* AutoLock: the callback of a timer that was replaced, or of one that     *)
(* expired while the key was unlocked again, never locks a key before the  *)
(* time promised last.                                                     *)
THEOREM NoEarlyLock ==
  ASSUME KeyConstants  PROVE Spec => NotEarly
<1>1. ASSUME KeyInv, [Next]_vars  PROVE [NotEarlyStep]_vars
  <2>1. SUFFICES ASSUME NEW k \in Key, Timer, k \in DOMAIN store, k \in DOMAIN store',
                        store'[k].locked, ~store[k].locked
                 PROVE  clock >= store[k].nAutoLockTime
    BY Zenon DEF NotEarlyStep
  <2>2. PICK i \in 1..MaxTimer : Expire(i) \/ \E x \in Key : AutoLock(i, x)
    BY Zenon, <2>1 DEF Timer
  <2>3. store' # store
    BY Zenon, <2>1
  <2>4. PICK x \in Key : AutoLock(i, x) /\ store[x].nTimerId = i /\ x \in DOMAIN store
                         /\ store' = Put(store, x, Locked(store[x]))
    BY Zenon, <2>2, <2>3 DEF Expire, AutoLock, SetKey, Private
  <2>5. x = k
    BY Zenon, <2>1, <2>4 DEF Put
  <2>6. <<i, k>> \in fired
    BY Zenon, <2>4, <2>5 DEF AutoLock
  <2> QED  BY Zenon, <1>1, <2>4, <2>5, <2>6 DEF KeyInv, TimerInv
<1> QED  BY <1>1, Invariance, PTL DEF Spec, NotEarly

-----------------------------------------------------------------------------
(* The push timer: the inductive invariant.  At most one timer is armed,   *)
(* the one nTimerPushTx names; who is in PushTxInv has taken it off.       *)
PushTimerInv ==
  /\ firing \notin armed
  /\ timer \in 0..3 /\ firing \in 0..3 /\ armed \subseteq {timer} \ {0}
  /\ timer # 0 => timer \in armed \cup {firing}
  /\ push # "none" => timer = 0
  /\ timer = 0 /\ push = "none" => \A p \in DOMAIN peers : peers[p].known = {}

IdleInv == idle \in BOOLEAN /\ (push = "none" /\ timer = 0 => idle = FALSE)

(* What can be under way between the node and a peer that answers in time: *)
(* the announcement, its confirmation, the report that all is fetched.     *)
Line(p, o, w, r) == out[p] = o /\ owes[p] = w /\ rsp[p] = r
Quiet(p) == Line(p, <<>>, FALSE, <<>>)
LineInit(p) == peers[p].status = "init" /\ Quiet(p)
LineReceived(p) ==
  /\ peers[p].status = "received"
  /\ \/ Quiet(p)                                      \* the connection was closed
     \/ \E m : Line(p, <<m>>, FALSE, <<>>)
     \/ Line(p, <<>>, TRUE, <<"received">>)
     \/ Line(p, <<>>, FALSE, <<"received", "complete">>)
LineComplete(p) ==
  /\ peers[p].status = "complete"
  /\ Line(p, <<>>, TRUE, <<>>) \/ Line(p, <<>>, FALSE, <<"complete">>)
LineInv(p) == peers[p].late = FALSE /\ (LineInit(p) \/ LineReceived(p) \/ LineComplete(p))

Shape ==
  /\ DOMAIN link = Peer /\ DOMAIN out = Peer /\ DOMAIN owes = Peer /\ DOMAIN rsp = Peer
  /\ DOMAIN peers \subseteq Peer
NewInv == \A p \in Peer : link[p] = "new" => p \notin DOMAIN peers /\ Quiet(p)

PushInv == Shape /\ PushTimerInv /\ IdleInv /\ NewInv /\ \A p \in DOMAIN peers \ Slow : LineInv(p)

-----------------------------------------------------------------------------
LEMMA Inits == PushInit => PushInv
<1> SUFFICES ASSUME PushInit PROVE PushInv
  BY Zenon
<1>1. DOMAIN peers = {}
  BY DEF PushInit
<1>2. Shape
  BY Zenon, <1>1 DEF PushInit, Shape
<1>3. PushTimerInv
  BY <1>1 DEF PushInit, PushTimerInv
<1>4. IdleInv
  BY Zenon DEF PushInit, IdleInv
<1>5. NewInv
  BY Zenon, <1>1 DEF PushInit, NewInv, Quiet, Line
<1> QED  BY Zenon, <1>1, <1>2, <1>3, <1>4, <1>5 DEF PushInv

(* The timer a start finds is free.                                        *)
LEMMA FreshIsFree ==
  ASSUME PushTimerInv
  PROVE  FreshTimer \in 1..3 /\ FreshTimer # firing
<1>1. \E i \in 1..3 : i # firing /\ i # timer
  <2>1. 1 \in 1..3 /\ 2 \in 1..3 /\ 3 \in 1..3
    OBVIOUS
  <2> QED  BY <2>1
<1>2. \E i \in 1..3 : i # firing /\ i \notin armed
  BY Zenon, <1>1 DEF PushTimerInv
<1> QED  BY Zenon, <1>2 DEF FreshTimer

LEMMA TimerSteps ==
  ASSUME PushInv, Broadcast \/ ExpirePush \/ PushTxTimerFunc
  PROVE  PushInv'
<1>1. CASE Broadcast
  <2>1. PushTimerInv'
    BY <1>1 DEF PushInv, PushTimerInv, Broadcast, remoteVars
  <2>2. IdleInv'
    BY ZenonT(40), <1>1, <2>1 DEF PushInv, IdleInv, Broadcast
  <2> QED  BY Zenon, <1>1, <2>1, <2>2 DEF PushInv, Shape, NewInv, Broadcast, remoteVars, LineInv, LineInit,
              LineReceived, LineComplete, Quiet, Line
<1>2. CASE ExpirePush
  <2>1. PushTimerInv'
    BY Zenon, <1>2 DEF PushInv, PushTimerInv, ExpirePush, remoteVars
  <2>2. IdleInv'
    BY Zenon, <1>2 DEF PushInv, IdleInv, ExpirePush
  <2> QED  BY ZenonT(40), <1>2, <2>1, <2>2 DEF PushInv, Shape, NewInv, ExpirePush, remoteVars, LineInv, LineInit,
              LineReceived, LineComplete, Quiet, Line
<1>3. CASE PushTxTimerFunc
  <2>3. FreshTimer \in 1..3 /\ FreshTimer # firing /\ FreshTimer # 0
    BY FreshIsFree DEF PushInv
  <2>1. PushTimerInv'
    <3>1. timer = firing => armed = {}
      BY Zenon DEF PushInv, PushTimerInv
    <3> HIDE DEF FreshTimer
    <3>2. CASE timer # firing
      <4>1. firing' = 0 /\ timer' = timer /\ armed' = armed /\ push' = push /\ peers' = peers
        BY Zenon, <1>3, <3>2 DEF PushTxTimerFunc
      <4> QED  BY <3>2, <4>1 DEF PushInv, PushTimerInv
    <3>3. CASE timer = firing /\ pushSet /\ push' = "timer" /\ timer' = 0 /\ UNCHANGED <<idle, armed>>
      BY <1>3, <3>1, <3>3 DEF PushInv, PushTimerInv, PushTxTimerFunc, remoteVars
    <3>4. CASE timer = firing /\ ~pushSet /\ StartTimer(TRUE) /\ UNCHANGED push
      BY <1>3, <2>3, <3>1, <3>4 DEF PushInv, PushTimerInv, PushTxTimerFunc, StartTimer, remoteVars
    <3> QED  BY Zenon, <1>3, <3>2, <3>3, <3>4 DEF PushTxTimerFunc
  <2>2. IdleInv'
    BY Zenon, <1>3, <2>1, <2>3 DEF PushInv, IdleInv, PushTxTimerFunc, StartTimer
  <2> QED  BY Zenon, <1>3, <2>1, <2>2 DEF PushInv, Shape, NewInv, PushTxTimerFunc, remoteVars, LineInv, LineInit,
              LineReceived, LineComplete, Quiet, Line
<1> QED  BY Zenon, <1>1, <1>2, <1>3

(* PushCheck: of the peers that answer in time nobody is late.             *)
LEMMA PushCheckInv ==
  ASSUME PushInv, PushCheck
  PROVE  PushInv'
<1>1. DOMAIN peers' = DOMAIN peers
  BY Zenon DEF PushCheck
<1>2. \A p \in DOMAIN peers : peers'[p] = peers[p] \/ peers'[p] = Refresh(peers[p])
  BY Zenon DEF PushCheck
<1>3. \A p \in DOMAIN peers : Refresh(peers[p]).known = peers[p].known
  BY Zenon DEF Refresh, PeerInv
<1>4. \A p \in DOMAIN peers \ Slow : peers'[p] = peers[p]
  BY Zenon, <1>2 DEF PushInv, LineInv, Refresh
<1>5. PushTimerInv'
  BY Zenon, <1>1, <1>2, <1>3 DEF PushInv, PushTimerInv, PushCheck
<1>6. IdleInv'
  BY Zenon DEF PushInv, IdleInv, PushCheck
<1>7. DOMAIN link' = Peer /\ \A p \in Peer : link'[p] = "new" => link[p] = "new"
  BY Zenon DEF PushCheck, Close
<1>8. Shape' /\ NewInv'
  BY Zenon, <1>1, <1>7 DEF PushInv, Shape, NewInv, PushCheck, remoteVars, Quiet, Line
<1>9. \A p \in DOMAIN peers' \ Slow : LineInv(p)'
  BY ZenonT(40), <1>1, <1>4 DEF PushInv, PushCheck, remoteVars, LineInv, LineInit, LineReceived, LineComplete, Quiet, Line
<1> QED  BY Zenon, <1>5, <1>6, <1>8, <1>9 DEF PushInv

(* PushMake: a peer that is told something was quiet.                      *)
LEMMA PushMakeInv ==
  ASSUME PushInv, PushMake
  PROVE  PushInv'
<1> DEFINE make == push \in {"make broadcast", "make timer"} /\ pool # <<>>
<1> DEFINE tell == {p \in DOMAIN peers : make /\ Allowed(p) /\ TxInv(Refresh(peers[p])) # <<>>}
<1>1. /\ DOMAIN peers' = DOMAIN peers
      /\ \A p \in DOMAIN peers : peers'[p] = IF make THEN MakeTxInv(peers[p]) ELSE peers[p]
  BY Zenon DEF PushMake
<1>2. /\ DOMAIN out' = Peer
      /\ \A p \in Peer : out'[p] = IF p \in tell /\ link[p] = "up"
                                    THEN Append(out[p], TxInv(Refresh(peers[p]))) ELSE out[p]
  BY Zenon DEF PushMake
<1>3. DOMAIN link' = Peer /\ \A p \in Peer : link'[p] = "new" => link[p] = "new"
  BY Zenon DEF PushMake, Close
<1>4. PushTimerInv'
  <2>1. timer = 0 /\ armed = {} /\ firing \in 0..3
    BY Zenon DEF PushInv, PushTimerInv, PushMake
  <2>2. FreshTimer \in 1..3 /\ FreshTimer # firing
    BY Zenon, FreshIsFree DEF PushInv
  <2>3. timer' = FreshTimer /\ armed' = {FreshTimer} /\ firing' = firing /\ push' = "none"
    BY Zenon, <2>1 DEF PushMake, StartTimer
  <2> HIDE DEF FreshTimer
  <2> QED  BY <2>1, <2>2, <2>3 DEF PushTimerInv
<1>5. IdleInv'
  <2>1. idle' \in BOOLEAN
    BY Zenon DEF PushMake, StartTimer
  <2>2. timer' # 0
    <3>1. timer' = FreshTimer
      BY Zenon DEF PushMake, StartTimer
    <3>2. FreshTimer \in 1..3
      BY Zenon, FreshIsFree DEF PushInv
    <3> HIDE DEF FreshTimer
    <3> QED  BY <3>1, <3>2
  <2> QED  BY Zenon, <2>1, <2>2 DEF IdleInv
<1>6. ASSUME NEW p \in DOMAIN peers \ Slow  PROVE LineInv(p)'
  <2>1. /\ Refresh(peers[p]) = peers[p] /\ peers[p].late = FALSE /\ p \in Peer
        /\ Allowed(p) <=> peers[p].status = "init"
    BY Zenon, <1>6 DEF PushInv, LineInv, Refresh, Allowed, Shape
  <2>2. UNCHANGED <<owes, rsp>>
    BY Zenon DEF PushMake
  <2>3. CASE p \in tell
    <3>0. make /\ Allowed(p) /\ TxInv(Refresh(peers[p])) # <<>>
      BY Zenon, <2>3
    <3>1. peers[p].status = "init" /\ TxInv(peers[p]) # <<>>
      BY Zenon, <2>1, <3>0
    <3>2. Quiet(p)
      BY Zenon, <3>1, <1>6 DEF PushInv, LineInv, LineInit, LineReceived, LineComplete
    <3>3. peers'[p].status = "received" /\ peers'[p].late = FALSE
      <4>1. peers'[p] = MakeTxInv(peers[p])
        BY Zenon, <1>1, <1>6, <3>0
      <4>2. MakeTxInv(peers[p]) = PeerInv("received", peers[p].known \cup Range(TxInv(peers[p])),
                                          peers[p].count, FALSE)
        BY Zenon, <2>1, <3>1 DEF MakeTxInv
      <4> HIDE DEF MakeTxInv
      <4> QED  BY <4>1, <4>2 DEF PeerInv
    <3>4. CASE link[p] = "up"
      <4>1. out'[p] = Append(<<>>, TxInv(peers[p]))
        <5>1. out'[p] = Append(out[p], TxInv(Refresh(peers[p])))
          BY Zenon, <1>2, <2>1, <2>3, <3>4
        <5> QED  BY Zenon, <2>1, <3>2, <5>1 DEF Quiet, Line
      <4>2. out'[p] = <<TxInv(peers[p])>>
        <5> HIDE DEF TxInv
        <5> QED  BY <4>1
      <4> QED  BY Zenon, <3>3, <4>2, <2>2, <3>2 DEF LineInv, LineReceived, Line, Quiet
    <3>5. CASE link[p] # "up"
      <4>1. out'[p] = out[p]
        BY Zenon, <1>2, <2>1, <3>5
      <4> QED  BY Zenon, <2>2, <3>2, <3>3, <4>1 DEF LineInv, LineReceived, Quiet, Line
    <3> QED  BY Zenon, <3>4, <3>5
  <2>4. CASE p \notin tell
    <3>1. peers'[p] = peers[p]
      BY Zenon, <1>1, <1>6, <2>1, <2>4 DEF MakeTxInv
    <3>2. out'[p] = out[p]
      BY Zenon, <1>2, <2>1, <2>4
    <3> QED  BY Zenon, <1>6, <2>2, <3>1, <3>2 DEF PushInv, LineInv, LineInit, LineReceived, LineComplete, Quiet, Line
  <2> QED  BY Zenon, <2>3, <2>4
<1>7. Shape'
  BY Zenon, <1>1, <1>2, <1>3 DEF PushInv, Shape, PushMake
<1>8. NewInv'
  <2> SUFFICES ASSUME NEW p \in Peer, link'[p] = "new"  PROVE p \notin DOMAIN peers' /\ Quiet(p)'
    BY Zenon DEF NewInv
  <2>1. link[p] = "new" /\ p \notin DOMAIN peers /\ Quiet(p)
    BY Zenon, <1>3 DEF PushInv, NewInv
  <2>2. out'[p] = out[p]
    BY Zenon, <1>2, <2>1
  <2> QED  BY Zenon, <1>1, <2>1, <2>2 DEF PushMake, Quiet, Line
<1> HIDE DEF make, tell
<1> QED  BY Zenon, <1>1, <1>4, <1>5, <1>6, <1>7, <1>8 DEF PushInv

(* Steps that leave the timer alone keep its invariant when nobody is told *)
(* more by them.                                                           *)
LEMMA TimerKept ==
  ASSUME PushInv, UNCHANGED pushVars, DOMAIN peers' \subseteq Peer,
         \A p \in DOMAIN peers' : peers'[p].known = {} \/ (p \in DOMAIN peers /\ peers'[p].known = peers[p].known)
  PROVE  PushTimerInv' /\ IdleInv'
<1>1. UNCHANGED <<push, timer, idle, armed, firing>>
  BY Zenon DEF pushVars
<1>2. PushTimerInv'
  BY Zenon, <1>1 DEF PushInv, PushTimerInv
<1>3. IdleInv'
  BY ZenonT(40), <1>1 DEF PushInv, IdleInv
<1> QED  BY Zenon, <1>2, <1>3

LEMMA PoolSteps ==
  ASSUME PushInv, NEW t \in Tx, AddTx(t) \/ RemoveTx(t)
  PROVE  PushInv'
<1>1. UNCHANGED <<link, peers, pushVars, out, owes, rsp>>
  BY ZenonT(40) DEF AddTx, RemoveTx, remoteVars
<1>2. PushTimerInv' /\ IdleInv'
  BY Zenon, <1>1, TimerKept DEF PushInv, Shape
<1> QED  BY Zenon, <1>1, <1>2 DEF PushInv, Shape, NewInv, LineInv, LineInit, LineReceived, LineComplete, Quiet, Line

(* A connection that comes is quiet; one that goes leaves the lines alone. *)
LEMMA LinkSteps ==
  ASSUME PushInv, NEW q \in Peer, Activate(q) \/ Disconnect(q) \/ Deactivate(q)
  PROVE  PushInv'
<1>1. UNCHANGED <<pushVars, out, owes, rsp>>
  BY ZenonT(40) DEF Activate, Disconnect, Deactivate, remoteVars
<1>2. CASE Activate(q)
  <2>1. /\ DOMAIN peers' = DOMAIN peers \cup {q} /\ peers'[q] = NewPeer
        /\ \A p \in DOMAIN peers \ {q} : peers'[p] = peers[p]
        /\ DOMAIN link' = DOMAIN link /\ link[q] = "new"
        /\ \A p \in DOMAIN link : link'[p] = IF p = q THEN "up" ELSE link[p]
    BY Zenon, <1>2 DEF Activate
  <2>2. NewPeer.known = {} /\ NewPeer.status = "init" /\ NewPeer.late = FALSE
    BY Zenon DEF NewPeer, PeerInv
  <2>3. PushTimerInv' /\ IdleInv'
    BY Zenon, <1>1, <2>1, <2>2, TimerKept DEF PushInv, Shape
  <2>4. Shape' /\ NewInv'
    BY Zenon, <1>1, <2>1 DEF PushInv, Shape, NewInv, Quiet, Line
  <2>5. Quiet(q)
    BY Zenon, <2>1 DEF PushInv, NewInv
  <2>6. ASSUME NEW p \in DOMAIN peers' \ Slow  PROVE LineInv(p)'
    <3>1. CASE p = q
      BY Zenon, <1>1, <2>1, <2>2, <2>5, <3>1 DEF LineInv, LineInit, Quiet, Line
    <3>2. CASE p # q
      BY ZenonT(40), <1>1, <2>1, <2>6, <3>2 DEF PushInv, LineInv, LineInit, LineReceived, LineComplete, Quiet, Line
    <3> QED  BY Zenon, <3>1, <3>2
  <2> QED  BY Zenon, <2>3, <2>4, <2>6 DEF PushInv
<1>3. CASE Disconnect(q) \/ Deactivate(q)
  <2>1. /\ DOMAIN peers' \subseteq DOMAIN peers
        /\ \A p \in DOMAIN peers' : peers'[p] = peers[p]
        /\ DOMAIN link' = DOMAIN link
        /\ \A p \in DOMAIN link : link'[p] = "new" => link[p] = "new"
    BY Zenon, <1>3 DEF Disconnect, Deactivate
  <2>2. PushTimerInv' /\ IdleInv'
    BY Zenon, <1>1, <2>1, TimerKept DEF PushInv, Shape
  <2>3. Shape' /\ NewInv'
    BY ZenonT(40), <1>1, <2>1 DEF PushInv, Shape, NewInv, Quiet, Line
  <2>4. ASSUME NEW p \in DOMAIN peers' \ Slow  PROVE LineInv(p)'
    <3>1. LineInv(p) /\ peers'[p] = peers[p]
      BY Zenon, <2>1, <2>4 DEF PushInv
    <3> QED  BY ZenonT(40), <1>1, <3>1 DEF LineInv, LineInit, LineReceived, LineComplete, Quiet, Line
  <2> QED  BY Zenon, <2>2, <2>3, <2>4 DEF PushInv
<1> QED  BY Zenon, <1>2, <1>3

(* What an answer does to its peer; the other peers are left alone.        *)
LEMMA OnePeer ==
  ASSUME PushInv, NEW q \in Peer, UNCHANGED <<pushVars, link>>, DOMAIN peers' = DOMAIN peers,
         DOMAIN out' = Peer, DOMAIN owes' = Peer, DOMAIN rsp' = Peer,
         \A p \in DOMAIN peers : p # q => peers'[p] = peers[p],
         \A p \in Peer : p # q => out'[p] = out[p] /\ owes'[p] = owes[p] /\ rsp'[p] = rsp[p],
         q \in DOMAIN peers => peers'[q].known = peers[q].known,
         q \in DOMAIN peers \ Slow => LineInv(q)',
         link[q] # "new"
  PROVE  PushInv'
<1>1. PushTimerInv' /\ IdleInv'
  BY Zenon, TimerKept DEF PushInv, Shape
<1>2. Shape'
  BY Zenon DEF PushInv, Shape
<1>3. NewInv'
  BY Zenon DEF PushInv, Shape, NewInv, Quiet, Line
<1>4. ASSUME NEW p \in DOMAIN peers' \ Slow, p # q  PROVE LineInv(p)'
  <2>1. p \in DOMAIN peers /\ p \in Peer /\ LineInv(p)
    BY Zenon, <1>4 DEF PushInv, Shape
  <2>2. peers'[p] = peers[p] /\ out'[p] = out[p] /\ owes'[p] = owes[p] /\ rsp'[p] = rsp[p]
    BY Zenon, <1>4, <2>1
  <2> QED  BY ZenonT(40), <2>1, <2>2 DEF LineInv, LineInit, LineReceived, LineComplete, Quiet, Line
<1> QED  BY Zenon, <1>1, <1>2, <1>3, <1>4 DEF PushInv

LEMMA AnswerSteps ==
  ASSUME PushInv, NEW q \in Peer, HandleReceived(q) \/ HandleComplete(q)
  PROVE  PushInv'
<1>1. UNCHANGED <<pushVars, link, out, owes>>
  BY Zenon DEF HandleReceived, HandleComplete
<1>2. rsp[q] # <<>> /\ link[q] # "new"
  BY Zenon DEF HandleReceived, HandleComplete, PushInv, NewInv, Quiet, Line
<1>3. DOMAIN rsp' = Peer /\ rsp'[q] = Tail(rsp[q]) /\ \A p \in Peer : p # q => rsp'[p] = rsp[p]
  BY Zenon DEF HandleReceived, HandleComplete, PushInv, Shape
<1>4. CASE HandleReceived(q)
  <2>1. /\ DOMAIN peers' = DOMAIN peers
        /\ \A p \in DOMAIN peers : p # q => peers'[p] = peers[p]
    BY Zenon, <1>4 DEF HandleReceived
  <2>2. ASSUME q \in DOMAIN peers, peers[q].status = "received"
        PROVE  peers'[q].known = peers[q].known /\ peers'[q].status = "complete" /\ peers'[q].late = FALSE
    <3>1. PICK n : peers' = [peers EXCEPT ![q] = PeerInv("complete", @.known, n, FALSE)]
      BY Zenon, <1>4, <2>2 DEF HandleReceived
    <3>2. peers'[q] = PeerInv("complete", peers[q].known, n, FALSE)
      BY Zenon, <2>2, <3>1
    <3> QED  BY <3>2 DEF PeerInv
  <2>3. ASSUME q \in DOMAIN peers, peers[q].status # "received"
        PROVE  peers'[q] = peers[q]
    BY Zenon, <1>4, <2>3 DEF HandleReceived
  <2>4. ASSUME q \in DOMAIN peers \ Slow  PROVE LineInv(q)'
    <3>1. Head(rsp[q]) = "received" /\ LineInv(q)
      BY Zenon, <1>4, <2>4 DEF PushInv, HandleReceived
    <3>2. /\ peers[q].status = "received"
          /\ Line(q, <<>>, TRUE, <<"received">>) \/ Line(q, <<>>, FALSE, <<"received", "complete">>)
      BY <1>2, <3>1 DEF LineInv, LineInit, LineReceived, LineComplete, Quiet, Line
    <3>3. Tail(<<"received">>) = <<>> /\ Tail(<<"received", "complete">>) = <<"complete">>
      OBVIOUS
    <3> QED  BY Zenon, <1>1, <1>3, <2>2, <2>4, <3>2, <3>3 DEF LineInv, LineComplete, Line
  <2> QED  BY Zenon, <1>1, <1>2, <1>3, <2>1, <2>2, <2>3, <2>4, OnePeer DEF PushInv, Shape
<1>5. CASE HandleComplete(q)
  <2>1. /\ DOMAIN peers' = DOMAIN peers
        /\ \A p \in DOMAIN peers : p # q => peers'[p] = peers[p]
    BY Zenon, <1>5 DEF HandleComplete
  <2>2. ASSUME q \in DOMAIN peers
        PROVE  peers'[q].known = peers[q].known /\ peers'[q].status = "init" /\ peers'[q].late = FALSE
    <3>1. peers' = [peers EXCEPT ![q] = PeerInv("init", @.known, @.count, FALSE)]
      BY Zenon, <1>5, <2>2 DEF HandleComplete
    <3>2. PICK n, k : peers'[q] = PeerInv("init", k, n, FALSE) /\ k = peers[q].known
      BY Zenon, <2>2, <3>1
    <3>3. peers'[q].known = k /\ peers'[q].status = "init" /\ peers'[q].late = FALSE
      BY <3>2 DEF PeerInv
    <3> QED  BY Zenon, <3>2, <3>3
  <2>3. ASSUME q \in DOMAIN peers \ Slow  PROVE LineInv(q)'
    <3>1. Head(rsp[q]) = "complete" /\ LineInv(q)
      BY Zenon, <1>5, <2>3 DEF PushInv, HandleComplete
    <3>2. Line(q, <<>>, FALSE, <<"complete">>)
      BY <1>2, <3>1 DEF LineInv, LineInit, LineReceived, LineComplete, Quiet, Line
    <3>3. Tail(<<"complete">>) = <<>>
      OBVIOUS
    <3> QED  BY Zenon, <1>1, <1>3, <2>2, <2>3, <3>2, <3>3 DEF LineInv, LineInit, Quiet, Line
  <2> QED  BY Zenon, <1>1, <1>2, <1>3, <2>1, <2>2, <2>3, OnePeer DEF PushInv, Shape
<1> QED  BY Zenon, <1>4, <1>5

LEMMA RemoteSteps ==
  ASSUME PushInv, NEW q \in Peer, RemoteReceive(q) \/ RemoteComplete(q)
  PROVE  PushInv'
<1>1. UNCHANGED <<pushVars, link, peers>> /\ link[q] = "up"
  BY ZenonT(40) DEF RemoteReceive, RemoteComplete
<1>2. CASE RemoteReceive(q)
  <2>1. /\ DOMAIN out' = Peer /\ DOMAIN rsp' = Peer /\ DOMAIN owes' = Peer
        /\ out'[q] = Tail(out[q]) /\ rsp'[q] = Append(rsp[q], "received") /\ owes'[q] = TRUE
        /\ out[q] # <<>>
        /\ \A p \in Peer : p # q => out'[p] = out[p] /\ rsp'[p] = rsp[p] /\ owes'[p] = owes[p]
    BY ZenonT(40), <1>2 DEF RemoteReceive, PushInv, Shape
  <2>2. ASSUME q \in DOMAIN peers \ Slow  PROVE LineInv(q)'
    <3>1. LineInv(q)
      BY Zenon, <2>2 DEF PushInv
    <3>2. peers[q].status = "received" /\ \E m : Line(q, <<m>>, FALSE, <<>>)
      BY Zenon, <2>1, <3>1 DEF LineInv, LineInit, LineReceived, LineComplete, Quiet, Line
    <3>3. PICK m : Line(q, <<m>>, FALSE, <<>>)
      BY ZenonT(40), <3>2
    <3>4. Tail(<<m>>) = <<>> /\ Append(<<>>, "received") = <<"received">>
      BY SMTT(30)
    <3>5. Line(q, <<>>, TRUE, <<"received">>)'
      BY Zenon, <2>1, <3>3, <3>4 DEF Line
    <3> QED  BY Zenon, <1>1, <3>1, <3>2, <3>5 DEF LineInv, LineReceived
  <2>3. UNCHANGED <<pushVars, link>> /\ DOMAIN peers' = DOMAIN peers /\ link[q] # "new"
    BY Zenon, <1>1
  <2>4. \A p \in DOMAIN peers : peers'[p] = peers[p]
    BY Zenon, <1>1
  <2> QED  BY ZenonT(40), <2>1, <2>2, <2>3, <2>4, OnePeer
<1>3. CASE RemoteComplete(q)
  <2>1. /\ out' = out /\ DOMAIN rsp' = Peer /\ DOMAIN owes' = Peer
        /\ rsp'[q] = Append(rsp[q], "complete") /\ owes'[q] = FALSE /\ owes[q]
        /\ \A p \in Peer : p # q => rsp'[p] = rsp[p] /\ owes'[p] = owes[p]
    BY ZenonT(40), <1>3 DEF RemoteComplete, PushInv, Shape
  <2>2. ASSUME q \in DOMAIN peers \ Slow  PROVE LineInv(q)'
    <3>1. LineInv(q)
      BY Zenon, <2>2 DEF PushInv
    <3>2. \/ peers[q].status = "received" /\ Line(q, <<>>, TRUE, <<"received">>)
          \/ peers[q].status = "complete" /\ Line(q, <<>>, TRUE, <<>>)
      BY Zenon, <2>1, <3>1 DEF LineInv, LineInit, LineReceived, LineComplete, Quiet, Line
    <3>3. /\ Append(<<"received">>, "complete") = <<"received", "complete">>
          /\ Append(<<>>, "complete") = <<"complete">>
      <4> DEFINE s == Append(<<"received">>, "complete")
      <4>1. <<"received">> \in Seq({"received", "complete"}) /\ Len(<<"received">>) = 1
        OBVIOUS
      <4>2. s \in Seq({"received", "complete"}) /\ Len(s) = 2 /\ s[1] = "received" /\ s[2] = "complete"
        BY <4>1, AppendProperties
      <4> DEFINE u == <<"received", "complete">>
      <4>5. u \in Seq({"received", "complete"}) /\ Len(u) = 2 /\ u[1] = "received" /\ u[2] = "complete"
        OBVIOUS
      <4> HIDE DEF s, u
      <4>6. \A i \in 1..Len(s) : s[i] = u[i]
        BY <4>2, <4>5
      <4>7. s = u
        BY Zenon, <4>2, <4>5, <4>6, SeqEqual
      <4>3. Append(<<"received">>, "complete") = <<"received", "complete">>
        BY Zenon, <4>7 DEF s, u
      <4>4. Append(<<>>, "complete") = <<"complete">>
        BY SMTT(30)
      <4> QED  BY Zenon, <4>3, <4>4
    <3> QED  BY ZenonT(40), <1>1, <2>1, <3>1, <3>2, <3>3 DEF LineInv, LineReceived, LineComplete, Line
  <2> QED  BY Zenon, <1>1, <2>1, <2>2, OnePeer DEF PushInv, Shape
<1> QED  BY Zenon, <1>2, <1>3

LEMMA ElapseInv ==
  ASSUME PushInv, NEW q \in Peer, Elapse(q)
  PROVE  PushInv'
<1>1. UNCHANGED <<pushVars, link, out, owes, rsp>> /\ q \in Slow /\ q \in DOMAIN peers
  BY Zenon DEF Elapse, remoteVars
<1>2. /\ DOMAIN peers' = DOMAIN peers
      /\ \A p \in DOMAIN peers : p # q => peers'[p] = peers[p]
      /\ peers'[q] = PeerInv(peers[q].status, peers[q].known, peers[q].count, TRUE)
  BY Zenon, <1>1 DEF Elapse
<1>3. peers'[q].known = peers[q].known
  BY <1>2 DEF PeerInv
<1>4. link[q] # "new"
  BY Zenon, <1>1 DEF PushInv, NewInv
<1> QED  BY Zenon, <1>1, <1>2, <1>3, <1>4, OnePeer DEF PushInv, Shape

LEMMA PushNextInv ==
  ASSUME PushInv, [PushNext]_channelVars
  PROVE  PushInv'
<1>1. CASE UNCHANGED channelVars
  <2>1. /\ UNCHANGED <<link, peers, push, timer, armed, firing, out, owes, rsp>>
        /\ idle' = idle
    BY Zenon, <1>1 DEF channelVars, pushVars, remoteVars
  <2>2. IdleInv'
    BY Zenon, <2>1 DEF PushInv, IdleInv
  <2>3. PushTimerInv'
    BY Zenon, <2>1 DEF PushInv, PushTimerInv
  <2> QED  BY ZenonT(40), <2>1, <2>2, <2>3 DEF PushInv, Shape, NewInv, LineInv, LineInit,
              LineReceived, LineComplete, Quiet, Line
<1>2. CASE Run
  BY Zenon, <1>2, TimerSteps, PushCheckInv, PushMakeInv DEF Run
<1>3. CASE \E t \in Tx : AddTx(t) \/ RemoveTx(t)
  BY Zenon, <1>3, PoolSteps
<1>4. ASSUME NEW p \in Peer,
             \/ Activate(p) \/ Disconnect(p) \/ Events(p) \/ Elapse(p)
             \/ RemoteReceive(p) \/ RemoteComplete(p)
      PROVE  PushInv'
  BY Zenon, <1>4, LinkSteps, AnswerSteps, RemoteSteps, ElapseInv DEF Events
<1> QED  BY Zenon, <1>1, <1>2, <1>3, <1>4 DEF PushNext

-----------------------------------------------------------------------------
(* The inductive invariant holds.                                          *)
THEOREM PushInvariance == PushSpec => []PushInv
<1>1. PushInv /\ [PushNext]_channelVars => PushInv'
  BY Zenon, PushNextInv
<1> QED  BY Inits, <1>1, PTL DEF PushSpec

(* The push timer never stops: nTimerPushTx is a timer that is still to    *)
(* fire, or somebody is in PushTxInv and will start it, however            *)
(* BroadcastTxInv, PushTxTimerFunc and the timer thread cross.             *)
THEOREM TimerRuns == PushSpec => []TimerAlive
<1>1. PushInv => TimerAlive
  <2> SUFFICES ASSUME PushInv PROVE TimerAlive
    BY Zenon
  <2>1. idle /\ push = "none" => timer # 0
    BY Zenon DEF PushInv, IdleInv
  <2> QED  BY Zenon, <2>1 DEF PushInv, PushTimerInv, TimerAlive
<1> QED  BY PushInvariance, <1>1, PTL

(* MakeTxInv and ResetTxInvSynStatus: a peer that answers in time is never *)
(* told more before it has fetched what it was told, and no answer is left *)
(* over when the next announcement is made.                                *)
THEOREM OneAtATime == PushSpec => []Backpressure
<1>1. PushInv => Backpressure
  <2> SUFFICES ASSUME PushInv, NEW p \in DOMAIN peers \ Slow
               PROVE  /\ Len(out[p]) <= 1
                      /\ out[p] # <<>> => ~owes[p] /\ rsp[p] = <<>> /\ peers[p].status = "received"
                      /\ peers[p].status = "init" => out[p] = <<>> /\ ~owes[p] /\ rsp[p] = <<>>
    BY Zenon DEF Backpressure
  <2>1. LineInv(p)
    BY Zenon DEF PushInv
  <2>2. Len(<<>>) = 0 /\ \A m : Len(<<m>>) = 1
    BY Zenon
  <2>3. owes[p] = FALSE => ~owes[p]
    BY Zenon
  <2>4. CASE LineInit(p)
    BY <2>2, <2>3, <2>4 DEF LineInit, Quiet, Line
  <2>5. CASE LineReceived(p)
    <3>1. CASE \E m : Line(p, <<m>>, FALSE, <<>>)
      <4>1. PICK m : out[p] = <<m>> /\ owes[p] = FALSE /\ rsp[p] = <<>>
        BY Zenon, <3>1 DEF Line
      <4>2. Len(out[p]) <= 1
        BY <2>2, <4>1
      <4> QED  BY Zenon, <2>3, <2>5, <4>1, <4>2 DEF LineReceived
    <3>2. CASE out[p] = <<>>
      BY <2>2, <2>5, <3>2 DEF LineReceived
    <3> QED  BY Zenon, <2>5, <3>1, <3>2 DEF LineReceived, Quiet, Line
  <2>6. CASE LineComplete(p)
    BY <2>2, <2>3, <2>6 DEF LineComplete, Quiet, Line
  <2> QED  BY Zenon, <2>1, <2>4, <2>5, <2>6 DEF LineInv
<1> QED  BY PushInvariance, <1>1, PTL

(* Announcing never stops, and never overruns a peer that answers in time. *)
THEOREM PushRight == PushSpec => []PushOrderly
BY TimerRuns, OneAtATime, PTL DEF PushOrderly
=============================================================================
