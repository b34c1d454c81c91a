----------------------------- MODULE WalletKeys -----------------------------
(***************************************************************************)
(* The keys of CWallet: importing, encrypting, locking and unlocking them, *)
(* the timers that lock them again, and their copies in CWalletAddrDB.     *)
(* (src/src/minemon/wallet.*, src/src/crypto/key.cpp,                      *)
(* src/src/storage/walletdb.cpp, src/src/xengine/docker/docker.cpp)        *)
(*                                                                         *)
(* RPC threads call the wallet, the timer thread of the docker calls       *)
(* AutoLock; rwKeyStore makes each call atomic, except that a signature is *)
(* made under the shared lock and prolonged under the exclusive one.       *)
(***************************************************************************)
EXTENDS Integers

CONSTANTS Key, Pass, Signer,
          Delay,             \* timeouts of Unlock; 0: none
          MaxClock, MaxTimer, MaxStop   \* bounds

KeyConstants == Delay \subseteq Nat /\ {MaxClock, MaxTimer, MaxStop} \subseteq Nat

VARIABLES
  store,                 \* mapKeyStore
  db,                    \* CWalletAddrDB
  clock,
  timers, nTimerIdAlloc, \* CDocker's armed timers: their key and expiry
  fired,                 \* callbacks the timer thread has taken
  signed,                \* per RPC thread: keys it has signed with
  up, nStop

vars == <<store, db, clock, timers, nTimerIdAlloc, fired, signed, up, nStop>>
docker == <<timers, nTimerIdAlloc, fired>>
rest == <<clock, signed, up, nStop>>

-----------------------------------------------------------------------------
(* CKey: a public key, or a private key whose secret is encrypted under a  *)
(* passphrase and, when it is not locked, in memory.  CWalletKeyStore.     *)
PubKey == [ver |-> "public", pass |-> "none"]
PrivKey(p) == [ver |-> "private", pass |-> p]
New(key) == [key |-> key, locked |-> TRUE, nTimerId |-> 0, nAutoLockTime |-> -1,
             nAutoDelayTime |-> 0]
Private(k) == up /\ k \in DOMAIN store /\ store[k].key.ver = "private"
Put(f, x, y) == [z \in DOMAIN f \cup {x} |-> IF z = x THEN y ELSE f[z]]
SetKey(k, r) == store' = Put(store, k, r)

Arm(k, delay) == Put(timers, nTimerIdAlloc + 1, [key |-> k, at |-> clock + delay])
CanArm(delay) == nTimerIdAlloc < MaxTimer /\ clock + delay <= MaxClock   \* bounds
Without(f, S) == [i \in DOMAIN f \ S |-> f[i]]
Locked(r) == New(r.key)

Init ==
  /\ store = <<>> /\ db = <<>> /\ clock = 0
  /\ timers = <<>> /\ nTimerIdAlloc = 0 /\ fired = {}
  /\ signed = [s \in Signer |-> {}] /\ up = TRUE /\ nStop = 0

(* InsertKey: a private key may replace a public one.                      *)
Insertable(k, key) ==
  k \in DOMAIN store => store[k].key.ver = "public" /\ key.ver = "private"

(* AddKey, Import.                                                         *)
AddKey(k, key) ==
  /\ up /\ Insertable(k, key)
  /\ SetKey(k, New(key)) /\ db' = Put(db, k, key)
  /\ UNCHANGED <<docker, rest>>

(* The write fails: the key is removed, also one that was there before.    *)
AddKeyFails(k, key) ==
  /\ up /\ Insertable(k, key)
  /\ store' = Without(store, {k})
  /\ UNCHANGED <<db, docker, rest>>

(* Mutant: the key changes even if the database does not.                  *)
EncryptFirst(k, p, old, written) ==
  /\ up /\ k \in DOMAIN store /\ store[k].key = PrivKey(old)
  /\ SetKey(k, [store[k] EXCEPT !.key = PrivKey(p), !.locked = TRUE])
  /\ db' = IF written THEN Put(db, k, PrivKey(p)) ELSE db
  /\ UNCHANGED <<docker, rest>>

(* Encrypt: first a copy of the key, the database, then the key, which is  *)
(* locked.  The timer is left alone.  A public key has no secret that a    *)
(* passphrase opens.                                                       *)
Encrypt(k, p, old, written) ==
  /\ up /\ k \in DOMAIN store /\ store[k].key = PrivKey(old)
  /\ IF written
       THEN /\ db' = Put(db, k, PrivKey(p))
            /\ SetKey(k, [store[k] EXCEPT !.key = PrivKey(p), !.locked = TRUE])
       ELSE UNCHANGED <<store, db>>
  /\ UNCHANGED <<docker, rest>>

Lock(k) ==
  /\ Private(k)
  /\ IF store[k].nTimerId # 0
       THEN SetKey(k, Locked(store[k])) /\ timers' = Without(timers, {store[k].nTimerId})
       ELSE SetKey(k, [store[k] EXCEPT !.locked = TRUE]) /\ UNCHANGED timers
  /\ UNCHANGED <<db, nTimerIdAlloc, fired, rest>>

(* Unlock.  Without a timeout, an older timer stays.                       *)
Unlock(k, p, delay) ==
  /\ Private(k) /\ store[k].locked /\ store[k].key.pass = p /\ CanArm(delay)
  /\ IF delay > 0
       THEN /\ SetKey(k, [store[k] EXCEPT !.locked = FALSE, !.nAutoDelayTime = delay,
                                          !.nAutoLockTime = clock + delay,
                                          !.nTimerId = nTimerIdAlloc + 1])
            /\ timers' = Arm(k, delay) /\ nTimerIdAlloc' = nTimerIdAlloc + 1
       ELSE SetKey(k, [store[k] EXCEPT !.locked = FALSE]) /\ UNCHANGED <<timers, nTimerIdAlloc>>
  /\ UNCHANGED <<db, fired, rest>>

-----------------------------------------------------------------------------
(* TimerProc takes a timer that has expired and calls back later.          *)
Expire(i) ==
  /\ up /\ i \in DOMAIN timers /\ timers[i].at <= clock
  /\ timers' = Without(timers, {i})
  /\ fired' = fired \cup {<<i, timers[i].key>>}
  /\ UNCHANGED <<store, db, nTimerIdAlloc, rest>>

(* Mutant: the timer may be an old one.                                    *)
AutoLockAny(i, k) ==
  /\ <<i, k>> \in fired
  /\ IF Private(k) THEN SetKey(k, Locked(store[k])) ELSE UNCHANGED store
  /\ fired' = fired \ {<<i, k>>}
  /\ UNCHANGED <<db, timers, nTimerIdAlloc, rest>>

(* AutoLock.                                                               *)
AutoLock(i, k) ==
  /\ <<i, k>> \in fired
  /\ IF Private(k) /\ store[k].nTimerId = i THEN SetKey(k, Locked(store[k])) ELSE UNCHANGED store
  /\ fired' = fired \ {<<i, k>>}
  /\ UNCHANGED <<db, timers, nTimerIdAlloc, rest>>

(* Sign, SignTransaction: a key that is not locked signs, under the shared *)
(* lock; SignMultiPubKey names keys that are locked too.                   *)
Sign(s, k) ==
  /\ signed[s] = {} /\ Private(k)
  /\ signed' = [signed EXCEPT ![s] = {k}]
  /\ UNCHANGED <<store, db, clock, docker, up, nStop>>

(* UpdateAutoLock.                                                         *)
UpdateAutoLock(s) ==
  /\ up /\ signed[s] # {}
  /\ \E k \in signed[s] :
       IF Private(k) /\ store[k].nAutoDelayTime > 0
         THEN /\ CanArm(store[k].nAutoDelayTime)
              /\ SetKey(k, [store[k] EXCEPT !.nAutoLockTime = clock + store[k].nAutoDelayTime,
                                            !.nTimerId = nTimerIdAlloc + 1])
              /\ timers' = Without(Arm(k, store[k].nAutoDelayTime), {store[k].nTimerId})
              /\ nTimerIdAlloc' = nTimerIdAlloc + 1
         ELSE UNCHANGED <<store, timers, nTimerIdAlloc>>
  /\ signed' = [signed EXCEPT ![s] = {}]
  /\ UNCHANGED <<db, clock, fired, up, nStop>>

Tick ==
  /\ clock < MaxClock /\ clock' = clock + 1
  /\ UNCHANGED <<store, db, docker, signed, up, nStop>>

-----------------------------------------------------------------------------
(* A halt or a crash: every write of the database is a synchronous one.    *)
Stop ==
  /\ up /\ nStop < MaxStop
  /\ store' = <<>> /\ timers' = <<>> /\ fired' = {} /\ signed' = [s \in Signer |-> {}]
  /\ up' = FALSE /\ nStop' = nStop + 1
  /\ UNCHANGED <<db, clock, nTimerIdAlloc>>

(* LoadDB: LoadKey of every record.                                        *)
Start ==
  /\ ~up /\ up' = TRUE
  /\ store' = [k \in DOMAIN db |-> New(db[k])]
  /\ UNCHANGED <<db, clock, docker, signed, nStop>>

Keys == {PubKey} \cup {PrivKey(p) : p \in Pass}
Timer == \E i \in 1..MaxTimer : Expire(i) \/ \E k \in Key : AutoLock(i, k)
Calls ==
  \E k \in Key :
    \/ \E key \in Keys : AddKey(k, key) \/ AddKeyFails(k, key)
    \/ \E p, q \in Pass, w \in BOOLEAN : Encrypt(k, p, q, w)
    \/ \E p \in Pass, d \in Delay : Unlock(k, p, d)
    \/ Lock(k) \/ \E s \in Signer : Sign(s, k)

Next == Calls \/ Timer \/ Tick \/ Stop \/ Start \/ \E s \in Signer : UpdateAutoLock(s)
Spec == Init /\ [][Next]_vars

-----------------------------------------------------------------------------
(* The members of CWallet and CDocker have their types.                    *)
TypeOK ==
  /\ DOMAIN store \subseteq Key /\ DOMAIN db \subseteq Key
  /\ \A k \in DOMAIN store : store[k].key \in Keys /\ store[k].locked \in BOOLEAN
  /\ \A k \in DOMAIN db : db[k] \in Keys
  /\ DOMAIN timers \subseteq 1..MaxTimer /\ nTimerIdAlloc \in 0..MaxTimer
  /\ fired \subseteq (1..MaxTimer) \X Key /\ clock \in 0..MaxClock /\ up \in BOOLEAN

(* AddKey, Encrypt, InsertKey: whatever writes fail and whenever the       *)
(* process ends, a key that is in use opens with the same passphrase after *)
(* a restart.                                                              *)
OpensAfterRestart == \A k \in DOMAIN store : k \in DOMAIN db /\ db[k] = store[k].key

(* AutoLock: a key is never locked by its timer before the time that the   *)
(* last Unlock with a timeout, or the last signature since then, promised, *)
(* even if the callback of a timer that was replaced is under way.         *)
NotEarlyStep ==
  \A k \in Key : Timer /\ k \in DOMAIN store /\ k \in DOMAIN store' =>
    (store'[k].locked /\ ~store[k].locked => clock >= store[k].nAutoLockTime)
NotEarly == [][NotEarlyStep]_vars

(* A key that was unlocked with a timeout and is not locked yet.           *)
OpenFor(k) == k \in DOMAIN store /\ ~store[k].locked /\ store[k].nAutoDelayTime > 0
=============================================================================
