---------------------------- MODULE TxPoolProofs ----------------------------
(* Proofs that the pool and the service follow the chain: the work that is *)
(* handed out builds on the last block, and what is cached for a block     *)
(* does not change; for every block tree and any number of threads.        *)
EXTENDS TxPool, FiniteSetTheorems, WellFoundedInduction, TLAPS

-----------------------------------------------------------------------------
(* The inductive invariant.  An update is under way in the pool from the   *)
(* commit to the end of SynchronizeBlockChain, in the service until        *)
(* NotifyBlockChainUpdate.                                                 *)
UpdatePcs == {"idle", "sync", "add", "remove", "notify"}
Syncing == {t \in Thread : pc[t] \in {"sync", "add", "remove"}}
Updating == {t \in Thread : pc[t] # "idle"}

(* The updates of S, each by what u has for it, lead from h to l.          *)
Leads(S, u, h, l) ==
  /\ h # l => \E t \in S : u[t].old = h
  /\ \A t \in S : u[t].new # h /\ (u[t].new # l => \E s \in S : u[s].old = u[t].new)

Types ==
  /\ last \in Block /\ status \in Block /\ hashLastBlock \in Block
  /\ DOMAIN pc = Thread \cup {Pusher} /\ \A t \in Thread : pc[t] \in UpdatePcs
  /\ upd \in [Thread -> [old : Block, new : Block]]
  /\ DOMAIN cache \subseteq Block
  /\ up \in BOOLEAN /\ raced \in BOOLEAN
  /\ ~up => \A t \in Thread \cup {Pusher} : pc[t] = "idle"

(* A thread inside SynchronizeBlockChain or Push has the lock.             *)
LockInv ==
  /\ \A t \in Thread : pc[t] \in {"add", "remove"} => owner = t
  /\ pc[Pusher] \in {"push", "link"} => owner = Pusher

(* Each update makes the chain heavier, so no two lead to the same block,  *)
(* and no update leads to a block that is cached already.                  *)
OrderInv ==
  /\ \A t \in Updating : /\ ChainTrust[upd[t].old] < ChainTrust[upd[t].new]
                         /\ ChainTrust[upd[t].new] <= ChainTrust[last]
                         /\ \A s \in Updating : s # t => upd[s].new # upd[t].new
  /\ \A t \in Syncing : upd[t].new \notin DOMAIN cache
  /\ \A b \in DOMAIN cache : ChainTrust[b] <= ChainTrust[last]

(* One of the highest blocks is cached, and the last block of the pool is, *)
(* unless it is lower by the whole interval.                               *)
Highest(b, c) == b \in DOMAIN c /\ \A x \in DOMAIN c : Height(x) <= Height(b)
Offered(c, h) == h \in DOMAIN c \/ \E b \in DOMAIN c : Height(b) >= Height(h) + Interval

(* While no update overtakes another, those under way lead the pool and    *)
(* the service to the last block.                                          *)
FollowInv ==
  /\ ChainTrust[hashLastBlock] <= ChainTrust[last] /\ ChainTrust[status] <= ChainTrust[last]
  /\ Leads(Syncing, upd, hashLastBlock, last) /\ Leads(Updating, upd, status, last)
  /\ \A t \in Thread : pc[t] \in {"add", "remove"} => upd[t].old = hashLastBlock
  /\ Offered(cache, hashLastBlock)

PoolInv ==
  /\ Types
  /\ up => LockInv /\ OrderInv /\ \E b \in Block : Highest(b, cache)
  /\ up /\ ~raced => FollowInv

-----------------------------------------------------------------------------
(* Facts about the operators.                                              *)

LEMMA Heights == \A b \in Block : Height(b) \in Nat
<1> DEFINE R == OpToRel(<, Nat)
           S == {b \in Block : IsFiniteSet(Chain[b])}
           T == {ChainTrust[b] : b \in Block \ S}
<1>1. Genesis \in S
  BY BlockTree, FS_Singleton
<1>2. ASSUME NEW b \in Block \ {Genesis}, Parent[b] \in S  PROVE b \in S
  <2>1. Chain[b] = Chain[Parent[b]] \cup {b}
    BY BlockTree
  <2>2. IsFiniteSet(Chain[b])
    BY <1>2, <2>1, FS_AddElement
  <2> QED  BY <2>2
<1>3. Block \subseteq S
  <2> SUFFICES ASSUME NEW z \in Block \ S  PROVE FALSE
    OBVIOUS
  <2>1. T \subseteq Nat /\ T # {}
    BY BlockTrust
  <2>2. PICK n \in T : \A m \in T : <<m, n>> \notin R
    <3> HIDE DEF T
    <3> QED  BY Zenon, <2>1, NatLessThanWellFounded, WFMin
  <2>3. PICK b \in Block \ S : n = ChainTrust[b]
    BY <2>2
  <2>4. b # Genesis /\ Parent[b] \in Block \ S
    BY <1>1, <1>2, <2>3, BlockTree
  <2>5. ChainTrust[Parent[b]] < n /\ ChainTrust[Parent[b]] \in T /\ n \in Nat
    BY <2>1, <2>2, <2>3, <2>4, BlockTrust
  <2> HIDE DEF T, S
  <2>6. ChainTrust[Parent[b]] \in Nat
    BY Zenon, <2>1, <2>5
  <2> QED  BY Zenon, <2>2, <2>5, <2>6 DEF OpToRel
<1>4. ASSUME NEW b \in Block  PROVE Height(b) \in Nat
  <2>1. IsFiniteSet(Chain[b]) /\ Chain[b] # {}
    BY <1>3, BlockTree
  <2>2. Cardinality(Chain[b]) \in Nat
    BY <2>1, FS_CardinalityType
  <2>3. Cardinality(Chain[b]) # 0
    BY <2>1, FS_EmptySet
  <2> QED  BY <2>2, <2>3 DEF Height
<1> QED  BY <1>4

(* CTxCache::AddNew: the new block enters unless it is too low, no other   *)
(* block enters, no entry changes, and the highest block stays.            *)
LEMMA CacheEffect ==
  ASSUME NEW c, DOMAIN c \subseteq Block, NEW h \in Block, Highest(h, c),
         NEW b \in Block, NEW vtx
  PROVE  LET e == CacheAddNew(c, b, vtx)
         IN  /\ DOMAIN e \subseteq DOMAIN c \cup {b}
             /\ \A x \in DOMAIN e : x # b => e[x] = c[x]
             /\ \E m \in Block : Highest(m, e)
             /\ Offered(e, b)
<1> DEFINE d == [x \in DOMAIN c \cup {b} |-> IF x = b THEN vtx ELSE c[x]]
           H == {Height(x) : x \in DOMAIN d}
           upper == Max(H)
           e == CacheAddNew(c, b, vtx)
<1>1. /\ DOMAIN d = DOMAIN c \cup {b}
      /\ \A x \in DOMAIN d : x # b => d[x] = c[x]
  OBVIOUS
<1>2. \A x \in DOMAIN d : Height(x) \in Nat
  BY <1>1, Heights
<1>3. PICK m \in DOMAIN d : \A x \in DOMAIN d : Height(x) <= Height(m)
  <2>1. CASE Height(b) <= Height(h)
    BY <1>1, <1>2, <2>1 DEF Highest
  <2>2. CASE ~(Height(b) <= Height(h))
    BY <1>1, <1>2, <2>2 DEF Highest
  <2> QED  BY <2>1, <2>2
<1>4. upper = Height(m)
  <2>1. Height(m) \in H /\ \A y \in H : Height(m) >= y
    BY <1>2, <1>3
  <2>2. \A y \in H : y \in Nat
    BY <1>2
  <2> HIDE DEF H
  <2>3. upper \in H /\ \A y \in H : upper >= y
    BY <2>1 DEF Max
  <2> QED  BY <2>1, <2>2, <2>3
<1>5. e = IF upper > Interval
            THEN [x \in {y \in DOMAIN d : Height(y) >= upper - (Interval - 1)} |-> d[x]] ELSE d
  BY DEF CacheAddNew, Restrict
<1> HIDE DEF d, upper, e
<1>6. Interval \in Nat \ {0} /\ m \in Block /\ Height(m) \in Nat
  BY <1>1, <1>2, <1>3, PoolConstants
<1>7. /\ DOMAIN e \subseteq DOMAIN d /\ m \in DOMAIN e
      /\ \A x \in DOMAIN e : e[x] = d[x]
      /\ \A x \in DOMAIN d : x \notin DOMAIN e => Height(x) < Height(m) - (Interval - 1)
  <2>1. CASE upper > Interval
    BY <1>2, <1>3, <1>4, <1>5, <1>6, <2>1
  <2>2. CASE ~(upper > Interval)
    BY <1>5, <2>2
  <2> QED  BY <2>1, <2>2
<1>8. Highest(m, e)
  BY <1>3, <1>7 DEF Highest
<1>9. Offered(e, b)
  BY <1>1, <1>2, <1>6, <1>7 DEF Offered
<1> QED  BY <1>1, <1>6, <1>7, <1>8, <1>9 DEF e

(* A heavier last block, and the update that leads to it.                  *)
LEMMA LeadsMore ==
  ASSUME NEW S \in SUBSET Thread, NEW t \in Thread \ S, NEW h, NEW l, NEW b,
         NEW u \in [Thread -> [old : Block, new : Block]], Leads(S, u, h, l),
         h # b, \A s \in S : u[s].new # b, l # b
  PROVE  Leads(S \cup {t}, [u EXCEPT ![t] = [old |-> l, new |-> b]], h, b)
<1> DEFINE w == [u EXCEPT ![t] = [old |-> l, new |-> b]]
<1>1. w[t].old = l /\ w[t].new = b /\ \A s \in S : w[s] = u[s]
  OBVIOUS
<1> HIDE DEF w
<1>2. \E s \in S \cup {t} : w[s].old = h
  BY <1>1 DEF Leads
<1>3. ASSUME NEW s \in S \cup {t}
      PROVE  w[s].new # h /\ (w[s].new # b => \E r \in S \cup {t} : w[r].old = w[s].new)
  <2>1. CASE s = t
    BY <1>1, <2>1
  <2>2. CASE s \in S
    BY <1>1, <2>2 DEF Leads
  <2> QED  BY <2>1, <2>2
<1>4. Leads(S \cup {t}, w, h, b)
  BY <1>2, <1>3 DEF Leads
<1> QED  BY <1>4 DEF w

(* The update of t is followed.                                            *)
LEMMA LeadsOn ==
  ASSUME NEW S, NEW t \in S, NEW u, NEW h, NEW l, Leads(S, u, h, l),
         u[t].old = h, \A s \in S : s # t => u[s].new # u[t].new
  PROVE  Leads(S \ {t}, u, u[t].new, l)
<1>1. u[t].new # l => \E s \in S \ {t} : u[s].old = u[t].new
  BY DEF Leads
<1>2. ASSUME NEW s \in S \ {t}
      PROVE  u[s].new # u[t].new /\ (u[s].new # l => \E r \in S \ {t} : u[r].old = u[s].new)
  BY DEF Leads
<1> QED  BY <1>1, <1>2 DEF Leads

-----------------------------------------------------------------------------
(* Every step keeps the invariant.                                         *)
USE DEF view, cached, work, push, life

LEMMA ConstantFacts == Pusher \notin Thread /\ None \notin Thread /\ Pusher # None
BY PoolConstants, BlockTree

(* Steps that the updates do not notice.                                   *)
LEMMA Unnoticed ==
  ASSUME PoolInv, up, UNCHANGED <<last, upd, status, cache, hashLastBlock, up>>,
         \A t \in Thread : pc'[t] = pc[t], DOMAIN pc' = DOMAIN pc,
         raced' \in BOOLEAN, raced => raced',
         \A t \in Thread : pc[t] \in {"add", "remove"} => owner' = owner,
         pc'[Pusher] \in {"push", "link"} => owner' = Pusher
  PROVE  PoolInv'
<1>1. Types'
  BY DEF PoolInv, Types
<1>2. Syncing' = Syncing /\ Updating' = Updating
  BY DEF Syncing, Updating
<1>3. ASSUME up  PROVE LockInv' /\ OrderInv' /\ \E b \in Block : Highest(b, cache')
  <2>1. LockInv'
    BY <1>3 DEF PoolInv, LockInv
  <2>2. OrderInv' /\ \E b \in Block : Highest(b, cache')
    BY <1>2, <1>3 DEF PoolInv, OrderInv
  <2> QED  BY <2>1, <2>2
<1>4. ASSUME up, ~raced'  PROVE FollowInv'
  BY <1>2, <1>4 DEF PoolInv, FollowInv
<1> QED  BY <1>1, <1>3, <1>4 DEF PoolInv

LEMMA CommitInv ==
  ASSUME PoolInv, NEW t \in Thread, NEW b \in Block, Commit(t, b)
  PROVE  PoolInv'
<1>1. /\ up /\ up' /\ pc[t] = "idle" /\ last' = b /\ ChainTrust[b] > ChainTrust[last]
      /\ upd' = [upd EXCEPT ![t] = [old |-> last, new |-> b]]
      /\ pc' = [pc EXCEPT ![t] = "sync"]
      /\ UNCHANGED <<status, owner, cache, hashLastBlock, up, raced>>
  BY DEF Commit, At, Goto
<1>2. Types'
  BY <1>1 DEF PoolInv, Types, UpdatePcs
<1>3. /\ Syncing' = Syncing \cup {t} /\ Updating' = Updating \cup {t}
      /\ t \notin Syncing /\ t \notin Updating /\ Syncing \subseteq Updating
  BY <1>1 DEF PoolInv, Types, Syncing, Updating
<1>4. LockInv'
  BY <1>1, ConstantFacts DEF PoolInv, Types, LockInv
<1>5. /\ \A x \in Block : ChainTrust[x] \in Nat
      /\ ChainTrust[b] > ChainTrust[last] /\ last \in Block /\ status \in Block
      /\ hashLastBlock \in Block
      /\ \A s \in Thread : upd[s].old \in Block /\ upd[s].new \in Block
  BY <1>1, BlockTrust DEF PoolInv, Types
<1>6. /\ upd'[t].old = last /\ upd'[t].new = b
      /\ \A s \in Thread : s # t => upd'[s] = upd[s]
  BY <1>1 DEF PoolInv, Types
<1>7. OrderInv
  BY <1>1 DEF PoolInv
<1>8. \A s \in Updating : upd[s].new # b
  BY <1>5, <1>7 DEF OrderInv, Updating
<1>9. OrderInv'
  <2>1. ASSUME NEW s \in Updating'
        PROVE  /\ ChainTrust[upd'[s].old] < ChainTrust[upd'[s].new]
               /\ ChainTrust[upd'[s].new] <= ChainTrust[last']
               /\ \A r \in Updating' : r # s => upd'[r].new # upd'[s].new
    <3>1. CASE s = t
      BY <1>1, <1>3, <1>5, <1>6, <1>8, <3>1 DEF Updating
    <3>2. CASE s # t
      <4>1. s \in Updating /\ s \in Thread
        BY <1>3, <2>1, <3>2 DEF Updating
      <4>2. /\ ChainTrust[upd'[s].old] < ChainTrust[upd'[s].new]
            /\ ChainTrust[upd'[s].new] <= ChainTrust[last']
        BY <1>1, <1>5, <1>6, <1>7, <3>2, <4>1 DEF OrderInv
      <4>3. \A r \in Updating' : r # s => upd'[r].new # upd'[s].new
        BY <1>3, <1>6, <1>7, <1>8, <3>2, <4>1 DEF OrderInv, Updating
      <4> QED  BY <4>2, <4>3
    <3> QED  BY <3>1, <3>2
  <2>2. \A x \in DOMAIN cache' : ChainTrust[x] <= ChainTrust[last'] /\ x # b
    BY <1>1, <1>5, <1>7 DEF OrderInv, PoolInv, Types
  <2>3. \A s \in Syncing' : upd'[s].new \notin DOMAIN cache'
    BY <1>1, <1>3, <1>6, <1>7, <2>2 DEF OrderInv, Syncing
  <2> QED  BY <2>1, <2>2, <2>3 DEF OrderInv
<1>10. ASSUME ~raced'  PROVE FollowInv'
  <2>1. FollowInv
    BY <1>1, <1>10 DEF PoolInv
  <2>2. hashLastBlock # b /\ status # b /\ last # b
    BY <1>5, <2>1 DEF FollowInv
  <2>3. Leads(Syncing \cup {t}, upd', hashLastBlock, b)
    BY <1>1, <1>3, <1>8, <2>1, <2>2, LeadsMore DEF FollowInv, PoolInv, Types, Syncing
  <2>4. Leads(Updating \cup {t}, upd', status, b)
    BY <1>1, <1>3, <1>8, <2>1, <2>2, LeadsMore DEF FollowInv, PoolInv, Types, Updating
  <2>5. /\ ChainTrust[hashLastBlock'] <= ChainTrust[last']
        /\ ChainTrust[status'] <= ChainTrust[last']
    BY <1>1, <1>5, <2>1 DEF FollowInv
  <2>6. \A s \in Thread : pc'[s] \in {"add", "remove"} => upd'[s].old = hashLastBlock'
    BY <1>1, <1>6, <2>1 DEF FollowInv, PoolInv, Types
  <2> QED  BY <1>1, <1>3, <2>1, <2>3, <2>4, <2>5, <2>6 DEF FollowInv
<1>11. \E x \in Block : Highest(x, cache')
  BY <1>1 DEF PoolInv
<1> QED  BY <1>2, <1>4, <1>9, <1>10, <1>11 DEF PoolInv

(* A thread goes on inside SynchronizeBlockChain.                          *)
LEMMA SyncingInv ==
  ASSUME PoolInv, NEW t \in Thread, SyncStart(t) \/ SyncTurn(t)
  PROVE  PoolInv'
<1>1. /\ up /\ pc[t] \in {"sync", "add"} /\ owner' = t
      /\ \E p \in {"add", "remove"} : pc' = [pc EXCEPT ![t] = p]
      /\ UNCHANGED <<last, upd, status, cache, hashLastBlock, up>>
      /\ raced' \in BOOLEAN /\ (raced => raced')
  BY DEF SyncStart, SyncTurn, At, Goto, PoolInv, Types, LockInv
<1>2. \A s \in Thread : s # t => pc'[s] = pc[s] /\ pc[s] \notin {"add", "remove"}
  BY <1>1, ConstantFacts DEF SyncStart, SyncTurn, At, PoolInv, Types, LockInv
<1>3. pc'[t] \in {"add", "remove"}
  BY <1>1 DEF PoolInv, Types
<1>4. ~raced' => upd[t].old = hashLastBlock
  <2>1. CASE SyncStart(t)
    BY <2>1 DEF SyncStart
  <2>2. CASE SyncTurn(t)
    BY <1>1, <2>2 DEF SyncTurn, At, PoolInv, FollowInv
  <2> QED  BY <2>1, <2>2
<1>5. Types'
  BY <1>1, <1>2, <1>3 DEF PoolInv, Types, UpdatePcs
<1>6. Syncing' = Syncing /\ Updating' = Updating
  BY <1>1, <1>2, <1>3 DEF Syncing, Updating
<1>7. LockInv'
  <2>1. pc'[Pusher] = pc[Pusher] /\ pc[Pusher] \notin {"push", "link"}
    BY <1>1, ConstantFacts DEF SyncStart, SyncTurn, At, PoolInv, Types, LockInv
  <2> QED  BY <1>1, <1>2, <2>1 DEF LockInv
<1>8. OrderInv' /\ \E b \in Block : Highest(b, cache')
  BY <1>1, <1>6 DEF PoolInv, OrderInv
<1>9. ASSUME ~raced'  PROVE FollowInv'
  <2>1. FollowInv
    BY <1>1, <1>9 DEF PoolInv
  <2>2. \A s \in Thread : pc'[s] \in {"add", "remove"} => upd'[s].old = hashLastBlock'
    BY <1>1, <1>2, <1>4, <1>9
  <2> QED  BY <1>1, <1>6, <2>1, <2>2 DEF FollowInv
<1> QED  BY <1>5, <1>7, <1>8, <1>9 DEF PoolInv

(* What the end of SynchronizeBlockChain does to the cache.                *)
LEMMA SyncEndCache ==
  ASSUME PoolInv, NEW t \in Thread, SyncEnd(t)
  PROVE  /\ DOMAIN cache' \subseteq DOMAIN cache \cup {upd[t].new}
         /\ \A x \in DOMAIN cache' : x # upd[t].new => cache'[x] = cache[x]
         /\ \E m \in Block : Highest(m, cache')
         /\ Offered(cache', upd[t].new)
         /\ upd[t].new \in Block \ DOMAIN cache
<1>1. /\ up /\ pc[t] = "remove"
      /\ cache' = CacheAddNew(cache, upd[t].new, ArrangeBlockTx(View, upd[t].new, MaxTx))
  BY DEF SyncEnd, At
<1>2. DOMAIN cache \subseteq Block /\ upd[t].new \in Block /\ \E h \in Block : Highest(h, cache)
  BY <1>1 DEF PoolInv, Types
<1>3. upd[t].new \notin DOMAIN cache
  BY <1>1 DEF PoolInv, OrderInv, Syncing
<1> QED  BY <1>1, <1>2, <1>3, CacheEffect

LEMMA SyncEndInv ==
  ASSUME PoolInv, NEW t \in Thread, SyncEnd(t)
  PROVE  PoolInv'
<1>1. /\ up /\ pc[t] = "remove" /\ hashLastBlock' = upd[t].new
      /\ pc' = [pc EXCEPT ![t] = "notify"]
      /\ UNCHANGED <<last, upd, status, up, raced>>
  BY DEF SyncEnd, At, Goto
<1>2. /\ pc'[t] = "notify"
      /\ \A s \in Thread : s # t => pc'[s] = pc[s] /\ pc[s] \notin {"add", "remove"}
  BY <1>1 DEF PoolInv, Types, LockInv
<1>3. Syncing' = Syncing \ {t} /\ Updating' = Updating /\ t \in Syncing /\ Syncing \subseteq Updating
  BY <1>1, <1>2 DEF Syncing, Updating
<1>4. Types'
  BY <1>1, <1>2, SyncEndCache DEF PoolInv, Types, UpdatePcs
<1>5. LockInv'
  <2>1. pc'[Pusher] = pc[Pusher] /\ pc[Pusher] \notin {"push", "link"}
    BY <1>1, ConstantFacts DEF PoolInv, Types, LockInv
  <2> QED  BY <1>2, <2>1 DEF LockInv
<1>6. OrderInv
  BY <1>1 DEF PoolInv
<1>7. OrderInv'
  <2>1. \A s \in Updating' : /\ ChainTrust[upd'[s].old] < ChainTrust[upd'[s].new]
                             /\ ChainTrust[upd'[s].new] <= ChainTrust[last']
                             /\ \A r \in Updating' : r # s => upd'[r].new # upd'[s].new
    BY <1>1, <1>3, <1>6 DEF OrderInv
  <2>2. \A s \in Syncing' : upd'[s].new \notin DOMAIN cache'
    BY <1>1, <1>3, <1>6, SyncEndCache DEF OrderInv
  <2>3. \A b \in DOMAIN cache' : ChainTrust[b] <= ChainTrust[last']
    BY <1>1, <1>3, <1>6, SyncEndCache DEF OrderInv
  <2> QED  BY <2>1, <2>2, <2>3 DEF OrderInv
<1>8. ASSUME ~raced'  PROVE FollowInv'
  <2>1. FollowInv
    BY <1>1, <1>8 DEF PoolInv
  <2>2. Leads(Syncing', upd', hashLastBlock', last')
    <3>1. upd[t].old = hashLastBlock /\ Leads(Syncing, upd, hashLastBlock, last)
      BY <1>1, <2>1 DEF FollowInv
    <3>2. \A s \in Syncing : s # t => upd[s].new # upd[t].new
      BY <1>3, <1>6 DEF OrderInv
    <3> QED  BY <1>1, <1>3, <3>1, <3>2, LeadsOn
  <2>3. Leads(Updating', upd', status', last') /\ ChainTrust[status'] <= ChainTrust[last']
    BY <1>1, <1>3, <2>1 DEF FollowInv
  <2>4. ChainTrust[hashLastBlock'] <= ChainTrust[last']
    BY <1>1, <1>3, <1>6 DEF OrderInv
  <2>5. Offered(cache', hashLastBlock')
    BY <1>1, SyncEndCache
  <2> QED  BY <1>2, <2>2, <2>3, <2>4, <2>5 DEF FollowInv
<1> QED  BY <1>4, <1>5, <1>7, <1>8, SyncEndCache DEF PoolInv

LEMMA NotifyInv ==
  ASSUME PoolInv, NEW t \in Thread, Notify(t)
  PROVE  PoolInv'
<1>1. /\ up /\ pc[t] = "notify" /\ status' = upd[t].new
      /\ raced' = (raced \/ upd[t].old # status)
      /\ pc' = [pc EXCEPT ![t] = "idle"]
      /\ UNCHANGED <<last, upd, owner, cache, hashLastBlock, up>>
  BY DEF Notify, At, Goto
<1>2. pc'[t] = "idle" /\ \A s \in Thread : s # t => pc'[s] = pc[s]
  BY <1>1 DEF PoolInv, Types
<1>3. Syncing' = Syncing /\ Updating' = Updating \ {t} /\ t \in Updating
  BY <1>1, <1>2 DEF Syncing, Updating
<1>4. Types'
  BY <1>1, <1>2 DEF PoolInv, Types, UpdatePcs
<1>5. LockInv'
  BY <1>1, <1>2, ConstantFacts DEF PoolInv, Types, LockInv
<1>6. OrderInv
  BY <1>1 DEF PoolInv
<1>7. OrderInv'
  <2>1. \A s \in Updating' : /\ ChainTrust[upd'[s].old] < ChainTrust[upd'[s].new]
                             /\ ChainTrust[upd'[s].new] <= ChainTrust[last']
                             /\ \A r \in Updating' : r # s => upd'[r].new # upd'[s].new
    BY <1>1, <1>3, <1>6 DEF OrderInv
  <2> QED  BY <1>1, <1>3, <1>6, <2>1 DEF OrderInv
<1>8. ASSUME ~raced'  PROVE FollowInv'
  <2>1. FollowInv /\ upd[t].old = status
    BY <1>1, <1>8 DEF PoolInv
  <2>2. Leads(Updating', upd', status', last')
    <3>1. Leads(Updating, upd, status, last)
      BY <2>1 DEF FollowInv
    <3>2. \A s \in Updating : s # t => upd[s].new # upd[t].new
      BY <1>3, <1>6 DEF OrderInv
    <3> QED  BY <1>1, <1>3, <2>1, <3>1, <3>2, LeadsOn
  <2>3. ChainTrust[status'] <= ChainTrust[last']
    BY <1>1, <1>3, <1>6 DEF OrderInv
  <2>4. \A s \in Thread : pc'[s] \in {"add", "remove"} => upd'[s].old = hashLastBlock'
    BY <1>1, <1>2, <2>1 DEF FollowInv
  <2> QED  BY <1>1, <1>3, <2>1, <2>2, <2>3, <2>4 DEF FollowInv
<1> QED  BY <1>1, <1>4, <1>5, <1>7, <1>8 DEF PoolInv

LEMMA StopInv ==
  ASSUME PoolInv, Halt \/ Crash
  PROVE  PoolInv'
<1>1. /\ up' = FALSE /\ pc' = [t \in Thread \cup {Pusher} |-> "idle"] /\ cache' = <<>>
      /\ UNCHANGED <<last, upd, status, hashLastBlock>> /\ DOMAIN cache' = {}
  BY DEF Halt, Crash, Stop
<1>2. raced' \in BOOLEAN
  BY DEF Halt, Crash, PoolInv, Types
<1>3. Types'
  BY <1>1, <1>2 DEF PoolInv, Types, UpdatePcs
<1> QED  BY <1>1, <1>3 DEF PoolInv

LEMMA StartInv ==
  ASSUME PoolInv, Start
  PROVE  PoolInv'
<1>1. /\ up' = TRUE /\ status' = last /\ hashLastBlock' = last
      /\ DOMAIN cache' = {last}
      /\ UNCHANGED <<last, pc, upd, owner, raced>>
  BY DEF Start
<1>2. last \in Block /\ \A t \in Thread \cup {Pusher} : pc[t] = "idle"
  BY DEF Start, PoolInv, Types
<1>3. Types'
  BY <1>1, <1>2 DEF PoolInv, Types, UpdatePcs
<1>4. Syncing' = {} /\ Updating' = {}
  BY <1>1, <1>2 DEF Syncing, Updating
<1>5. Height(last) \in Nat /\ ChainTrust[last] \in Nat
  BY <1>2, Heights, BlockTrust
<1>6. LockInv' /\ OrderInv' /\ \E b \in Block : Highest(b, cache')
  BY <1>1, <1>2, <1>4, <1>5 DEF LockInv, OrderInv, Highest
<1>7. FollowInv'
  BY <1>1, <1>2, <1>4, <1>5 DEF FollowInv, Leads, Offered
<1> QED  BY <1>3, <1>6, <1>7 DEF PoolInv

(* The transactions change, no update does.                                *)
LEMMA TransactionInv ==
  ASSUME PoolInv, NEW t \in Thread, SyncAdd(t) \/ SyncDrop(t) \/ SyncReAdd(t) \/ SyncRestore(t)
  PROVE  PoolInv'
<1>1. UNCHANGED <<last, upd, status, cache, hashLastBlock, up, pc, owner, raced>>
  <2>1. CASE SyncAdd(t)
    BY <2>1 DEF SyncAdd
  <2>2. CASE SyncDrop(t)
    BY <2>2 DEF SyncDrop
  <2>3. CASE SyncReAdd(t)
    BY <2>3 DEF SyncReAdd
  <2>4. CASE SyncRestore(t)
    BY <2>4 DEF SyncRestore
  <2> QED  BY <2>1, <2>2, <2>3, <2>4
<1>2. up
  BY DEF SyncAdd, SyncDrop, SyncReAdd, SyncRestore, At
<1> QED  BY <1>1, <1>2, Unnoticed DEF PoolInv, Types, LockInv

LEMMA ReindexInv ==
  ASSUME PoolInv, NEW t \in Thread \cup {Pusher}, Reindex(t)
  PROVE  PoolInv'
<1>1. /\ up /\ owner = t
      /\ UNCHANGED <<last, upd, status, cache, hashLastBlock, up, raced>>
      /\ \/ UNCHANGED <<pc, owner>>
         \/ t = Pusher /\ pc' = [pc EXCEPT ![Pusher] = "idle"]
  BY DEF Reindex, Goto
<1>2. (\A s \in Thread : pc'[s] = pc[s]) /\ DOMAIN pc' = DOMAIN pc
  BY <1>1, ConstantFacts DEF PoolInv, Types
<1>3. pc'[Pusher] \in {"push", "link"} => owner' = Pusher
  BY <1>1 DEF PoolInv, Types, LockInv
<1>4. \A s \in Thread : pc[s] \in {"add", "remove"} => owner' = owner
  BY <1>1, ConstantFacts DEF PoolInv, LockInv
<1> QED  BY <1>1, <1>2, <1>3, <1>4, Unnoticed DEF PoolInv, Types

LEMMA PushInv ==
  ASSUME PoolInv, Push \/ \E x \in Tx : PushStart(x)
  PROVE  PoolInv'
<1>1. /\ up /\ UNCHANGED <<last, upd, status, cache, hashLastBlock, up>>
      /\ raced' \in BOOLEAN /\ (raced => raced')
      /\ owner = None \/ pc[Pusher] \in {"push", "link"}
      /\ \/ pc' = [pc EXCEPT ![Pusher] = "idle"]
         \/ pc' = [pc EXCEPT ![Pusher] = "push"] /\ owner' = Pusher
         \/ pc' = [pc EXCEPT ![Pusher] = "link"] /\ owner' = owner /\ pc[Pusher] = "push"
  <2>1. CASE PushRefused
    BY <2>1 DEF PushRefused, At, Goto, PoolInv, Types
  <2>2. CASE PushAdd
    <3>1. /\ At(Pusher, "push") /\ UNCHANGED <<last, upd, status, cache, hashLastBlock, up>>
          /\ raced' = (raced \/ \E o \in Outs[tx] : IsSpent(View, o))
          /\ \/ Goto(Pusher, "link") /\ UNCHANGED owner
             \/ Goto(Pusher, "idle")
      BY <2>2 DEF PushAdd
    <3> QED  BY <3>1 DEF At, Goto, PoolInv, Types
  <2>3. CASE PushEnd
    BY <2>3 DEF PushEnd, At, Goto, PoolInv, Types
  <2>4. CASE \E x \in Tx : PushStart(x)
    BY <2>4 DEF PushStart, At, Goto, PoolInv, Types
  <2> QED  BY <2>1, <2>2, <2>3, <2>4 DEF Push
<1>2. (\A s \in Thread : pc'[s] = pc[s]) /\ DOMAIN pc' = DOMAIN pc
  BY <1>1, ConstantFacts DEF PoolInv, Types
<1>3. owner \in {Pusher, None}
  BY <1>1 DEF PoolInv, LockInv
<1>4. \A s \in Thread : pc[s] \notin {"add", "remove"}
  BY <1>1, <1>3, ConstantFacts DEF PoolInv, LockInv
<1>5. pc'[Pusher] \in {"push", "link"} => owner' = Pusher
  <2>1. pc' = [pc EXCEPT ![Pusher] = "idle"] => pc'[Pusher] = "idle"
    BY DEF PoolInv, Types
  <2>2. pc[Pusher] = "push" => owner = Pusher
    BY <1>1 DEF PoolInv, LockInv
  <2> QED  BY <1>1, <2>1, <2>2
<1> QED  BY <1>1, <1>2, <1>4, <1>5, Unnoticed

LEMMA InitInv == ASSUME Init  PROVE PoolInv
<1>1. /\ last = Genesis /\ status = Genesis /\ hashLastBlock = Genesis /\ Genesis \in Block
      /\ pc = [t \in Thread \cup {Pusher} |-> "idle"] /\ DOMAIN cache = {Genesis}
      /\ up = TRUE /\ raced = FALSE
  BY BlockTree DEF Init
<1>2. Types
  BY <1>1 DEF Init, Types, UpdatePcs
<1>3. Syncing = {} /\ Updating = {}
  BY <1>1 DEF Syncing, Updating
<1>4. Height(Genesis) \in Nat /\ ChainTrust[Genesis] \in Nat
  BY <1>1, Heights, BlockTrust
<1>5. LockInv /\ OrderInv /\ \E b \in Block : Highest(b, cache)
  BY <1>1, <1>3, <1>4 DEF LockInv, OrderInv, Highest
<1>6. FollowInv
  BY <1>1, <1>3, <1>4 DEF FollowInv, Leads, Offered
<1> QED  BY <1>2, <1>5, <1>6 DEF PoolInv

LEMMA StutterInv == ASSUME PoolInv, UNCHANGED vars  PROVE PoolInv'
BY DEF vars, PoolInv, Types, LockInv, OrderInv, FollowInv, Syncing, Updating

LEMMA NextInv == ASSUME PoolInv, [Next]_vars  PROVE PoolInv'
<1>1. ASSUME NEW t \in Thread, Sync(t)  PROVE PoolInv'
  BY <1>1, SyncingInv, TransactionInv, SyncEndInv, NotifyInv DEF Sync
<1>2. ASSUME NEW t \in Thread, Reindex(t) \/ \E b \in Block : Commit(t, b)  PROVE PoolInv'
  BY <1>2, ReindexInv, CommitInv
<1>3. CASE Push \/ \E x \in Tx : PushStart(x)
  BY <1>3, PushInv
<1>4. CASE Reindex(Pusher)
  BY <1>4, ReindexInv
<1>5. CASE Halt \/ Crash
  BY <1>5, StopInv
<1>6. CASE Start
  BY <1>6, StartInv
<1> QED  BY <1>1, <1>2, <1>3, <1>4, <1>5, <1>6, StutterInv DEF Next

THEOREM Invariance == Spec => []PoolInv
<1>1. Init => PoolInv
  BY InitInv
<1>2. PoolInv /\ [Next]_vars => PoolInv'
  BY NextInv
<1> QED  BY <1>1, <1>2, PTL DEF Spec

(* When the updates are through, GetWork builds on the last block, for     *)
(* which the cache has transactions, or the chain has become shorter by    *)
(* the whole interval of CTxCache.                                         *)
THEOREM Served == Spec => []WorkServed
<1>1. ASSUME PoolInv  PROVE WorkServed
  <2> SUFFICES ASSUME up, ~raced, \A t \in Thread : pc[t] = "idle"
               PROVE  /\ status = last
                      /\ \/ last \in DOMAIN cache
                         \/ \E b \in DOMAIN cache : Height(b) >= Height(last) + Interval
    BY DEF WorkServed
  <2>1. FollowInv /\ Syncing = {} /\ Updating = {}
    BY <1>1 DEF PoolInv, Syncing, Updating
  <2>2. status = last /\ hashLastBlock = last
    BY <2>1 DEF FollowInv, Leads
  <2> QED  BY <2>1, <2>2 DEF FollowInv, Offered
<1> QED  BY <1>1, Invariance, PTL

(* What SubmitWork finds cached for a block is what GetWork handed out.    *)
THEOREM Stability == Spec => CacheStable
<1>1. ASSUME PoolInv, [Next]_vars  PROVE CacheStep
  <2> SUFFICES ASSUME up, up'
               PROVE  \A b \in DOMAIN cache \cap DOMAIN cache' : cache'[b] = cache[b]
    BY DEF CacheStep
  <2>1. ASSUME NEW t \in Thread, SyncEnd(t)
        PROVE  \A b \in DOMAIN cache \cap DOMAIN cache' : cache'[b] = cache[b]
    BY <1>1, <2>1, SyncEndCache
  <2>2. ASSUME NEW t \in Thread, Sync(t), ~SyncEnd(t)  PROVE cache' = cache
    BY <2>2 DEF Sync, SyncStart, SyncAdd, SyncTurn, SyncDrop, SyncReAdd, SyncRestore, Notify
  <2>3. ASSUME NEW t, Reindex(t)  PROVE cache' = cache
    BY <2>3 DEF Reindex
  <2>4. ASSUME NEW t \in Thread, NEW b \in Block, Commit(t, b)  PROVE cache' = cache
    BY <2>4 DEF Commit
  <2>5. CASE Push
    BY <2>5 DEF Push, PushRefused, PushAdd, PushEnd
  <2>6. ASSUME NEW x \in Tx, PushStart(x)  PROVE cache' = cache
    BY <2>6 DEF PushStart
  <2>7. ~Halt /\ ~Crash /\ ~Start
    BY DEF Halt, Crash, Stop, Start
  <2>8. CASE UNCHANGED vars
    BY <2>8 DEF vars
  <2> QED  BY <1>1, <2>1, <2>2, <2>3, <2>4, <2>5, <2>6, <2>7, <2>8 DEF Next
<1>2. []PoolInv /\ [][Next]_vars => [][CacheStep]_vars
  BY <1>1, PTL
<1> QED  BY <1>2, Invariance, PTL DEF Spec, CacheStable
=============================================================================
