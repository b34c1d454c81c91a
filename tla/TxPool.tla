------------------------------- MODULE TxPool -------------------------------
(***************************************************************************)
(* CTxPool: the transactions that wait for a block, and how they follow    *)
(* the chain.  Several threads add blocks through CDispatcher::AddNewBlock:*)
(* the chain moves first (BlockChain), the pool is told later, under its   *)
(* own lock, and the service last; in between transactions arrive.         *)
(* (src/src/minemon/txpool.*, src/src/minemon/dispatcher.cpp,              *)
(* src/src/storage/txpooldata.cpp)                                         *)
(*                                                                         *)
(* Of the chain the pool sees the last block and the unspent outputs of    *)
(* it, which BlockChain shows to move to heavier, sound blocks only.       *)
(***************************************************************************)
EXTENDS Blocks, SequencesExt

CONSTANTS Pusher,        \* the thread in CDispatcher::AddNewTx
          Valid,         \* transactions VerifyTransaction accepts after a block
          TxTime,        \* nTimeStamp of a transaction
          Free,          \* mapSpent: an output the pool knows to be unspent
          SeqStep,       \* distance of fresh sequence numbers, 2^24
          MaxTx, MaxTxLoad,  \* transactions in MAX_BLOCK_TX_SIZE, in MAX_BLOCK_SIZE
          Interval,      \* CACHE_HEIGHT_INTERVAL
          MaxStop        \* bound: halts and crashes

ASSUME PoolConstants ==
  /\ Valid \in [Block -> SUBSET Tx] /\ TxTime \in [Tx -> Nat]
  /\ Free \notin Tx \cup {None} /\ None \notin Tx /\ Pusher \notin Thread \cup {None}
  /\ SeqStep \in Nat \ {0, 1} /\ MaxTx \in Nat /\ MaxTxLoad \in Nat /\ Interval \in Nat \ {0}
  /\ MaxStop \in Nat
  /\ \A b \in Block : Vtx[b] # <<>> /\ Ins[Vtx[b][1]] = {}

VARIABLES
  last,                  \* last block of the chain
  pc, upd,               \* per thread: position, last block before and after its update
  status,                \* CService::mapForkStatus: last block the service knows
  owner,                 \* writer of rwAccess
  tx, told,              \* Push: its transaction, the last block it was told
  pool, lastSeq,         \* keys of mapTx, nLastSequenceNumber
  links, spent,          \* setTxLinkIndex; mapSpent: the spending transaction or Free
  seq, nextSeq,          \* nSequenceNumber, nNextSequenceNumber
  cache,                 \* mapTxCache: per block the transactions to go on top of it
  todo, involved,        \* transactions of the update still to visit; viewInvolvedTx
  fix,                   \* AddNew: vPrevTxid from position i on
  readd,                 \* the transaction that is pooled again, spenders of its outputs
  file,                  \* txpool.dat
  up, nStop,
  hashLastBlock,         \* last block the pool has followed the chain to
  raced                  \* history: a transaction was pushed after one that spends it,
                         \* or an update overtook an earlier one

view == <<links, spent, seq, nextSeq>>
cached == <<cache, hashLastBlock>>
work == <<todo, involved, fix, readd>>
push == <<tx, told>>
life == <<file, up, nStop>>
vars == <<last, pc, upd, status, owner, push, pool, lastSeq, view, cached, work, life, raced>>

-----------------------------------------------------------------------------
(* What an update tells the pool.  GetBlockView goes back from the last    *)
(* block to the block where GetBranch ends, and from there to the new one. *)
Fork[p \in Block \X Block] ==
  IF p[1] = p[2] THEN p[1]
  ELSE Fork[<<IF Time[p[1]] >= Time[p[2]] THEN Parent[p[1]] ELSE p[1],
              IF Time[p[2]] >= Time[p[1]] THEN Parent[p[2]] ELSE p[2]>>]

(* The blocks above p[1] up to p[2], oldest first.                         *)
Upward[p \in Block \X Block] ==
  IF p[1] = p[2] THEN <<>> ELSE Append(Upward[<<p[1], Parent[p[2]]>>], p[2])

Base(u) == Fork[<<u.old, Parent[u.new]>>]
vBlockAddNew(u) == Upward[<<Base(u), u.new>>]
vBlockRemove(u) == Upward[<<Base(u), u.old>>]
setTxUpdate(u) == TxsOf(ToSet(vBlockAddNew(u))) \cap TxsOf(ToSet(vBlockRemove(u)))

(* Transactions in the order SynchronizeBlockChain visits them; the mint   *)
(* transaction of a removed block comes last.                              *)
AddedTxs(u) == FlattenSeq([j \in DOMAIN vBlockAddNew(u) |-> Vtx[vBlockAddNew(u)[j]]])
RemovedTxs(u) ==
  FlattenSeq([j \in DOMAIN vBlockRemove(u) |->
                LET v == Vtx[vBlockRemove(u)[j]] IN Append(Tail(v), Head(v))])

(* Mint and reward transactions have no inputs.                            *)
IsMintTx(x) == Ins[x] = {}

-----------------------------------------------------------------------------
(* CTxPoolView, as functions of its members.                               *)
View == [links |-> links, spent |-> spent, seq |-> seq, nextSeq |-> nextSeq]
SetView(v) == links' = v.links /\ spent' = v.spent /\ seq' = v.seq /\ nextSeq' = v.nextSeq

IsSpent(v, o) == v.spent[o] \in Tx
InView(v, o) == \E x \in v.links : o \in Outs[x]

SetUnspent(v, S) ==
  [v EXCEPT !.spent = [o \in Out |-> IF o \notin S THEN @[o]
                                     ELSE IF InView(v, o) THEN Free ELSE None]]

ViewRemove(v, x) ==
  IF x \in v.links THEN [SetUnspent(v, Ins[x]) EXCEPT !.links = @ \ {x}] ELSE v

(* The transactions that spend o, outputs of those, and so on: the least   *)
(* set closed under spending.                                              *)
Dependents(v, o) ==
  {x \in v.links : \A D \in SUBSET v.links :
     {v.spent[p] : p \in {o} \cup UNION {Outs[d] : d \in D}} \cap v.links \subseteq D => x \in D}

(* InvalidateSpent: the dependents leave the view with their outputs; what *)
(* they spent is unspent again where the view has it, else forgotten.      *)
InvalidateSpent(v, o) ==
  LET D == Dependents(v, o)
      w == SetUnspent([v EXCEPT !.links = @ \ D], {o} \cup UNION {Ins[x] : x \in D})
      gone == UNION {Outs[x] : x \in D} \cup (IF D = {} THEN {o} ELSE {})
  IN  [w EXCEPT !.spent = [p \in Out |-> IF p \in gone THEN None ELSE @[p]]]

InvalidateAll(v, S) == FoldSet(LAMBDA o, w : InvalidateSpent(w, o), v, S)

(* AddTxIndex: a transaction that others spend goes before the first of    *)
(* them, to the next number below the fresh number that one belongs to, or *)
(* to an idle one.                                                         *)
Taken(v, n) == {y \in v.links : v.seq[y] = n}
Fresh(n) == n % SeqStep = 0

Place(v, x, n) ==
  [ok |-> Taken(v, n) = {},
   v |-> [v EXCEPT !.seq[x] = n, !.links = IF Taken(v, n) = {} THEN @ \cup {x} ELSE @]]

AddTxIndex(v0, x) ==
  LET v == [v0 EXCEPT !.links = @ \ {x}]
      spenders == {v.spent[o] : o \in Outs[x]} \cap Tx
      low == Min({v.seq[y] : y \in spenders})
      root == Taken(v, IF Fresh(low) THEN low ELSE (low \div SeqStep + 1) * SeqStep)
      r == CHOOSE y \in root : TRUE
      n == IF v.nextSeq[r] = 0 THEN v.seq[r] - 1 ELSE v.nextSeq[r]
      idle == {k \in ((low - 1) \div SeqStep) * SeqStep + 1 .. low - 1 : Taken(v, k) = {}}
  IN  IF spenders = {} THEN Place(v, x, v.seq[x])
      ELSE IF ~(spenders \subseteq v.links) THEN [ok |-> FALSE, v |-> v]
      ELSE IF root # {} THEN Place([v EXCEPT !.nextSeq[r] = n - 1], x, n)
      ELSE IF idle # {} THEN Place(v, x, Max(idle))
      ELSE [ok |-> FALSE, v |-> v]

(* CTxPoolView::AddNew up to the loop over vPrevTxid.                      *)
ViewAddNew(v, x) ==
  LET r == AddTxIndex(v, x)
  IN  IF r.ok
        THEN [r EXCEPT !.v.spent = [o \in Out |-> IF o \in Outs[x] THEN Free
                                                  ELSE IF o \in Ins[x] THEN x ELSE @[o]]]
        ELSE r

(* What that loop has to look at: a creator of an input, and the number it *)
(* must stay below.                                                        *)
vPrevTxid(v, x) == SetToSeq({<<y, v.seq[x]>> : y \in {z \in Tx : Outs[z] \cap Ins[x] # {}}})

(* ArrangeBlockTx: in the order of the numbers, without transactions later *)
(* than the block and those that spend one left out, until one is too big. *)

(* Mutant: the highest number first.                                       *)
InOrderReversed(v) == SetToSortSeq(v.links, LAMBDA x, y : v.seq[x] > v.seq[y])

InOrder(v) == SetToSortSeq(v.links, LAMBDA x, y : v.seq[x] < v.seq[y])
ArrangeBlockTx(v, b, max) ==
  LET AddArrangeBlockTx(a, x) ==
        IF a.full THEN a
        ELSE IF TxTime[x] > Time[b] \/ \E y \in a.un : Outs[y] \cap Ins[x] # {}
               THEN [a EXCEPT !.un = @ \cup {x}]
        ELSE IF Len(a.vtx) >= max THEN [a EXCEPT !.full = TRUE]
        ELSE [a EXCEPT !.vtx = Append(@, x)]
  IN  FoldLeft(AddArrangeBlockTx, [vtx |-> <<>>, un |-> {}, full |-> FALSE], InOrder(v)).vtx

(* CTxCache::AddNew.                                                       *)
Height(b) == Cardinality(Chain[b]) - 1

(* Mutant: the lowest height that stays is off by one.                     *)
CacheAddNewDropsLast(c, b, vtx) ==
  LET d == [x \in DOMAIN c \cup {b} |-> IF x = b THEN vtx ELSE c[x]]
      upper == Max({Height(x) : x \in DOMAIN d})
  IN  IF upper > Interval THEN Restrict(d, {x \in DOMAIN d : Height(x) > upper - (Interval - 1)})
      ELSE d

CacheAddNew(c, b, vtx) ==
  LET d == [x \in DOMAIN c \cup {b} |-> IF x = b THEN vtx ELSE c[x]]
      upper == Max({Height(x) : x \in DOMAIN d})
  IN  IF upper > Interval THEN Restrict(d, {x \in DOMAIN d : Height(x) >= upper - (Interval - 1)})
      ELSE d

-----------------------------------------------------------------------------
NoTx == [tx |-> None, spent |-> <<>>]
Empty ==
  [links |-> {}, spent |-> [o \in Out |-> None], seq |-> [x \in Tx |-> 0],
   nextSeq |-> [x \in Tx |-> 0]]

Init ==
  /\ last = Genesis /\ status = Genesis
  /\ pc = [t \in Thread \cup {Pusher} |-> "idle"]
  /\ upd = [t \in Thread |-> [old |-> Genesis, new |-> Genesis]]
  /\ owner = None /\ tx = None /\ told = Genesis
  /\ pool = {} /\ lastSeq = 0
  /\ links = {} /\ spent = Empty.spent /\ seq = Empty.seq /\ nextSeq = Empty.nextSeq
  /\ cache = [b \in {Genesis} |-> <<>>] /\ hashLastBlock = Genesis
  /\ todo = <<>> /\ involved = {} /\ fix = <<>> /\ readd = NoTx
  /\ file = <<>> /\ up = TRUE /\ nStop = 0 /\ raced = FALSE

At(t, p) == up /\ pc[t] = p
Goto(t, p) == pc' = [pc EXCEPT ![t] = p]

-----------------------------------------------------------------------------
(* AddNewBlock of the chain has adopted a heavier chain.                   *)
Commit(t, b) ==
  /\ At(t, "idle") /\ b \in Sound /\ ChainTrust[b] > ChainTrust[last]
  /\ last' = b
  /\ upd' = [upd EXCEPT ![t] = [old |-> last, new |-> b]]
  /\ Goto(t, "sync")
  /\ UNCHANGED <<status, owner, push, pool, lastSeq, view, cached, work, life, raced>>

(* SynchronizeBlockChain takes the lock.                                   *)
SyncStart(t) ==
  /\ At(t, "sync") /\ owner = None
  /\ owner' = t
  /\ todo' = AddedTxs(upd[t]) /\ involved' = {}
  /\ raced' = (raced \/ upd[t].old # hashLastBlock)
  /\ Goto(t, "add")
  /\ UNCHANGED <<last, upd, status, push, pool, lastSeq, view, cached, fix, readd, life>>

(* A transaction of an added block leaves the pool, or takes its inputs    *)
(* from those that wait there.                                             *)
SyncAdd(t) ==
  /\ At(t, "add") /\ todo # <<>>
  /\ LET x == Head(todo)
         v == IF x \in setTxUpdate(upd[t]) THEN View
              ELSE IF x \in links THEN ViewRemove(View, x) ELSE InvalidateAll(View, Ins[x])
         confirmed == {x} \cap (links \ setTxUpdate(upd[t]))
     IN  /\ SetView(v)
         /\ pool' = pool \ confirmed
         /\ involved' = involved \cup (links \ (v.links \cup confirmed))
  /\ todo' = Tail(todo)
  /\ UNCHANGED <<last, pc, upd, status, owner, push, lastSeq, cached, fix, readd, life, raced>>

SyncTurn(t) ==
  /\ At(t, "add") /\ todo = <<>>
  /\ todo' = RemovedTxs(upd[t])
  /\ Goto(t, "remove")
  /\ UNCHANGED <<last, upd, status, owner, push, pool, lastSeq, view, cached, involved, fix, readd,
                 life, raced>>

(* Mutant: an input that neither the pool nor the chain knows is accepted. *)
AcceptsUnknown(x, b) == x \in Valid[b] /\ \A o \in Ins[x] : ~IsSpent(View, o)

(* CTxPool::AddNew: the inputs are unspent in the pool or, where the pool  *)
(* does not know them, in the chain, and the transaction is valid.         *)
Accepts(x, b) ==
  /\ \A o \in Ins[x] : spent[o] = Free \/ (spent[o] = None /\ o \in Utxo[last])
  /\ x \in Valid[b]

(* GetSequenceNumber, and the entry of mapTx if there is none.             *)
NewSeq == (IF pool = {} THEN 0 ELSE lastSeq) + 1
Entered(x) ==
  IF x \in pool THEN View ELSE [View EXCEPT !.seq[x] = NewSeq * SeqStep, !.nextSeq[x] = 0]

(* A transaction of a removed block that was not pooled again: what spends *)
(* it goes too.                                                            *)
Dropped(v, x) == SetView(InvalidateAll(v, Outs[x]))
DroppedInvolved(v, x) == involved' = involved \cup (v.links \ InvalidateAll(v, Outs[x]).links)

(* A mint transaction, or one of both branches, of a removed block; or one *)
(* that AddNew refuses.                                                    *)
SyncDrop(t) ==
  /\ At(t, "remove") /\ todo # <<>> /\ readd = NoTx
  /\ LET x == Head(todo)
     IN  /\ x \in setTxUpdate(upd[t]) \/ IsMintTx(x) \/ ~Accepts(x, upd[t].new)
         /\ IF x \in setTxUpdate(upd[t]) THEN UNCHANGED <<view, involved>>
            ELSE Dropped(View, x) /\ DroppedInvolved(View, x)
  /\ todo' = Tail(todo)
  /\ UNCHANGED <<last, pc, upd, status, owner, push, pool, lastSeq, cached, fix, readd, life, raced>>

(* A transaction of a removed block is pooled again.                       *)
SyncReAdd(t) ==
  /\ At(t, "remove") /\ todo # <<>> /\ readd = NoTx
  /\ LET x == Head(todo)
         r == ViewAddNew(Entered(x), x)
     IN  /\ x \notin setTxUpdate(upd[t]) /\ ~IsMintTx(x) /\ Accepts(x, upd[t].new)
         /\ pool' = pool \cup {x} /\ lastSeq' = NewSeq
         /\ IF r.ok
              THEN /\ SetView(r.v)
                   /\ fix' = vPrevTxid(r.v, x)
                   /\ readd' = [tx |-> x, spent |-> Restrict(spent, Outs[x])]
                   /\ UNCHANGED involved
              ELSE Dropped(r.v, x) /\ DroppedInvolved(r.v, x) /\ UNCHANGED <<fix, readd>>
  /\ todo' = Tail(todo)
  /\ UNCHANGED <<last, pc, upd, status, owner, push, cached, life, raced>>

(* One round of the loop over vPrevTxid, of Push or of the update: a       *)
(* creator whose number is too high gets a new one.                        *)
Reindex(t) ==
  /\ up /\ owner = t /\ fix # <<>>
  /\ LET y == Head(fix)[1]
         r == AddTxIndex(View, y)
     IN  IF y \notin links \/ seq[y] <= Head(fix)[2]
           THEN fix' = Tail(fix) /\ UNCHANGED <<view, involved, readd, pc, owner>>
         ELSE IF r.ok
           THEN /\ SetView(r.v)
                /\ fix' = Tail(fix) \o vPrevTxid(r.v, y)
                /\ UNCHANGED <<involved, readd, pc, owner>>
         ELSE IF t = Pusher
           THEN /\ SetView(r.v)
                /\ fix' = <<>> /\ owner' = None /\ Goto(t, "idle")
                /\ UNCHANGED <<involved, readd>>
         ELSE /\ Dropped(r.v, readd.tx) /\ DroppedInvolved(r.v, readd.tx)
              /\ fix' = <<>> /\ readd' = NoTx
              /\ UNCHANGED <<pc, owner>>
  /\ UNCHANGED <<last, upd, status, push, pool, lastSeq, cached, todo, life, raced>>

(* Mutant: the marks are not set again.                                    *)
SyncRestoreNothing(t) ==
  /\ At(t, "remove") /\ readd # NoTx /\ fix = <<>>
  /\ readd' = NoTx
  /\ UNCHANGED <<last, pc, upd, status, owner, push, pool, lastSeq, view, cached, todo, involved,
                 fix, life, raced>>

(* AddNew took the outputs for unspent: those that transactions in the     *)
(* pool spend are marked again.                                            *)
SyncRestore(t) ==
  /\ At(t, "remove") /\ readd # NoTx /\ fix = <<>>
  /\ spent' = [o \in Out |-> IF o \in Outs[readd.tx] /\ readd.spent[o] \in Tx
                               THEN readd.spent[o] ELSE spent[o]]
  /\ readd' = NoTx
  /\ UNCHANGED <<last, pc, upd, status, owner, push, pool, lastSeq, links, seq, nextSeq, cached,
                 todo, involved, fix, life, raced>>

(* The involved transactions leave mapTx, the transactions to go on top of *)
(* the new last block are cached, and the lock is released.                *)
SyncEnd(t) ==
  /\ At(t, "remove") /\ todo = <<>> /\ readd = NoTx
  /\ pool' = pool \ involved
  /\ cache' = CacheAddNew(cache, upd[t].new, ArrangeBlockTx(View, upd[t].new, MaxTx))
  /\ hashLastBlock' = upd[t].new
  /\ owner' = None /\ involved' = {}
  /\ Goto(t, "notify")
  /\ UNCHANGED <<last, upd, status, push, lastSeq, view, todo, fix, readd, life, raced>>

(* CService::NotifyBlockChainUpdate.                                       *)
Notify(t) ==
  /\ At(t, "notify")
  /\ status' = upd[t].new
  /\ raced' = (raced \/ upd[t].old # status)
  /\ Goto(t, "idle")
  /\ UNCHANGED <<last, upd, owner, push, pool, lastSeq, view, cached, work, life>>

-----------------------------------------------------------------------------
(* Push takes the lock and asks for the last block.                        *)
PushStart(x) ==
  /\ At(Pusher, "idle") /\ owner = None
  /\ x \notin pool /\ ~IsMintTx(x)
  /\ owner' = Pusher /\ tx' = x /\ told' = last
  /\ Goto(Pusher, "push")
  /\ UNCHANGED <<last, upd, status, pool, lastSeq, view, cached, work, life, raced>>

PushRefused ==
  /\ At(Pusher, "push") /\ ~Accepts(tx, told)
  /\ owner' = None
  /\ Goto(Pusher, "idle")
  /\ UNCHANGED <<last, upd, status, push, pool, lastSeq, view, cached, work, life, raced>>

(* If the view refuses the transaction, mapTx keeps it.                    *)
PushAdd ==
  /\ At(Pusher, "push") /\ Accepts(tx, told)
  /\ pool' = pool \cup {tx} /\ lastSeq' = NewSeq
  /\ LET r == ViewAddNew(Entered(tx), tx)
     IN  /\ SetView(r.v)
         /\ IF r.ok THEN Goto(Pusher, "link") /\ fix' = vPrevTxid(r.v, tx) /\ UNCHANGED owner
            ELSE Goto(Pusher, "idle") /\ owner' = None /\ UNCHANGED fix
  /\ raced' = (raced \/ \E o \in Outs[tx] : IsSpent(View, o))
  /\ UNCHANGED <<last, upd, status, push, cached, todo, involved, readd, life>>

(* Mutant: the new transaction is offered for the next block at once.      *)
PushEndArranges ==
  /\ At(Pusher, "link") /\ fix = <<>>
  /\ cache' = [cache EXCEPT ![hashLastBlock] = ArrangeBlockTx(View, hashLastBlock, MaxTx)]
  /\ owner' = None
  /\ Goto(Pusher, "idle")
  /\ UNCHANGED <<last, upd, status, push, pool, lastSeq, view, hashLastBlock, work, life, raced>>

PushEnd ==
  /\ At(Pusher, "link") /\ fix = <<>>
  /\ owner' = None
  /\ Goto(Pusher, "idle")
  /\ UNCHANGED <<last, upd, status, push, pool, lastSeq, view, cached, work, life, raced>>

-----------------------------------------------------------------------------
Stop ==
  /\ up' = FALSE /\ nStop' = nStop + 1
  /\ pc' = [t \in Thread \cup {Pusher} |-> "idle"] /\ owner' = None
  /\ pool' = {} /\ SetView(Empty) /\ lastSeq' = 0 /\ cache' = <<>>
  /\ todo' = <<>> /\ involved' = {} /\ fix' = <<>> /\ readd' = NoTx
  /\ UNCHANGED <<last, upd, status, push, hashLastBlock>>

(* HandleHalt, when the modules that use the pool have stopped.            *)
Halt ==
  /\ up /\ nStop < MaxStop /\ \A t \in Thread \cup {Pusher} : pc[t] = "idle"
  /\ file' = InOrder(View)
  /\ Stop
  /\ UNCHANGED raced

Crash ==
  /\ up /\ nStop < MaxStop
  /\ file' = <<>> /\ raced' = FALSE
  /\ Stop

(* LoadData, which removes the file.  The file is in the order of the      *)
(* numbers, so no creator of an input comes after.                         *)
Loaded(f) ==
  LET Load(v, j) == ViewAddNew([v EXCEPT !.seq[f[j]] = j * SeqStep], f[j]).v
  IN  FoldLeft(Load, Empty, [j \in DOMAIN f |-> j])

Start ==
  /\ ~up
  /\ SetView(Loaded(file))
  /\ cache' = [b \in {last} |-> ArrangeBlockTx(Loaded(file), b, MaxTxLoad)]
  /\ pool' = ToSet(file) /\ lastSeq' = Len(file)
  /\ file' = <<>> /\ up' = TRUE /\ status' = last /\ hashLastBlock' = last
  /\ UNCHANGED <<last, pc, upd, owner, push, work, nStop, raced>>

-----------------------------------------------------------------------------
Sync(t) ==
  \/ SyncStart(t) \/ SyncAdd(t) \/ SyncTurn(t) \/ SyncDrop(t) \/ SyncReAdd(t) \/ SyncRestore(t)
  \/ SyncEnd(t) \/ Notify(t)
Push == PushRefused \/ PushAdd \/ PushEnd

Next ==
  \/ \E t \in Thread : Sync(t) \/ Reindex(t) \/ \E b \in Block : Commit(t, b)
  \/ Push \/ Reindex(Pusher) \/ \E x \in Tx : PushStart(x)
  \/ Halt \/ Crash \/ Start

Spec == Init /\ [][Next]_vars

-----------------------------------------------------------------------------
(* The members of CTxPool, CTxPoolView and CTxCache have their types.      *)
TypeOK ==
  /\ last \in Block /\ status \in Block /\ hashLastBlock \in Block
  /\ pc \in [Thread \cup {Pusher} ->
               {"idle", "sync", "add", "remove", "notify", "push", "link"}]
  /\ upd \in [Thread -> [old : Block, new : Block]]
  /\ owner \in Thread \cup {Pusher, None} /\ tx \in Tx \cup {None} /\ told \in Block
  /\ pool \subseteq Tx /\ links \subseteq Tx /\ involved \subseteq Tx
  /\ spent \in [Out -> Tx \cup {Free, None}]
  /\ lastSeq \in Nat /\ seq \in [Tx -> Nat] /\ nextSeq \in [Tx -> Nat]
  /\ DOMAIN cache \subseteq Block /\ \A b \in DOMAIN cache : cache[b] \in Seq(Tx)
  /\ todo \in Seq(Tx) /\ fix \in Seq(Tx \X Nat) /\ file \in Seq(Tx)
  /\ up \in BOOLEAN /\ nStop \in Nat /\ raced \in BOOLEAN

(* The pool has followed the chain.                                        *)
Quiet == up /\ owner = None /\ \A t \in Thread : pc[t] # "sync"

(* Push, SynchronizeBlockChain, AddTxIndex: between updates mapTx and the  *)
(* index have the same transactions; mapSpent names exactly the inputs of  *)
(* these, so a second spender of an output is refused and none is lost;    *)
(* no two have one number, and a transaction comes after those whose       *)
(* outputs it spends, in whatever order they arrived.                      *)
PoolConsistent ==
  up /\ owner = None /\ ~raced =>
    /\ pool = links
    /\ \A o \in Out, x \in Tx : spent[o] = x <=> x \in links /\ o \in Ins[x]
    /\ \A x, y \in links : /\ x # y => seq[x] # seq[y]
                           /\ Outs[y] \cap Ins[x] # {} => seq[y] < seq[x]

(* SynchronizeBlockChain: when the pool has followed the chain, every      *)
(* waiting transaction can still be mined: what it spends is unspent in    *)
(* the chain or made by a waiting transaction.                             *)
Minable ==
  Quiet /\ ~raced =>
    \A x \in links : Ins[x] \subseteq Utxo[last] \cup UNION {Outs[y] : y \in links}

(* ArrangeBlockTx: when the pool has followed the chain, the transactions  *)
(* cached for the last block are a valid body of a block on top of it.     *)
ValidBody(b, s) ==
  \A j \in DOMAIN s : Ins[s[j]] \subseteq
    (Utxo[b] \cup UNION {Outs[s[i]] : i \in 1..(j - 1)}) \ UNION {Ins[s[i]] : i \in 1..(j - 1)}
CacheValid == Quiet /\ ~raced /\ last \in DOMAIN cache => ValidBody(last, cache[last])

(* GetWork: when the updates are through, the service builds on the last   *)
(* block, and the pool has transactions cached for it, unless the chain    *)
(* has become shorter by the whole CACHE_HEIGHT_INTERVAL.                  *)
WorkServed ==
  up /\ ~raced /\ (\A t \in Thread : pc[t] = "idle") =>
    /\ status = last
    /\ last \in DOMAIN cache \/ \E b \in DOMAIN cache : Height(b) >= Height(last) + Interval

(* SubmitWork: the work handed out for a block is rebuilt from the cache   *)
(* when it comes back, so what is cached for a block does not change.      *)
CacheStep == up /\ up' => \A b \in DOMAIN cache \cap DOMAIN cache' : cache'[b] = cache[b]
CacheStable == [][CacheStep]_vars
=============================================================================
