------------------------------ MODULE WalletTx ------------------------------
(***************************************************************************)
(* CWallet's transactions and coins, and CWalletDB below them: how they    *)
(* follow the chain and the pool, restarts, imported keys and resyncs.     *)
(* (src/src/minemon/wallet.*, src/src/storage/walletdb.*,                  *)
(* src/src/common/wallettx.h, src/src/minemon/dispatcher.cpp)              *)
(*                                                                         *)
(* A dispatcher thread moves the chain and the pool first (TxPool models   *)
(* that in detail) and hands the change to the wallet afterwards.  There   *)
(* is one fork: the dispatcher refuses origin blocks.  A coin is an        *)
(* output; the reference count of a wallet transaction is the number of    *)
(* its coins.                                                              *)
(***************************************************************************)
EXTENDS Blocks, SequencesExt

CONSTANTS Dest,
          sendTo, destIn,    \* destinations of a transaction
          Out0, Out1,        \* its outputs, Out1 the change, or None
          Order,             \* position in the pool; creators come first
          TxidOrder,         \* the order of the hashes
          Mine,              \* destinations of the wallet at the beginning
          Importable,        \* destinations whose key or template may be added
          CanResync, CanCrash, CanOverlap,   \* what may happen
          MaxStop            \* bound: halts and crashes

WalletConstants ==
  /\ sendTo \in [Tx -> Dest] /\ destIn \in [Tx -> Dest \cup {None}]
  /\ \A x \in Tx : Outs[x] = {Out0[x], Out1[x]} \ {None} /\ (destIn[x] = None <=> Ins[x] = {})
  /\ \A x, y \in Tx : Outs[y] \cap Ins[x] # {} => Order[y] < Order[x]
  /\ Mine \subseteq Dest /\ Importable \subseteq Dest /\ MaxStop \in Nat

VARIABLES
  last, pool,            \* the chain's last block, the transactions in the pool
  pc, change,            \* per dispatcher thread: position, CTxSetChange
  mine,                  \* mapKeyStore and mapTemplatePtr
  wallet,                \* mapWalletTx, the coins of mapWalletUnspent, setWalletTxOut
  db, nTxCount, nSequence,   \* CWalletTxDB
  txCache,               \* CWalletTxCache
  syncing, todo,         \* SyncWalletTx holds rwWalletTx: its destinations and what is next; imported ones
  up, file, nStop

disk == <<db, nTxCount, nSequence>>
node == <<last, pool, pc, change>>
vars == <<node, mine, wallet, disk, txCache, syncing, todo, up, file, nStop>>

-----------------------------------------------------------------------------
(* The chain and the pool.                                                 *)
Height(b) == Cardinality(Chain[b]) - 1
OnChain == TxsOf(Chain[last])
HeightOf(x) ==
  IF x \in OnChain THEN Height(CHOOSE b \in Chain[last] : x \in Txs[b]) ELSE -1

Upward(S) == SetToSortSeq(S, LAMBDA a, b : Height(a) < Height(b))
AddedTxs(b) ==
  FlattenSeq([j \in 1..Cardinality(Chain[b] \ Chain[last]) |->
    LET c == Upward(Chain[b] \ Chain[last])[j]
    IN  [i \in DOMAIN Vtx[c] |-> <<Vtx[c][i], Height(c)>>]])
RemovedTxs(b) ==
  FlattenSeq([j \in 1..Cardinality(Chain[last] \ Chain[b]) |->
    LET v == Vtx[Upward(Chain[last] \ Chain[b])[j]] IN Append(Tail(v), Head(v))])
setTxUpdate(b) == TxsOf(Chain[b] \ Chain[last]) \cap TxsOf(Chain[last] \ Chain[b])

(* InvalidateSpent: the transactions in P that spend outputs in S, or each *)
(* other's.                                                                *)
Spenders(P, S) ==
  {x \in P : \A D \in SUBSET P :
     {y \in P : Ins[y] \cap (S \cup UNION {Outs[d] : d \in D}) # {}} \subseteq D => x \in D}

Accepts(P, b, x) ==
  Ins[x] \subseteq (Utxo[b] \cup UNION {Outs[y] : y \in P}) \ UNION {Ins[y] : y \in P}

(* SynchronizeBlockChain: what the pool keeps and what it tells the        *)
(* wallet.  What involved names is removed, children first; then, last to  *)
(* first, what was in the removed blocks and is not pooled again.          *)
Synchronize(b) ==
  LET Add(c, p) ==
        IF p[1] \in setTxUpdate(b) THEN [c EXCEPT !.upd = @ @@ (p[1] :> p[2])]
        ELSE IF p[1] \in c.pool
               THEN [c EXCEPT !.pool = @ \ {p[1]}, !.upd = @ @@ (p[1] :> p[2])]
        ELSE LET D == Spenders(c.pool, Ins[p[1]])
             IN  [c EXCEPT !.pool = @ \ D, !.involved = @ \cup D, !.add = Append(@, p)]
      Return(c, x) ==
        IF x \in setTxUpdate(b) THEN c
        ELSE IF Ins[x] # {} /\ Accepts(c.pool, b, x)
               THEN [c EXCEPT !.pool = @ \cup {x}, !.upd = @ @@ (x :> -1)]
        ELSE LET D == Spenders(c.pool, Outs[x])
             IN  [c EXCEPT !.pool = @ \ D, !.involved = @ \cup D, !.rm = <<x>> \o @]
  IN  FoldLeft(Return,
               FoldLeft(Add, [pool |-> pool, upd |-> <<>>, add |-> <<>>, rm |-> <<>>, involved |-> {}],
                        AddedTxs(b)),
               RemovedTxs(b))

ChildrenFirst(S) == SetToSortSeq(S, LAMBDA x, y : Order[x] > Order[y])

-----------------------------------------------------------------------------
(* CWallet's maps.                                                         *)
NoWallet == [tx |-> <<>>, coins |-> {}, outs |-> {}]
IsMine(d) == d \in mine
Relevant(x) == IsMine(sendTo[x]) \/ IsMine(destIn[x])
Record(x, h) == [h |-> h, mine |-> IsMine(sendTo[x]), from |-> IsMine(destIn[x])]
RefCount(w, x) == Cardinality(w.coins \cap Outs[x])
Erase(w, S) == [w EXCEPT !.tx = Restrict(@, DOMAIN @ \ S)]
EraseUnused(w, S) == Erase(w, {x \in S : RefCount(w, x) = 0})
Creator(o) == CHOOSE x \in Tx : o \in Outs[x]

(* CWalletDB::RetrieveTx, LoadWalletTx.                                    *)
Cached == {txCache[j].txid : j \in DOMAIN txCache}
Stored == Cached \cup DOMAIN db
Retrieve(x) ==
  IF x \in Cached THEN txCache[CHOOSE j \in DOMAIN txCache : txCache[j].txid = x].wtx
  ELSE db[x].wtx
LoadWalletTx(w, x) ==
  IF x \notin DOMAIN w.tx /\ x \in Stored THEN [w EXCEPT !.tx = @ @@ (x :> Retrieve(x))] ELSE w

InsertWalletTx(w, x, h) == [w EXCEPT !.tx = (x :> Record(x, h)) @@ @]

(* AddNewWalletTx: an output is taken once only; the coins that are spent  *)
(* go if the wallet has their transaction in memory.  AddWalletTxOut takes *)
(* the outpoint of the change even if the change is zero: here the         *)
(* transaction stands for it.                                              *)
AddNewWalletTx(w, x) ==
  LET new == w.tx[x].from /\ x \notin w.outs
      used == {o \in Ins[x] : Creator(o) \in DOMAIN w.tx}
      w1 == IF ~new THEN w
            ELSE LET v == [w EXCEPT !.coins = @ \ used]
                 IN  [EraseUnused(v, {Creator(o) : o \in used}) EXCEPT
                        !.coins = @ \cup ({Out1[x]} \ {None}), !.outs = @ \cup {x}]
  IN  IF w.tx[x].mine /\ Out0[x] \notin w1.outs
        THEN [w1 EXCEPT !.coins = @ \cup {Out0[x]}, !.outs = @ \cup {Out0[x]}]
        ELSE w1

(* Mutant: what the removed transaction spent is not given back.           *)
RemoveWalletTxOnly(w, x) ==
  [w EXCEPT !.coins = @ \ Outs[x], !.outs = @ \ {x, Out0[x]}]

(* RemoveWalletTx: what it spent is a coin again, its own coins go.        *)
RemoveWalletTx(w, x) ==
  LET back == IF w.tx[x].from THEN {o \in Ins[x] : Creator(o) \in DOMAIN w.tx \cup Stored} ELSE {}
      v == FoldSet(LAMBDA o, u : LoadWalletTx(u, Creator(o)), w, back)
  IN  [v EXCEPT !.coins = (@ \cup back) \ ({o \in {Out1[x]} : w.tx[x].from} \cup
                                           {o \in {Out0[x]} : w.tx[x].mine}),
                !.outs = @ \ ({y \in {x} : w.tx[x].from} \cup {o \in {Out0[x]} : w.tx[x].mine})]

-----------------------------------------------------------------------------
(* CWalletTxDB::UpdateTx, one batch: known transactions keep their number, *)
(* new ones get the next; then the removed ones go.  W maps transactions   *)
(* to records, in the order s.                                             *)
Updated(s, W, R) ==
  LET new == SelectSeq(s, LAMBDA x : x \notin DOMAIN db)
      number(x) == IF x \in DOMAIN db THEN db[x].seq
                   ELSE nSequence + (CHOOSE j \in DOMAIN new : new[j] = x) - 1
      d == [x \in ToSet(s) |-> [seq |-> number(x), wtx |-> W[x]]] @@ db
  IN  [db |-> Restrict(d, DOMAIN d \ R), n |-> Len(new), gone |-> R \cap DOMAIN db,
       seq |-> nSequence + Len(new)]
CacheWithout(S) == SelectSeq(txCache, LAMBDA e : e.txid \notin S)

UpdateTx(s, W, R) ==
  \E u \in {Updated(s, W, R)} :
    /\ db' = u.db /\ nTxCount' = nTxCount + u.n - Cardinality(u.gone) /\ nSequence' = u.seq
    /\ txCache' = CacheWithout(ToSet(s) \cup R)

(* LoadTxUnspent of every record, then LoadTxSpent of every record.        *)
Load(d) ==
  LET all == DOMAIN d
      from == {x \in all : d[x].wtx.from}
      ismine == {x \in all : d[x].wtx.mine}
      spent == {o \in UNION {Ins[x] : x \in from} : Creator(o) \in all}
      w == [tx |-> [x \in all |-> d[x].wtx], outs |-> from \cup {Out0[x] : x \in ismine},
            coins |-> (({Out1[x] : x \in from} \cup {Out0[x] : x \in ismine}) \ {None}) \ spent]
  IN  EraseUnused(w, {Creator(o) : o \in spent})

-----------------------------------------------------------------------------
NoChange == [rm |-> <<>>, upd |-> <<>>, add |-> <<>>]
Start0 == [x \in {y \in Txs[Genesis] : sendTo[y] \in Mine} |->
             [h |-> 0, mine |-> TRUE, from |-> FALSE]]

(* The wallet has seen the genesis block.                                  *)
Init ==
  /\ last = Genesis /\ pool = {}
  /\ pc = [t \in Thread |-> "idle"] /\ change = [t \in Thread |-> NoChange]
  /\ mine = Mine
  /\ wallet = [tx |-> Start0, coins |-> {Out0[x] : x \in DOMAIN Start0},
               outs |-> {Out0[x] : x \in DOMAIN Start0}]
  /\ db = [x \in DOMAIN Start0 |->
             [seq |-> Cardinality({y \in DOMAIN Start0 : Order[y] < Order[x]}), wtx |-> Start0[x]]]
  /\ nTxCount = Cardinality(DOMAIN Start0) /\ nSequence = Cardinality(DOMAIN Start0)
  /\ txCache = <<>> /\ syncing = <<>> /\ todo = {}
  /\ up = TRUE /\ file = {} /\ nStop = 0

Busy == \E t \in Thread : pc[t] # "idle"
Goto(t, p) == pc' = [pc EXCEPT ![t] = p]

(* CDispatcher::AddNewBlock up to the wallet.                              *)
Commit(t, b) ==
  /\ up /\ pc[t] = "idle" /\ b \in Sound /\ ChainTrust[b] > ChainTrust[last]
  /\ CanOverlap \/ (syncing = <<>> /\ todo = {})
  /\ \E c \in {Synchronize(b)} :
       /\ pool' = c.pool
       /\ change' = [change EXCEPT ![t] =
            [rm |-> ChildrenFirst(c.involved) \o c.rm, upd |-> c.upd, add |-> c.add]]
  /\ last' = b
  /\ Goto(t, "block")
  /\ UNCHANGED <<mine, wallet, disk, txCache, syncing, todo, up, file, nStop>>

(* CDispatcher::AddNewTx up to the wallet.                                 *)
Push(t, x) ==
  /\ up /\ pc[t] = "idle" /\ x \notin pool /\ Ins[x] # {} /\ Accepts(pool, last, x)
  /\ CanOverlap \/ (syncing = <<>> /\ todo = {})
  /\ pool' = pool \cup {x}
  /\ change' = [change EXCEPT ![t] = [NoChange EXCEPT !.add = << <<x, -1>> >>]]
  /\ Goto(t, "tx")
  /\ UNCHANGED <<last, mine, wallet, disk, txCache, syncing, todo, up, file, nStop>>

-----------------------------------------------------------------------------
(* SynchronizeTxSet: removed, then updated, then new transactions; then    *)
(* those without coins leave the memory, and one batch goes to the         *)
(* database.                                                               *)
SynchronizeTxSet(t) ==
  /\ up /\ pc[t] = "block" /\ syncing = <<>>
  /\ LET c == change[t]
         Rm(a, x) ==
           LET w == LoadWalletTx(a.w, x)
           IN  IF x \notin DOMAIN w.tx THEN a
               ELSE [a EXCEPT !.w = Erase(RemoveWalletTx(w, x), {x}), !.gone = @ \cup {x}]
         Upd(a, x) ==
           LET w == LoadWalletTx(a.w, x)
           IN  IF x \notin DOMAIN w.tx THEN a
               ELSE [a EXCEPT !.w = [w EXCEPT !.tx[x].h = c.upd[x]], !.s = Append(@, x),
                              !.wtx = (x :> [w.tx[x] EXCEPT !.h = c.upd[x]]) @@ @]
         Add(a, p) ==
           IF ~Relevant(p[1]) THEN a
           ELSE LET w == InsertWalletTx(a.w, p[1], p[2])
                IN  [a EXCEPT !.w = AddNewWalletTx(w, p[1]), !.s = Append(@, p[1]),
                              !.wtx = (p[1] :> Record(p[1], p[2])) @@ @]
         a1 == FoldLeft(Rm, [w |-> wallet, gone |-> {}, s |-> <<>>, wtx |-> <<>>], c.rm)
         a2 == FoldLeft(Upd, a1, SetToSortSeq(DOMAIN c.upd, LAMBDA x, y : TxidOrder[x] < TxidOrder[y]))
         a3 == FoldLeft(Add, a2, c.add)
     IN  \E a \in {a3} :
           /\ wallet' = EraseUnused(a.w, ToSet(a.s))
           /\ UpdateTx(a.s, a.wtx, a.gone)
  /\ change' = [change EXCEPT ![t] = NoChange]
  /\ Goto(t, "idle")
  /\ UNCHANGED <<last, pool, mine, syncing, todo, up, file, nStop>>

(* CWallet::AddNewTx: a transaction of the pool goes to the cache only.    *)
AddNewTx(t) ==
  /\ up /\ pc[t] = "tx" /\ syncing = <<>>
  /\ LET x == change[t].add[1][1]
     IN  IF ~Relevant(x) THEN UNCHANGED <<wallet, txCache>>
         ELSE \E w \in {AddNewWalletTx(InsertWalletTx(wallet, x, -1), x)} :
                /\ wallet' = EraseUnused(w, {x})
                /\ txCache' = IF x \in Cached THEN txCache
                              ELSE Append(txCache, [txid |-> x, wtx |-> Record(x, -1)])
  /\ change' = [change EXCEPT ![t] = NoChange]
  /\ Goto(t, "idle")
  /\ UNCHANGED <<last, pool, mine, disk, syncing, todo, up, file, nStop>>

-----------------------------------------------------------------------------
(* AddKey, AddTemplate: from here on the destination is the wallet's.      *)
Import(d) ==
  /\ up /\ d \in Importable \ mine
  /\ CanOverlap \/ ~Busy
  /\ mine' = mine \cup {d} /\ todo' = todo \cup {d}
  /\ UNCHANGED <<node, wallet, disk, txCache, syncing, up, file, nStop>>

(* CWallet::UpdateTx of what FilterTx finds, one after the other.          *)
Found(s) ==
  LET f == SelectSeq(s, LAMBDA p : Relevant(p[1]))
      Step(w, p) == EraseUnused(AddNewWalletTx(InsertWalletTx(w, p[1], p[2]), p[1]), {p[1]})
      txs == [j \in DOMAIN f |-> f[j][1]]
  IN  /\ \E w \in {FoldLeft(Step, wallet, f)} : wallet' = w
      /\ UpdateTx(txs, [x \in ToSet(txs) |->
                         Record(x, f[CHOOSE j \in DOMAIN f : f[j][1] = x][2])], {})

Touches(x, D) == sendTo[x] \in D \/ destIn[x] \in D

(* SynchronizeWalletTx takes the lock.                                     *)
SynchronizeWalletTx(d) ==
  /\ up /\ d \in todo /\ syncing = <<>> /\ (CanOverlap \/ ~Busy)
  /\ syncing' = <<{d}, "chain">>
  /\ UNCHANGED <<node, mine, wallet, disk, txCache, todo, up, file, nStop>>

(* ResynchronizeWalletTx takes the lock; ClearTx.  setWalletTxOut is not   *)
(* cleared.                                                                *)
ResynchronizeWalletTx ==
  /\ up /\ CanResync /\ syncing = <<>> /\ (CanOverlap \/ ~Busy)
  /\ wallet' = [NoWallet EXCEPT !.outs = wallet.outs]
  /\ db' = <<>> /\ nTxCount' = 0 /\ nSequence' = 0 /\ txCache' = <<>>
  /\ syncing' = <<mine, "chain">>
  /\ UNCHANGED <<node, mine, todo, up, file, nStop>>

(* SyncWalletTx: the blocks in their order.                                *)
FilterChain ==
  /\ up /\ syncing # <<>> /\ syncing[2] = "chain"
  /\ LET blocks == Upward(Chain[last])
         all == FlattenSeq([j \in DOMAIN blocks |->
                  [i \in DOMAIN Vtx[blocks[j]] |-> <<Vtx[blocks[j]][i], Height(blocks[j])>>]])
     IN  Found(SelectSeq(all, LAMBDA p : Touches(p[1], syncing[1])))
  /\ syncing' = <<syncing[1], "pool">>
  /\ UNCHANGED <<node, mine, todo, up, file, nStop>>

(* The pool, in the order of the hashes.                                   *)
FilterPool ==
  /\ up /\ syncing # <<>> /\ syncing[2] = "pool"
  /\ LET s == SetToSortSeq({x \in pool : Touches(x, syncing[1])},
                           LAMBDA x, y : TxidOrder[x] < TxidOrder[y])
     IN  Found([j \in DOMAIN s |-> <<s[j], -1>>])
  /\ todo' = todo \ syncing[1] /\ syncing' = <<>>
  /\ UNCHANGED <<node, mine, up, file, nStop>>

-----------------------------------------------------------------------------

(* HandleHalt, when no other module is running: CWalletDB::Deinitialize    *)
(* writes the cache; the pool writes its file.                             *)
Halt ==
  /\ up /\ nStop < MaxStop /\ ~Busy /\ syncing = <<>> /\ todo = {}
  /\ UpdateTx([j \in DOMAIN txCache |-> txCache[j].txid], [x \in Cached |-> Retrieve(x)], {})
  /\ file' = pool /\ pool' = {} /\ wallet' = NoWallet
  /\ up' = FALSE /\ nStop' = nStop + 1
  /\ UNCHANGED <<last, pc, change, mine, syncing, todo>>

Crash ==
  /\ CanCrash /\ up /\ nStop < MaxStop
  /\ txCache' = <<>> /\ file' = {} /\ pool' = {} /\ wallet' = NoWallet
  /\ pc' = [t \in Thread |-> "idle"] /\ change' = [t \in Thread |-> NoChange]
  /\ syncing' = <<>> /\ todo' = {}
  /\ up' = FALSE /\ nStop' = nStop + 1
  /\ UNCHANGED <<last, mine, disk>>

(* LoadDB; the pool reads its file and removes it.                         *)
Start ==
  /\ ~up
  /\ wallet' = Load(db)
  /\ pool' = file /\ file' = {} /\ up' = TRUE
  /\ UNCHANGED <<last, pc, change, mine, disk, txCache, syncing, todo, nStop>>

Next ==
  \/ \E t \in Thread : \/ \E b \in Block : Commit(t, b)
                       \/ \E x \in Tx : Push(t, x)
                       \/ SynchronizeTxSet(t) \/ AddNewTx(t)
  \/ \E d \in Dest : Import(d) \/ SynchronizeWalletTx(d)
  \/ FilterChain \/ FilterPool \/ ResynchronizeWalletTx \/ Halt \/ Crash \/ Start

Spec == Init /\ [][Next]_vars

-----------------------------------------------------------------------------
(* The members of CWallet and CWalletDB have their types.                  *)
TypeOK ==
  /\ last \in Block /\ pool \subseteq Tx /\ mine \subseteq Dest /\ todo \subseteq Dest
  /\ pc \in [Thread -> {"idle", "block", "tx"}]
  /\ DOMAIN wallet.tx \subseteq Tx /\ wallet.coins \subseteq Out /\ wallet.outs \subseteq Out \cup Tx
  /\ DOMAIN db \subseteq Tx /\ \A j \in DOMAIN txCache : txCache[j].txid \in Tx
  /\ nTxCount \in Nat /\ nSequence \in Nat /\ up \in BOOLEAN /\ nStop \in 0..MaxStop

Quiet == up /\ ~Busy /\ syncing = <<>> /\ todo = {}

(* SynchronizeTxSet, AddNewTx, SyncWalletTx, LoadDB: when nothing is under *)
(* way, the wallet's coins are the outputs to its destinations that the    *)
(* chain and the pool have and do not spend: none is offered twice or      *)
(* after it was spent, none is lost over reorganisations and restarts.     *)
Live == OnChain \cup pool
CoinsExact ==
  Quiet =>
    wallet.coins = ({Out0[x] : x \in {y \in Live : IsMine(sendTo[y])}} \cup
                    {Out1[x] : x \in {y \in Live : IsMine(destIn[y])}})
                   \ (UNION {Ins[x] : x \in Live} \cup {None})

(* A coin refers to its transaction by address, and AddNewWalletTx and     *)
(* RemoveWalletTx find the transaction in mapWalletTx: as long as a        *)
(* transaction has a coin it must stay there, or its coins could neither   *)
(* be spent nor removed any more.                                          *)
CoinsCached == up => \A o \in wallet.coins : Creator(o) \in DOMAIN wallet.tx

(* ListTx: when nothing is under way, database and cache list every        *)
(* transaction of the wallet that the chain or the pool has, and no other, *)
(* once, with the height of its block, or -1.                              *)
RecordsExact ==
  Quiet =>
    /\ Stored = {x \in Live : Relevant(x)}
    /\ Cached \cap DOMAIN db = {}
    /\ \A x \in Stored : Retrieve(x) = Record(x, HeightOf(x))
    /\ \A x \in DOMAIN wallet.tx : wallet.tx[x] = Retrieve(x)

(* CWalletTxDB counts its transactions on the side, and numbers them in    *)
(* the order they came: ListTx relies on both.                             *)
CountExact ==
  /\ nTxCount = Cardinality(DOMAIN db)
  /\ \A x, y \in DOMAIN db : x # y => db[x].seq # db[y].seq
  /\ \A x \in DOMAIN db : db[x].seq < nSequence
=============================================================================
