------------------------------- MODULE Blocks -------------------------------
(***************************************************************************)
(* The blocks of one fork and what they contain.  A block is its hash, so  *)
(* all of this is constant: CBlock, CTransaction, and the members of       *)
(* CBlockIndex that are computed from them (src/src/common/block.h,        *)
(* src/src/common/transaction.h, src/src/minemon/core.cpp).                *)
(***************************************************************************)
EXTENDS Integers, Sequences

CONSTANTS Block, Genesis,
          Parent,        \* hashPrev
          Chain,         \* a block and its ancestors
          Time,          \* nTimeStamp
          ChainTrust,    \* the sum of the trust of a block and its ancestors
          Tx, Out,
          Vtx,           \* the mint transaction of a block, then its vtx
          Ins, Outs,     \* outputs a transaction spends and creates
          Thread,        \* threads that add blocks
          None

ASSUME BlockTree ==
  /\ Genesis \in Block /\ None \notin Block \cup Thread
  /\ Parent \in [Block \ {Genesis} -> Block] /\ Chain \in [Block -> SUBSET Block]
  /\ Chain[Genesis] = {Genesis}
  /\ \A b \in Block \ {Genesis} :
       b \notin Chain[Parent[b]] /\ Chain[b] = Chain[Parent[b]] \cup {b}
  /\ \A b \in Block : \A x \in Chain[b] : Chain[x] \subseteq Chain[b]

(* VerifyProofOfWork refuses a block that is older than its parent, not    *)
(* one of the same time; the genesis block is older than all others.       *)
ASSUME BlockTimes ==
  /\ Time \in [Block -> Nat]
  /\ \A b \in Block \ {Genesis} : Time[Parent[b]] <= Time[b] /\ Time[Genesis] < Time[b]

(* GetBlockTrust is at least 1.                                            *)
ASSUME BlockTrust ==
  /\ ChainTrust \in [Block -> Nat]
  /\ \A b \in Block \ {Genesis} : ChainTrust[Parent[b]] < ChainTrust[b]

Txs == [b \in Block |-> {Vtx[b][j] : j \in DOMAIN Vtx[b]}]

(* Transactions without inputs, the mint and reward transactions, carry    *)
(* the height or time of their block and do not repeat in a chain.         *)
ASSUME BlockContent ==
  /\ Vtx \in [Block -> Seq(Tx)] /\ Ins \in [Tx -> SUBSET Out] /\ Outs \in [Tx -> SUBSET Out]
  /\ \A t, u \in Tx : t # u => Outs[t] \cap Outs[u] = {}
  /\ \A b \in Block \ {Genesis} : \A t \in Txs[b] :
       Ins[t] = {} => \A x \in Chain[Parent[b]] : t \notin Txs[x]
  /\ \A t \in Txs[Genesis] : Ins[t] = {}

TxsOf(S) == UNION {Txs[b] : b \in S}
Created == [b \in Block |-> UNION {Outs[t] : t \in Txs[b]}]
Spent == [b \in Block |-> UNION {Ins[t] : t \in Txs[b]}]
ChainCreated == [b \in Block |-> UNION {Created[x] : x \in Chain[b]}]
ChainSpent == [b \in Block |-> UNION {Spent[x] : x \in Chain[b]}]

(* The unspent outputs of the chain that ends in b, by definition.         *)
Utxo == [b \in Block |-> ChainCreated[b] \ ChainSpent[b]]

(* Blocks in whose chain every output is spent after it is created, by one *)
(* transaction, and every transaction is in one block.                     *)
Sound ==
  {b \in Block :
     /\ \A x \in Chain[b] : ChainSpent[x] \subseteq ChainCreated[x]
     /\ \A x, y \in Chain[b] : x # y => Txs[x] \cap Txs[y] = {}
     /\ \A t, u \in TxsOf(Chain[b]) : t # u => Ins[t] \cap Ins[u] = {}}
=============================================================================
