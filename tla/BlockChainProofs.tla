-------------------------- MODULE BlockChainProofs --------------------------
(* Proofs that BlockChain keeps the properties its runs check, for every   *)
(* block tree, every transactions and any number of threads and crashes.   *)
EXTENDS BlockChainViewProofs

-----------------------------------------------------------------------------
(* The steps of AddNewBlock that choose the chain and commit it.           *)
USE DEF files, forkVars, branchVars, viewVars, linkVars, faultVars

LEMMA ShortChainInv ==
  ASSUME Inv, NEW t \in Thread, ShortChain(t)
  PROVE  Inv'
<1> USE DEF Inv
<1>0. /\ owner = t /\ mode = "up" /\ blk[t] # Genesis
      /\ blk[t] \in Block /\ Parent[blk[t]] \in index
      /\ \A u \in Thread : u # t => pc[u] \in {"idle", "ready"}
  BY Zenon, Alone DEF ShortChain, At
<1>1. TypeOK'
  BY NoneFact DEF TypeOK, Pcs, ShortChain, Release, DropView, NoMarks, NoOpts, At, Goto
<1>2. FilesInv'
  BY Zenon, FilesKept DEF ShortChain, Release, DropView, NoMarks, NoOpts, At, Goto
<1>3. LockInv'
  BY Zenon, <1>0, NoneFact DEF TypeOK, LockInv, ShortChain, Release, DropView, NoMarks, NoOpts, At, Goto
<1>4. UpInv'
  BY Zenon, UpKept DEF ShortChain, Release, DropView, NoMarks, NoOpts, At, Goto, Pcs
<1>5. ViewInv' /\ BranchInv'
  <2>1. \A u \in Thread : pc'[u] \in {"idle", "ready"}
    BY Zenon, <1>0 DEF TypeOK, ShortChain, Release, DropView, NoMarks, NoOpts, At, Goto
  <2> QED  BY Zenon, <2>1, Outside
<1>6. TrustInv'
  BY Zenon, <1>0, BlockTrust DEF TypeOK, TrustInv, AdoptPcs, ShortChain, Release, DropView, NoMarks, NoOpts, At, Goto
<1>7. RepairInv'
  BY Zenon, RepairDone DEF ShortChain, Release, DropView, NoMarks, NoOpts, At, Goto
<1> QED  BY Zenon, <1>1, <1>2, <1>3, <1>4, <1>5, <1>6, <1>7

LEMMA LongChainInv ==
  ASSUME Inv, NEW t \in Thread, LongChain(t)
  PROVE  Inv'
<1> USE DEF Inv
<1>0. /\ owner = t /\ mode = "up" /\ blk[t] # Genesis
      /\ blk[t] \in Block /\ Parent[blk[t]] \in index
      /\ \A u \in Thread : u # t => pc[u] \in {"idle", "ready"}
  BY Zenon, Alone DEF LongChain, At
<1>1. TypeOK'
  BY <1>0 DEF TypeOK, Pcs, LongChain, At, Goto
<1>2. FilesInv'
  BY Zenon, FilesKept DEF LongChain, At, Goto
<1>3. LockInv'
  BY Zenon DEF TypeOK, LockInv, LongChain, At, Goto
<1>4. UpInv'
  BY Zenon, UpKept DEF LongChain, At, Goto, Pcs
<1>5. ViewInv' /\ BranchInv'
  <2>1. ViewOf(t)'
    BY Zenon, ViewKept DEF ViewInv, ViewPcs, LongChain, At, Goto
  <2>2. BranchOf(t)'
    <3>1. Leads(<<>>, blk[t], blk[t])
      BY DEF Leads
    <3>2. cur = blk[t] /\ blk[t] \in index
      BY Zenon DEF BranchInv, BranchOf, AddedPcs, AdoptPcs, LongChain, At, Goto
    <3> QED  BY <1>0, <3>1, <3>2, ChainFacts DEF BranchOf, AddedPcs, AdoptPcs, TypeOK, LongChain, At, Goto
  <2>3. \A u \in Thread : u # t => pc'[u] \in {"idle", "ready"}
    BY Zenon, <1>0 DEF TypeOK, LongChain, At, Goto
  <2> QED  BY Zenon, <2>1, <2>2, <2>3, Inside
<1>6. TrustInv'
  BY Zenon, TrustKept DEF LongChain, At, Goto, Pcs, AdoptPcs
<1>7. RepairInv'
  BY Zenon, RepairDone DEF LongChain, At, Goto
<1> QED  BY Zenon, <1>1, <1>2, <1>3, <1>4, <1>5, <1>6, <1>7

LEMMA TxBranchInv ==
  ASSUME Inv, NEW t \in Thread, TxBranch(t)
  PROVE  Inv'
<1> USE DEF Inv
<1>0. /\ owner = t /\ mode = "up" /\ blk[t] # Genesis
      /\ blk[t] \in Block /\ Parent[blk[t]] \in index
      /\ \A u \in Thread : u # t => pc[u] \in {"idle", "ready"}
  BY Zenon, Alone DEF TxBranch, At
<1>a. Leads(path, blk[t], idx) /\ ref \in Chain[last]
  BY Zenon DEF BranchInv, BranchOf, TxBranch, At, Goto
<1>b. /\ ref' \in Chain[last] /\ ref' \in Block /\ idx' \in Block /\ path' \in Seq(Block)
      /\ Leads(path', blk[t], idx')
  BY Zenon, <1>0, <1>a, GetBranchStep DEF TypeOK, TxBranch, At, Goto
<1>1. TypeOK'
  BY Zenon, <1>b DEF TypeOK, TxBranch, At, Goto
<1>2. FilesInv'
  BY Zenon, FilesKept DEF TxBranch, At, Goto
<1>3. LockInv'
  BY Zenon DEF TypeOK, LockInv, TxBranch, At, Goto
<1>4. UpInv'
  BY Zenon, <1>0 DEF TypeOK, UpInv, TxExact, TxIndexed, TxBranch, At, Goto
<1>5. ViewInv' /\ BranchInv'
  <2>1. ViewOf(t)'
    BY Zenon, ViewKept DEF ViewInv, ViewPcs, TxBranch, At, Goto
  <2>2. BranchOf(t)'
    BY Zenon, <1>b DEF BranchInv, BranchOf, AddedPcs, AdoptPcs, TxBranch, At, Goto
  <2>3. \A u \in Thread : u # t => pc'[u] \in {"idle", "ready"}
    BY Zenon, <1>0 DEF TypeOK, TxBranch, At, Goto
  <2> QED  BY Zenon, <2>1, <2>2, <2>3, Inside
<1>6. TrustInv'
  BY Zenon, <1>0 DEF TypeOK, TrustInv, TxBranch, At, Goto
<1>7. RepairInv'
  BY Zenon, RepairDone DEF TxBranch, At, Goto
<1> QED  BY Zenon, <1>1, <1>2, <1>3, <1>4, <1>5, <1>6, <1>7

LEMMA UpgradeToWriteInv ==
  ASSUME Inv, NEW t \in Thread, UpgradeToWrite(t)
  PROVE  Inv'
<1> USE DEF Inv
<1>0. /\ owner = t /\ mode = "up" /\ blk[t] # Genesis
      /\ blk[t] \in Block /\ Parent[blk[t]] \in index
      /\ \A u \in Thread : u # t => pc[u] \in {"idle", "ready"}
  BY Zenon, Alone DEF UpgradeToWrite, At
<1>1. TypeOK'
  BY Zenon, BlockTree DEF TypeOK, Pcs, Modes, UpgradeToWrite, At, Goto
<1>2. FilesInv'
  BY Zenon, FilesKept DEF UpgradeToWrite, At, Goto
<1>3. LockInv'
  BY Zenon DEF TypeOK, LockInv, UpgradeToWrite, At, Goto
<1>4. UpInv'
  BY Zenon, UpKept DEF UpgradeToWrite, At, Goto, Pcs
<1>5. ViewInv' /\ BranchInv'
  <2>1. ViewOf(t)'
    BY Zenon, ViewKept DEF ViewInv, ViewPcs, UpgradeToWrite, At, Goto
  <2>2. BranchOf(t)'
    BY Zenon DEF TypeOK, BranchInv, BranchOf, AddedPcs, AdoptPcs, StoredBlocks, UpgradeToWrite, At, Goto
  <2>3. \A u \in Thread : u # t => pc'[u] \in {"idle", "ready"}
    BY Zenon, <1>0 DEF TypeOK, UpgradeToWrite, At, Goto
  <2> QED  BY Zenon, <2>1, <2>2, <2>3, Inside
<1>6. TrustInv'
  BY Zenon, TrustKept DEF UpgradeToWrite, At, Goto, Pcs, AdoptPcs
<1>7. RepairInv'
  BY Zenon, RepairDone DEF UpgradeToWrite, At, Goto
<1> QED  BY Zenon, <1>1, <1>2, <1>3, <1>4, <1>5, <1>6, <1>7

LEMMA CommitForkInv ==
  ASSUME Inv, NEW t \in Thread, CommitFork(t)
  PROVE  Inv'
<1> USE DEF Inv
<1>0. /\ owner = t /\ mode = "up" /\ blk[t] # Genesis
      /\ blk[t] \in Block /\ Parent[blk[t]] \in index
      /\ \A u \in Thread : u # t => pc[u] \in {"idle", "ready"}
  BY Zenon, Alone DEF CommitFork, At
<1>a. blk[t] \in index
  BY Zenon DEF BranchInv, BranchOf, AdoptPcs, CommitFork, At, Goto
<1>1. TypeOK'
  BY Zenon, <1>0 DEF TypeOK, Pcs, CommitFork, At, Goto
<1>2. FilesInv'
  <2>1. StoredBlocks' = StoredBlocks /\ DOMAIN stored' = DOMAIN stored
    BY Zenon DEF StoredBlocks, CommitFork, At, Goto
  <2>2. \A j : IsHeaviest(j)' <=> IsHeaviest(j)
    BY Zenon DEF IsHeaviest, CommitFork, At, Goto
  <2> QED  BY Zenon, <1>a, <2>1, <2>2 DEF FilesInv, CommitFork, At, Goto
<1>3. LockInv'
  BY Zenon DEF TypeOK, LockInv, CommitFork, At, Goto
<1>4. UpInv'
  <2>1. /\ pc'[t] = "txindex" /\ \A u \in Thread : u # t => pc'[u] \in {"idle", "ready"}
        /\ last' = last /\ unspent' = unspent /\ index' = index /\ dblast' = blk[t] /\ blk' = blk
        /\ pc[t] = "fork"
    BY Zenon, <1>0 DEF TypeOK, CommitFork, At, Goto
  <2>2. last \in index /\ unspent = Utxo[last] /\ TxExact(last)
    BY Zenon, <1>0, <2>1 DEF UpInv
  <2>3. TxExact(last)'
    BY Zenon, <2>2 DEF TxExact, TxIndexed, CommitFork, At, Goto
  <2> QED  BY Zenon, <2>1, <2>2, <2>3 DEF UpInv
<1>5. ViewInv' /\ BranchInv'
  <2>1. ViewOf(t)'
    BY Zenon, ViewKept DEF ViewInv, ViewPcs, CommitFork, At, Goto
  <2>2. BranchOf(t)'
    BY Zenon DEF TypeOK, BranchInv, BranchOf, AddedPcs, AdoptPcs, StoredBlocks, CommitFork, At, Goto
  <2>3. \A u \in Thread : u # t => pc'[u] \in {"idle", "ready"}
    BY Zenon, <1>0 DEF TypeOK, CommitFork, At, Goto
  <2> QED  BY Zenon, <2>1, <2>2, <2>3, Inside
<1>6. TrustInv'
  BY Zenon, TrustKept DEF CommitFork, At, Goto, Pcs, AdoptPcs
<1>7. RepairInv'
  BY Zenon, RepairDone DEF CommitFork, At, Goto
<1> QED  BY Zenon, <1>1, <1>2, <1>3, <1>4, <1>5, <1>6, <1>7

LEMMA CommitForkFailsInv ==
  ASSUME Inv, NEW t \in Thread, CommitForkFails(t)
  PROVE  Inv'
<1> USE DEF Inv
<1>0. /\ owner = t /\ mode = "up" /\ blk[t] # Genesis
      /\ blk[t] \in Block /\ Parent[blk[t]] \in index
      /\ \A u \in Thread : u # t => pc[u] \in {"idle", "ready"}
  BY Zenon, Alone DEF CommitForkFails, At
<1>1. TypeOK'
  BY NoneFact DEF TypeOK, Pcs, CommitForkFails, Release, DropView, NoMarks, NoOpts, At, Goto
<1>2. FilesInv'
  BY Zenon, FilesKept DEF CommitForkFails, Release, DropView, NoMarks, NoOpts, At, Goto
<1>3. LockInv'
  BY Zenon, <1>0, NoneFact DEF TypeOK, LockInv, CommitForkFails, Release, DropView, NoMarks, NoOpts, At, Goto
<1>4. UpInv'
  BY Zenon, UpKept DEF CommitForkFails, Release, DropView, NoMarks, NoOpts, At, Goto, Pcs
<1>5. ViewInv' /\ BranchInv'
  <2>1. \A u \in Thread : pc'[u] \in {"idle", "ready"}
    BY Zenon, <1>0 DEF TypeOK, CommitForkFails, Release, DropView, NoMarks, NoOpts, At, Goto
  <2> QED  BY Zenon, <2>1, Outside
<1>6. TrustInv'
  BY Zenon, <1>0 DEF TypeOK, TrustInv, AdoptPcs, CommitForkFails, Release, DropView, NoMarks, NoOpts, At, Goto
<1>7. RepairInv'
  BY Zenon, RepairDone DEF CommitForkFails, Release, DropView, NoMarks, NoOpts, At, Goto
<1> QED  BY Zenon, <1>1, <1>2, <1>3, <1>4, <1>5, <1>6, <1>7

LEMMA CommitTxIndexInv ==
  ASSUME Inv, NEW t \in Thread, CommitTxIndex(t)
  PROVE  Inv'
<1> USE DEF Inv
<1>0. /\ owner = t /\ mode = "up" /\ blk[t] # Genesis
      /\ blk[t] \in Block /\ Parent[blk[t]] \in index
      /\ \A u \in Thread : u # t => pc[u] \in {"idle", "ready"}
  BY Zenon, Alone DEF CommitTxIndex, At
<1> DEFINE x == blk[t]
<1>a. /\ cur = x /\ x \in Sound /\ x \in index /\ rem \subseteq Chain[last] /\ add \subseteq Chain[x]
      /\ \A y \in Chain[x] : y \in add \/ (y \in Chain[last] /\ y \notin rem)
      /\ \A y \in Chain[last] : y \in rem \/ y \in Chain[x]
      /\ Leads(path, x, idx) /\ ref \in Chain[last] /\ idx = ref
  BY Zenon DEF ViewInv, ViewOf, BranchInv, BranchOf, ViewPcs, AddedPcs, AdoptPcs, CommitTxIndex, At, Goto
<1>b. /\ last \in Block /\ TxExact(last) /\ dblast = x
  BY Zenon, <1>0 DEF TypeOK, UpInv, CommitTxIndex, At, Goto
<1>c. Chain[x] = Chain[idx] \cup PathBlocks /\ Chain[idx] \subseteq Chain[last]
  BY Zenon, <1>a, <1>b, ChainFacts DEF Leads, PathBlocks
<1>d. \A y, z \in Chain[x] : y # z => Txs[y] \cap Txs[z] = {}
  BY Zenon, <1>a DEF Sound
<1>e. Chain[x] \subseteq Block /\ Chain[last] \subseteq Block
  BY Zenon, <1>0, <1>b, ChainFacts
<1>f. ASSUME NEW u \in Tx
      PROVE  txIndex'[u] = IF u \in TxsOf(rem) \ TxsOf(add) THEN None
                           ELSE IF u \in TxsOf(PathBlocks)
                                  THEN CHOOSE b \in PathBlocks : u \in Txs[b]
                                  ELSE txIndex[u]
  BY Zenon DEF CommitTxIndex, At, Goto
<1>g. ASSUME NEW u \in Tx, u \in TxsOf(PathBlocks)
      PROVE  (CHOOSE b \in PathBlocks : u \in Txs[b]) \in Chain[x]
  BY Zenon, <1>c, <1>g DEF TxsOf
<1>h. ASSUME NEW y \in Chain[x], NEW u \in Txs[y]  PROVE txIndex'[u] = y
  <2>1. u \in Tx
    BY Zenon, <1>e, <1>h, TxFacts
  <2>2. CASE y \in PathBlocks
    <3>1. y \in add \/ (y \in Chain[last] /\ y \notin rem)
      BY Zenon, <1>a
    <3>2. u \notin TxsOf(rem) \ TxsOf(add)
      <4>1. CASE y \in add
        BY Zenon, <4>1 DEF TxsOf
      <4>2. CASE y \in Chain[last] /\ y \notin rem
        <5>1. \A z \in Chain[last] : u \in Txs[z] => z = y
          BY Zenon, <1>b, <1>h, <2>1, <4>2 DEF TxExact, TxIndexed
        <5> QED  BY Zenon, <1>a, <4>2, <5>1 DEF TxsOf
      <4> QED  BY Zenon, <3>1, <4>1, <4>2
    <3>3. u \in TxsOf(PathBlocks)
      BY Zenon, <2>2 DEF TxsOf
    <3>4. \A b \in PathBlocks : u \in Txs[b] => b = y
      BY Zenon, <1>c, <1>d
    <3>5. (CHOOSE b \in PathBlocks : u \in Txs[b]) = y
      BY Zenon, <2>2, <3>4
    <3> QED  BY Zenon, <1>f, <2>1, <3>2, <3>3, <3>5
  <2>3. CASE y \notin PathBlocks
    <3>1. y \in Chain[last] /\ txIndex[u] = y
      BY Zenon, <1>b, <1>c, <2>3 DEF TxExact, TxIndexed
    <3>2. u \notin TxsOf(PathBlocks)
      BY <1>c, <1>d, <2>3 DEF TxsOf
    <3>3. u \notin TxsOf(rem) \ TxsOf(add)
      <4>1. \A z \in Chain[last] : u \in Txs[z] => z = y
        BY Zenon, <1>b, <3>1 DEF TxExact, TxIndexed
      <4>2. y \in add \/ y \notin rem
        BY Zenon, <1>a
      <4> QED  BY Zenon, <1>a, <4>1, <4>2 DEF TxsOf
    <3> QED  BY Zenon, <1>f, <2>1, <3>1, <3>2, <3>3
  <2> QED  BY Zenon, <2>2, <2>3
<1>i. ASSUME exact, NEW u \in Tx \ TxsOf(Chain[x])  PROVE txIndex'[u] = None
  <2>1. u \notin TxsOf(PathBlocks) /\ u \notin TxsOf(add)
    BY Zenon, <1>a, <1>c DEF TxsOf
  <2>2. CASE u \in TxsOf(rem)
    BY Zenon, <1>f, <2>1, <2>2
  <2>3. CASE u \notin TxsOf(rem)
    <3>1. u \notin TxsOf(Chain[last])
      BY Zenon, <1>a, <2>3 DEF TxsOf
    <3> QED  BY Zenon, <1>b, <1>f, <1>i, <2>1, <2>3, <3>1 DEF TxExact
  <2> QED  BY Zenon, <2>2, <2>3
<1>j. TxExact(blk[t])'
  BY Zenon, <1>h, <1>i DEF TxExact, TxIndexed, CommitTxIndex, At, Goto
<1>1. TypeOK'
  <2>1. \A u \in Tx : txIndex'[u] \in Block \cup {None}
    BY Zenon, <1>e, <1>f, <1>g DEF TypeOK
  <2>2. txIndex' \in [Tx -> Block \cup {None}]
    BY Zenon, <2>1 DEF CommitTxIndex, At, Goto
  <2> QED  BY Zenon, <2>2 DEF TypeOK, Pcs, CommitTxIndex, At, Goto
<1>2. FilesInv'
  BY Zenon, FilesKept DEF CommitTxIndex, At, Goto
<1>3. LockInv'
  BY Zenon DEF TypeOK, LockInv, CommitTxIndex, At, Goto
<1>4. UpInv'
  <2>1. /\ pc'[t] = "unspent" /\ \A u \in Thread : u # t => pc'[u] \in {"idle", "ready"}
        /\ last' = last /\ unspent' = unspent /\ index' = index /\ dblast' = dblast /\ blk' = blk
    BY Zenon, <1>0 DEF TypeOK, CommitTxIndex, At, Goto
  <2> QED  BY Zenon, <1>0, <1>b, <1>j, <2>1 DEF UpInv
<1>5. ViewInv' /\ BranchInv'
  <2>1. ViewOf(t)'
    BY Zenon, ViewKept DEF ViewInv, ViewPcs, CommitTxIndex, At, Goto
  <2>2. BranchOf(t)'
    BY Zenon DEF TypeOK, BranchInv, BranchOf, AddedPcs, AdoptPcs, StoredBlocks, CommitTxIndex, At, Goto
  <2>3. \A u \in Thread : u # t => pc'[u] \in {"idle", "ready"}
    BY Zenon, <1>0 DEF TypeOK, CommitTxIndex, At, Goto
  <2> QED  BY Zenon, <2>1, <2>2, <2>3, Inside
<1>6. TrustInv'
  BY Zenon, TrustKept DEF CommitTxIndex, At, Goto, Pcs, AdoptPcs
<1>7. RepairInv'
  BY Zenon, RepairDone DEF CommitTxIndex, At, Goto
<1> QED  BY Zenon, <1>1, <1>2, <1>3, <1>4, <1>5, <1>6, <1>7

(* An outpoint the view leaves as it was has no pending change.            *)
LEMMA IndZero ==
  ASSUME NEW p \in BOOLEAN, NEW q \in BOOLEAN, NEW n, n = Ind(p) - Ind(q)
  PROVE  n = 0 <=> (p <=> q)
<1>1. CASE p = TRUE /\ q = TRUE    BY <1>1 DEF Ind
<1>2. CASE p = TRUE /\ q = FALSE   BY <1>2 DEF Ind
<1>3. CASE p = FALSE /\ q = TRUE   BY <1>3 DEF Ind
<1>4. CASE p = FALSE /\ q = FALSE  BY <1>4 DEF Ind
<1> QED  BY Zenon, <1>1, <1>2, <1>3, <1>4

LEMMA CommitUnspentInv ==
  ASSUME Inv, NEW t \in Thread, CommitUnspent(t)
  PROVE  Inv'
<1> USE DEF Inv
<1>0. /\ owner = t /\ mode = "up" /\ blk[t] # Genesis
      /\ blk[t] \in Block /\ Parent[blk[t]] \in index
      /\ \A u \in Thread : u # t => pc[u] \in {"idle", "ready"}
  BY Zenon, Alone DEF CommitUnspent, At
<1>a. /\ cur = blk[t] /\ blk[t] \in index /\ ChainTrust[last] < ChainTrust[blk[t]]
      /\ Agrees(ViewUnspent, nOpt, unspent, blk[t])
  BY Zenon DEF ViewInv, ViewOf, BranchInv, BranchOf, ViewPcs, AddedPcs, AdoptPcs, CommitUnspent, At, Goto
<1>b. unspent' = Utxo[blk[t]]
  <2>1. ASSUME NEW o \in Out  PROVE o \in unspent' <=> o \in Utxo[blk[t]]
    <3>1. /\ o \in ViewUnspent <=> o \in Utxo[blk[t]]
          /\ nOpt[o] = Ind(o \in Utxo[blk[t]]) - Ind(o \in unspent)
          /\ mark[o] \in {"none", "enabled", "spent"}
      BY Zenon, <1>a DEF Agrees, TypeOK
    <3>2. nOpt[o] = 0 <=> (o \in Utxo[blk[t]] <=> o \in unspent)
      <4>1. (o \in Utxo[blk[t]]) \in BOOLEAN /\ (o \in unspent) \in BOOLEAN
        OBVIOUS
      <4> QED  BY Zenon, <3>1, <4>1, IndZero
    <3> QED  BY Zenon, <3>1, <3>2 DEF ViewUnspent, CommitUnspent, At, Goto
  <2>2. unspent' \subseteq Out
    BY Zenon DEF TypeOK, CommitUnspent, At, Goto
  <2> QED  BY ZenonT(40), <1>0, <2>1, <2>2, UtxoFacts
<1>c. /\ pc'[t] = "relink" /\ \A u \in Thread : u # t => pc'[u] \in {"idle", "ready"}
      /\ last' = blk[t] /\ index' = index /\ dblast' = dblast /\ blk' = blk /\ mode' = mode
      /\ exact' = exact /\ txIndex' = txIndex /\ pc[t] = "unspent" /\ broken' = broken
  BY Zenon, <1>0 DEF TypeOK, CommitUnspent, At, Goto
<1>d. dblast = blk[t] /\ TxExact(blk[t])
  BY Zenon, <1>0, <1>c DEF UpInv
<1>1. TypeOK'
  BY Zenon, <1>0 DEF TypeOK, Pcs, CommitUnspent, At, Goto
<1>2. FilesInv'
  BY Zenon, FilesKept DEF CommitUnspent, At, Goto
<1>3. LockInv'
  BY Zenon DEF TypeOK, LockInv, CommitUnspent, At, Goto
<1>4. UpInv'
  <2>1. TxExact(last)'
    BY Zenon, <1>c, <1>d DEF TxExact, TxIndexed
  <2>2. last' \in index' /\ unspent' = Utxo[last'] /\ dblast' = last'
    BY Zenon, <1>a, <1>b, <1>c, <1>d
  <2> QED  BY Zenon, <1>c, <2>1, <2>2 DEF UpInv
<1>5. ViewInv' /\ BranchInv'
  <2>1. ViewOf(t)'
    BY Zenon, <1>c DEF ViewOf, ViewPcs
  <2>2. BranchOf(t)'
    BY Zenon, <1>c DEF BranchOf, AddedPcs, AdoptPcs
  <2>3. \A u \in Thread : u # t => pc'[u] \in {"idle", "ready"}
    BY Zenon, <1>0 DEF TypeOK, CommitUnspent, At, Goto
  <2> QED  BY Zenon, <2>1, <2>2, <2>3, Inside
<1>6. TrustInv'
  <2>1. ASSUME NEW b \in index  PROVE ChainTrust[b] <= ChainTrust[blk[t]] \/ b \in broken
    <3>1. ChainTrust[b] \in Nat /\ ChainTrust[last] \in Nat /\ ChainTrust[blk[t]] \in Nat
      BY Zenon, <1>0, BlockTrust DEF TypeOK
    <3>2. \/ ChainTrust[b] <= ChainTrust[last] \/ b \in broken
          \/ \E u \in Thread : pc[u] \in AdoptPcs /\ blk[u] = b
      BY Zenon, <1>0 DEF TrustInv
    <3>3. \A u \in Thread : pc[u] \in AdoptPcs => u = t
      BY Zenon, <1>0 DEF AdoptPcs
    <3> QED  BY <1>a, <3>1, <3>2, <3>3
  <2> QED  BY Zenon, <1>0, <1>c, <2>1 DEF TrustInv
<1>7. RepairInv'
  BY Zenon, RepairDone DEF CommitUnspent, At, Goto
<1> QED  BY Zenon, <1>1, <1>2, <1>3, <1>4, <1>5, <1>6, <1>7

LEMMA RelinkInv ==
  ASSUME Inv, NEW t \in Thread, Relink(t)
  PROVE  Inv'
<1> USE DEF Inv
<1>0. /\ owner = t /\ mode = "up" /\ blk[t] # Genesis
      /\ blk[t] \in Block /\ Parent[blk[t]] \in index
      /\ \A u \in Thread : u # t => pc[u] \in {"idle", "ready"}
  BY Zenon, Alone DEF Relink, At
<1>1. TypeOK'
  BY ZenonT(40), BlockTree DEF TypeOK, Pcs, Modes, Relink, At, Goto
<1>2. FilesInv'
  BY Zenon, FilesKept DEF Relink, At, Goto
<1>3. LockInv'
  BY Zenon DEF TypeOK, LockInv, Relink, At, Goto
<1>4. UpInv'
  BY Zenon, UpKept DEF Relink, At, Goto, Pcs
<1>5. ViewInv' /\ BranchInv'
  <2>1. ViewOf(t)'
    BY Zenon DEF TypeOK, ViewOf, ViewPcs, Relink, At, Goto
  <2>2. BranchOf(t)'
    BY Zenon DEF TypeOK, BranchInv, BranchOf, AddedPcs, AdoptPcs, Relink, At, Goto
  <2>3. \A u \in Thread : u # t => pc'[u] \in {"idle", "ready"}
    BY Zenon, <1>0 DEF TypeOK, Relink, At, Goto
  <2> QED  BY Zenon, <2>1, <2>2, <2>3, Inside
<1>6. TrustInv'
  BY Zenon, TrustKept DEF Relink, At, Goto, Pcs, AdoptPcs
<1>7. RepairInv'
  BY Zenon, RepairDone DEF Relink, At, Goto
<1> QED  BY Zenon, <1>1, <1>2, <1>3, <1>4, <1>5, <1>6, <1>7

LEMMA ClearNextInv ==
  ASSUME Inv, NEW t \in Thread, ClearNext(t)
  PROVE  Inv'
<1> USE DEF Inv
<1>0. /\ owner = t /\ mode = "up" /\ blk[t] # Genesis
      /\ blk[t] \in Block /\ Parent[blk[t]] \in index
      /\ \A u \in Thread : u # t => pc[u] \in {"idle", "ready"}
  BY Zenon, Alone DEF ClearNext, At
<1>1. TypeOK'
  BY Zenon DEF TypeOK, Pcs, ClearNext, At, Goto
<1>2. FilesInv'
  BY Zenon, FilesKept DEF ClearNext, At, Goto
<1>3. LockInv'
  BY Zenon DEF TypeOK, LockInv, ClearNext, At, Goto
<1>4. UpInv'
  BY Zenon, <1>0 DEF TypeOK, UpInv, TxExact, TxIndexed, ClearNext, At, Goto
<1>5. ViewInv' /\ BranchInv'
  <2>1. ViewOf(t)'
    BY Zenon DEF TypeOK, ViewOf, ViewPcs, ClearNext, At, Goto
  <2>2. BranchOf(t)'
    BY Zenon DEF TypeOK, BranchInv, BranchOf, AddedPcs, AdoptPcs, ClearNext, At, Goto
  <2>3. \A u \in Thread : u # t => pc'[u] \in {"idle", "ready"}
    BY Zenon, <1>0 DEF TypeOK, ClearNext, At, Goto
  <2> QED  BY Zenon, <2>1, <2>2, <2>3, Inside
<1>6. TrustInv'
  BY Zenon, <1>0 DEF TypeOK, TrustInv, ClearNext, At, Goto
<1>7. RepairInv'
  BY Zenon, RepairDone DEF ClearNext, At, Goto
<1> QED  BY Zenon, <1>1, <1>2, <1>3, <1>4, <1>5, <1>6, <1>7

LEMMA SetNextInv ==
  ASSUME Inv, NEW t \in Thread, SetNext(t)
  PROVE  Inv'
<1> USE DEF Inv
<1>0. /\ owner = t /\ mode = "up" /\ blk[t] # Genesis
      /\ blk[t] \in Block /\ Parent[blk[t]] \in index
      /\ \A u \in Thread : u # t => pc[u] \in {"idle", "ready"}
  BY Zenon, Alone DEF SetNext, At
<1>1. TypeOK'
  <2>1. Parent[rn] \in Block
    BY Zenon, ChainFacts DEF TypeOK, BranchInv, BranchOf, SetNext, At, Goto
  <2> QED  BY Zenon, <2>1 DEF TypeOK, Pcs, SetNext, At, Goto
<1>2. FilesInv'
  BY Zenon, FilesKept DEF SetNext, At, Goto
<1>3. LockInv'
  BY Zenon DEF TypeOK, LockInv, SetNext, At, Goto
<1>4. UpInv'
  BY Zenon, UpKept DEF SetNext, At, Goto, Pcs
<1>5. ViewInv' /\ BranchInv'
  <2>1. ViewOf(t)'
    BY Zenon DEF TypeOK, ViewOf, ViewPcs, SetNext, At, Goto
  <2>2. BranchOf(t)'
    BY Zenon DEF TypeOK, BranchInv, BranchOf, AddedPcs, AdoptPcs, SetNext, At, Goto
  <2>3. \A u \in Thread : u # t => pc'[u] \in {"idle", "ready"}
    BY Zenon, <1>0 DEF TypeOK, SetNext, At, Goto
  <2> QED  BY Zenon, <2>1, <2>2, <2>3, Inside
<1>6. TrustInv'
  BY Zenon, TrustKept DEF SetNext, At, Goto, Pcs, AdoptPcs
<1>7. RepairInv'
  BY Zenon, RepairDone DEF SetNext, At, Goto
<1> QED  BY Zenon, <1>1, <1>2, <1>3, <1>4, <1>5, <1>6, <1>7

LEMMA FinishInv ==
  ASSUME Inv, NEW t \in Thread, Finish(t)
  PROVE  Inv'
<1> USE DEF Inv
<1>0. /\ owner = t /\ mode = "up" /\ blk[t] # Genesis
      /\ blk[t] \in Block /\ Parent[blk[t]] \in index
      /\ \A u \in Thread : u # t => pc[u] \in {"idle", "ready"}
  BY Zenon, Alone DEF Finish, At
<1>1. TypeOK'
  <2>1. pc' \in [Thread -> Pcs]
    BY Zenon DEF TypeOK, Pcs, Finish, Release, Goto
  <2>2. /\ owner' \in Thread \cup {None} /\ ref' \in Block /\ idx' \in Block /\ cur' \in Block
        /\ rem' \subseteq Block /\ add' \subseteq Block /\ rn' \in Block /\ rp' \in Block \cup {None}
    BY Zenon, NoneFact DEF Finish, Release, DropView
  <2>3. path' \in Seq(Block) /\ mark' \in [Out -> {"none", "enabled", "spent"}]
    BY DEF Finish, Release, DropView, NoMarks
  <2>4. nOpt' \in [Out -> Int]
    BY DEF Finish, Release, DropView, NoOpts
  <2>5. UNCHANGED <<files, forkVars, blk, mode, faultVars>>
    BY Zenon DEF Finish
  <2> QED  BY Zenon, <2>1, <2>2, <2>3, <2>4, <2>5 DEF TypeOK
<1>2. FilesInv'
  BY Zenon, FilesKept DEF Finish, Release, DropView, NoMarks, NoOpts, At, Goto
<1>3. LockInv'
  BY Zenon, <1>0, NoneFact DEF TypeOK, LockInv, Finish, Release, DropView, NoMarks, NoOpts, At, Goto
<1>4. UpInv'
  BY Zenon, UpKept DEF Finish, Release, DropView, NoMarks, NoOpts, At, Goto, Pcs
<1>5. ViewInv' /\ BranchInv'
  <2>1. \A u \in Thread : pc'[u] \in {"idle", "ready"}
    BY Zenon, <1>0 DEF TypeOK, Finish, Release, DropView, NoMarks, NoOpts, At, Goto
  <2> QED  BY Zenon, <2>1, Outside
<1>6. TrustInv'
  BY Zenon, TrustKept DEF Finish, Release, DropView, NoMarks, NoOpts, At, Goto, Pcs, AdoptPcs
<1>7. RepairInv'
  BY Zenon, RepairDone DEF Finish, Release, DropView, NoMarks, NoOpts, At, Goto
<1> QED  BY Zenon, <1>1, <1>2, <1>3, <1>4, <1>5, <1>6, <1>7

-----------------------------------------------------------------------------
(* UpdateNext keeps pNext along the chain it is building and what is left  *)
(* of the old one.                                                         *)

(* Cutting or adding one pNext.                                            *)
LEMMA LinkChange ==
  ASSUME NEW n \in [Block -> Block \cup {None}], NEW S, Linked(n, S),
         NEW y \in Block \ {Genesis}
  PROVE  /\ y \in S => Linked([n EXCEPT ![Parent[y]] = None], S \ {y})
         /\ n[Parent[y]] = None => Linked([n EXCEPT ![Parent[y]] = y], S \cup {y})
<1>1. Parent[y] \in Block /\ None \notin Block /\ (y \in S => n[Parent[y]] = y)
  BY Zenon, ChainFacts, BlockTree DEF Linked
<1>2. ASSUME y \in S  PROVE Linked([n EXCEPT ![Parent[y]] = None], S \ {y})
  BY <1>1, <1>2 DEF Linked
<1>3. ASSUME n[Parent[y]] = None  PROVE Linked([n EXCEPT ![Parent[y]] = y], S \cup {y})
  BY <1>1, <1>3 DEF Linked
<1> QED  BY Zenon, <1>2, <1>3

LEMMA LinkOutside ==
  ASSUME Linked(next, Chain[last]), UNCHANGED <<last, next>>,
         \A u \in Thread : pc'[u] \notin LinkPcs
  PROVE  LinkInv'
BY Zenon DEF LinkInv, Linked, LinkPcs

LEMMA LinkInside ==
  ASSUME NEW t \in Thread, \A u \in Thread : u # t => pc'[u] \notin LinkPcs,
         rn' \in Chain[last'], NEW h \in Block,
         \/ pc'[t] = "relink" /\ RelinkAt(h)' /\ (rn' \in Chain[h] => rn' = h)
         \/ /\ pc'[t] = "clear" /\ rn' \notin Chain[h]
            /\ rp' = None => next'[Parent[rn']] = None /\ RelinkAt(h)'
            /\ rp' # None => ClearAt(h)'
  PROVE  LinkInv'
<1>1. CASE pc'[t] = "relink" /\ RelinkAt(h)' /\ (rn' \in Chain[h] => rn' = h)
  BY Zenon, <1>1 DEF LinkInv, LinkPcs
<1>2. CASE /\ pc'[t] = "clear" /\ rn' \notin Chain[h]
           /\ rp' = None => next'[Parent[rn']] = None /\ RelinkAt(h)'
           /\ rp' # None => ClearAt(h)'
  BY Zenon, <1>2 DEF LinkInv, LinkPcs
<1> QED  BY Zenon, <1>1, <1>2

(* Steps of AddNewBlock before and beside UpdateNext.                      *)
LEMMA BeforeLink ==
  ASSUME Inv, LinkInv, NEW t \in Thread, mode = "up", UNCHANGED <<last, next>>,
         pc[t] \notin {"idle"} \cup LinkPcs, pc[t] = "ready" => owner = None,
         NEW q \in Pcs \ LinkPcs, pc' = [pc EXCEPT ![t] = q]
  PROVE  LinkInv'
<1>1. \A u \in Thread : pc[u] \notin LinkPcs
  <2>1. LockInv /\ None \notin Thread /\ LinkPcs \cap {"idle", "ready"} = {}
    BY Zenon, BlockTree DEF Inv, LinkPcs
  <2> QED  BY <2>1 DEF LockInv
<1>2. Linked(next, Chain[last])
  BY Zenon, <1>1 DEF LinkInv, LinkPcs
<1>3. \A u \in Thread : pc'[u] \notin LinkPcs
  BY Zenon, <1>1 DEF Inv, TypeOK
<1> QED  BY Zenon, <1>2, <1>3, LinkOutside

LEMMA StepLink ==
  ASSUME Inv, LinkInv, NEW t \in Thread, Step(t) \/ Fail(t)
  PROVE  \/ LinkInv'
         \/ CommitUnspent(t) \/ Relink(t) \/ ClearNext(t) \/ SetNext(t) \/ Finish(t)
<1> DEFINE E(q) == /\ mode = "up" /\ last' = last /\ next' = next
                   /\ pc[t] \notin {"idle"} \cup LinkPcs /\ (pc[t] = "ready" => owner = None)
                   /\ pc' = [pc EXCEPT ![t] = q]
<1>1. ASSUME NEW q \in Pcs \ LinkPcs, E(q)  PROVE LinkInv'
  BY Zenon, <1>1, BeforeLink
<1>2. "idle" \in Pcs \ LinkPcs /\ "branch" \in Pcs \ LinkPcs
  BY Zenon DEF Pcs, LinkPcs
<1>3. CASE LockView(t)
  <2>1. E("branch")
    BY Zenon, <1>3 DEF LockView, At, Goto, LinkPcs
  <2> QED  BY Zenon, <1>1, <1>2, <2>1
<1>4. CASE StartAdd(t)
  <2>1. E("add") /\ "add" \in Pcs \ LinkPcs
    BY Zenon, <1>4 DEF StartAdd, At, Goto, LinkPcs, Pcs
  <2> QED  BY Zenon, <1>1, <2>1
<1>5. CASE ViewBranch(t) \/ RemoveBlock(t)
  <2>1. E("branch")
    BY Zenon, <1>5 DEF ViewBranch, RemoveBlock, At, LinkPcs, Inv, TypeOK
  <2> QED  BY Zenon, <1>1, <1>2, <2>1
<1>6. CASE AddBlock(t)
  <2>1. E("add") /\ "add" \in Pcs \ LinkPcs
    BY Zenon, <1>6 DEF AddBlock, At, LinkPcs, Inv, TypeOK, Pcs
  <2> QED  BY Zenon, <1>1, <2>1
<1>7. CASE VerifyTxs(t) \/ WriteBlock(t) \/ AddIndex(t)
  <2>1. PICK q \in {"write", "index", "choose"} : E(q)
    BY Zenon, <1>7 DEF VerifyTxs, WriteBlock, AddIndex, At, Goto, LinkPcs
  <2>2. q \in Pcs \ LinkPcs
    BY Zenon DEF Pcs, LinkPcs
  <2> QED  BY Zenon, <1>1, <2>1, <2>2
<1>8. CASE RejectTxs(t) \/ AlreadyKnown(t) \/ ShortChain(t) \/ Fail(t)
  <2>1. E("idle")
    BY Zenon, <1>8 DEF RejectTxs, AlreadyKnown, ShortChain, Fail, AddIndexFails, CommitForkFails,
       Release, At, Goto, LinkPcs
  <2> QED  BY Zenon, <1>1, <1>2, <2>1
<1>9. CASE LongChain(t) \/ UpgradeToWrite(t) \/ CommitFork(t) \/ CommitTxIndex(t)
  <2>1. PICK q \in {"rebranch", "fork", "txindex", "unspent"} : E(q)
    BY Zenon, <1>9 DEF LongChain, UpgradeToWrite, CommitFork, CommitTxIndex, At, Goto, LinkPcs
  <2>2. q \in Pcs \ LinkPcs
    BY Zenon DEF Pcs, LinkPcs
  <2> QED  BY Zenon, <1>1, <2>1, <2>2
<1>10. CASE TxBranch(t)
  <2>1. E("rebranch") /\ "rebranch" \in Pcs \ LinkPcs
    BY Zenon, <1>10 DEF TxBranch, At, LinkPcs, Inv, TypeOK, Pcs
  <2> QED  BY Zenon, <1>1, <2>1
<1> QED  BY Zenon, <1>3, <1>4, <1>5, <1>6, <1>7, <1>8, <1>9, <1>10 DEF Step

(* The new last block is on no chain but its own: UpdateNext begins.       *)
LEMMA CommitUnspentLink ==
  ASSUME Inv, LinkInv, NEW t \in Thread, CommitUnspent(t)
  PROVE  LinkInv'
<1> USE DEF Inv
<1>1. /\ mode = "up" /\ pc[t] = "unspent" /\ last' = blk[t] /\ rn' = blk[t] /\ next' = next
      /\ pc' = [pc EXCEPT ![t] = "relink"]
  BY Zenon DEF CommitUnspent, At, Goto
<1>2. blk[t] \in Block /\ \A u \in Thread : u # t => pc[u] \in {"idle", "ready"}
  BY Zenon, <1>1, Alone
<1>3. Linked(next, Chain[last])
  BY Zenon, <1>1, <1>2 DEF LinkInv, LinkPcs
<1>4. blk[t] \notin Chain[last]
  <2>1. ChainTrust[last] < ChainTrust[blk[t]] /\ last \in Block
    BY Zenon, <1>1 DEF BranchInv, BranchOf, AdoptPcs, TypeOK
  <2> QED  BY <1>2, <2>1, ChainBegins, BlockTrust
<1>5. ASSUME NEW h \in Block, h = last  PROVE RelinkAt(h)' /\ (rn' \in Chain[h] => rn' = h)
  <2>1. Chain[h] \cup (Chain[last'] \ Chain[rn']) = Chain[last]
    BY Zenon, <1>1, <1>5
  <2> QED  BY Zenon, <1>1, <1>3, <1>4, <1>5, <2>1 DEF RelinkAt
<1>6. pc'[t] = "relink" /\ \A u \in Thread : u # t => pc'[u] \notin LinkPcs
  BY Zenon, <1>1, <1>2 DEF TypeOK, LinkPcs
<1>7. last \in Block /\ rn' \in Chain[last']
  BY Zenon, <1>1, <1>2, ChainFacts DEF TypeOK
<1> QED  BY Zenon, <1>5, <1>6, <1>7, LinkInside

(* UpdateNext does not run for two threads.                                *)
LEMMA Linking ==
  ASSUME Inv, LinkInv, NEW t \in Thread, At(t, "relink") \/ At(t, "clear")
  PROVE  /\ mode = "up" /\ rn \in Chain[last] /\ rn \in Block /\ last \in Block
         /\ \A u \in Thread : u # t => pc[u] \in {"idle", "ready"}
BY Zenon, Alone, ChainFacts DEF At, Inv, LinkInv, LinkPcs, TypeOK

LEMMA RelinkLink ==
  ASSUME Inv, LinkInv, NEW t \in Thread, Relink(t)
  PROVE  LinkInv'
<1> USE DEF Inv
<1>1. /\ At(t, "relink") /\ rn # Genesis /\ next[Parent[rn]] # rn /\ rp' = next[Parent[rn]]
      /\ pc' = [pc EXCEPT ![t] = "clear"] /\ UNCHANGED <<last, next, rn>>
  BY Zenon DEF Relink, Goto
<1>2. /\ rn \in Chain[last] /\ rn \in Block /\ last \in Block
      /\ \A u \in Thread : u # t => pc[u] \in {"idle", "ready"}
  BY Zenon, <1>1, Linking
<1>3. PICK h \in Block : RelinkAt(h) /\ (rn \in Chain[h] => rn = h)
  BY Zenon, <1>1 DEF LinkInv, At
<1> DEFINE S == Chain[h] \cup (Chain[last] \ Chain[rn])
           p == Parent[rn]
<1>4. Linked(next, S)
  BY Zenon, <1>3 DEF RelinkAt
<1>5. p \in Block /\ rn \notin Chain[p]
  BY Zenon, <1>1, <1>2, ChainFacts
<1>6. rn \notin Chain[h]
  BY Zenon, <1>1, <1>2, <1>3, <1>4, <1>5, ChainFacts DEF Linked
<1>7. ASSUME rp' # None  PROVE ClearAt(h)'
  <2> DEFINE y == next[p]
  <2>1. y \in Block
    BY Zenon, <1>1, <1>5, <1>7 DEF TypeOK
  <2>2. y # Genesis /\ Parent[y] = p /\ y \in S
    BY Zenon, <1>4, <1>5, <2>1 DEF Linked
  <2>a. y \notin Chain[last] \ Chain[rn]
    BY Zenon, <1>2, <1>5, <2>1, <2>2, ChildFacts
  <2>b. y \in Chain[h]
    BY Zenon, <2>2, <2>a
  <2>3. p \in Chain[y] /\ p # y /\ \A z \in Chain[h] : z \in Chain[p] \/ y \in Chain[z]
    BY Zenon, <1>5, <2>1, <2>2, <2>b, ChildFacts
  <2>4. {z \in Chain[h] : z \in Chain[p] \/ y \in Chain[z]} = Chain[h]
    BY Zenon, <2>3
  <2> QED  BY Zenon, <1>1, <1>4, <2>b, <2>3, <2>4 DEF ClearAt
<1>8. RelinkAt(h)' /\ next' = next
  BY Zenon, <1>1, <1>3 DEF RelinkAt, Linked
<1>9. pc'[t] = "clear" /\ \A u \in Thread : u # t => pc'[u] \notin LinkPcs
  BY Zenon, <1>1, <1>2 DEF TypeOK, LinkPcs
<1> QED  BY Zenon, <1>1, <1>2, <1>6, <1>7, <1>8, <1>9, LinkInside

LEMMA SetNextLink ==
  ASSUME Inv, LinkInv, NEW t \in Thread, SetNext(t)
  PROVE  LinkInv'
<1> USE DEF Inv
<1>1. /\ At(t, "clear") /\ rp = None /\ next' = [next EXCEPT ![Parent[rn]] = rn]
      /\ rn' = Parent[rn] /\ pc' = [pc EXCEPT ![t] = "relink"] /\ last' = last
  BY Zenon DEF SetNext, Goto
<1>2. /\ rn \in Chain[last] /\ rn \in Block /\ last \in Block /\ rn # Genesis
      /\ \A u \in Thread : u # t => pc[u] \in {"idle", "ready"}
  BY Zenon, <1>1, Linking DEF BranchInv, BranchOf, At
<1>3. PICK h \in Block : rn \notin Chain[h] /\ next[Parent[rn]] = None /\ RelinkAt(h)
  BY Zenon, <1>1 DEF LinkInv, At
<1> DEFINE S == Chain[h] \cup (Chain[last] \ Chain[rn])
           p == Parent[rn]
<1>4. /\ p \in Block /\ Chain[rn] = Chain[p] \cup {rn} /\ rn \notin Chain[p] /\ p \in Chain[last]
  BY Zenon, <1>2, ChainFacts
<1>5. Linked(next', S \cup {rn})
  BY Zenon, <1>1, <1>2, <1>3, LinkChange DEF RelinkAt, TypeOK
<1>6. S \cup {rn} = Chain[h] \cup (Chain[last] \ Chain[p])
  BY Zenon, <1>2, <1>4
<1>7. RelinkAt(h)'
  BY Zenon, <1>1, <1>5, <1>6 DEF RelinkAt
<1>8. p \in Chain[h] => p = h
  <2> SUFFICES ASSUME p \in Chain[h], p # h  PROVE FALSE
    BY Zenon
  <2>1. PICK y \in Chain[h] : y # Genesis /\ Parent[y] = p
    BY Zenon, ChainOrdered
  <2>2. next[p] = y /\ y \in Block
    BY Zenon, <1>3, <1>4, <2>1, ChainFacts DEF RelinkAt, Linked
  <2> QED  BY Zenon, <1>3, <2>2, BlockTree
<1>9. pc'[t] = "relink" /\ \A u \in Thread : u # t => pc'[u] \notin LinkPcs
  BY Zenon, <1>1, <1>2 DEF TypeOK, LinkPcs
<1> QED  BY Zenon, <1>1, <1>4, <1>7, <1>8, <1>9, LinkInside

(* UpdateNext ends where it meets the chain that is still linked.          *)
LEMMA FinishLink ==
  ASSUME Inv, LinkInv, NEW t \in Thread, Finish(t)
  PROVE  LinkInv'
<1> USE DEF Inv
<1>1. /\ At(t, "relink") /\ (rn # Genesis => next[Parent[rn]] = rn)
      /\ pc' = [pc EXCEPT ![t] = "idle"] /\ UNCHANGED <<last, next>>
  BY Zenon DEF Finish, Release, Goto
<1>2. /\ rn \in Chain[last] /\ rn \in Block /\ last \in Block
      /\ \A u \in Thread : u # t => pc[u] \in {"idle", "ready"}
  BY Zenon, <1>1, Linking
<1>3. PICK h \in Block : RelinkAt(h) /\ (rn \in Chain[h] => rn = h)
  BY Zenon, <1>1 DEF LinkInv, At
<1>4. rn \in Chain[h]
  <2>1. CASE rn = Genesis
    BY Zenon, <2>1, ChainBegins
  <2>2. CASE rn # Genesis
    BY <1>1, <1>2, <1>3, <2>2, ChainFacts DEF RelinkAt, Linked
  <2> QED  BY Zenon, <2>1, <2>2
<1>5. Chain[h] \cup (Chain[last] \ Chain[rn]) = Chain[last]
  BY Zenon, <1>2, <1>3, <1>4, ChainFacts
<1>6. Linked(next, Chain[last])
  BY Zenon, <1>3, <1>5 DEF RelinkAt
<1>7. \A u \in Thread : pc'[u] \notin LinkPcs
  BY Zenon, <1>1, <1>2 DEF TypeOK, LinkPcs
<1> QED  BY Zenon, <1>1, <1>6, <1>7, LinkOutside

(* One block of the old branch is left: the next, if any, comes after it.  *)
LEMMA ClearNextLink ==
  ASSUME Inv, LinkInv, NEW t \in Thread, ClearNext(t)
  PROVE  LinkInv'
<1> USE DEF Inv
<1>1. /\ At(t, "clear") /\ rp # None /\ next' = [next EXCEPT ![Parent[rp]] = None]
      /\ rp' = next[rp] /\ pc' = pc /\ last' = last /\ rn' = rn
  BY Zenon DEF ClearNext
<1>2. /\ rn \in Chain[last] /\ rn \in Block /\ last \in Block /\ rn # Genesis
      /\ \A u \in Thread : u # t => pc[u] \in {"idle", "ready"}
  BY Zenon, <1>1, Linking DEF BranchInv, BranchOf, At
<1>3. PICK h \in Block : rn \notin Chain[h] /\ ClearAt(h)
  BY Zenon, <1>1 DEF LinkInv, At
<1> DEFINE p == Parent[rn]
           Top == Chain[last] \ Chain[rn]
           S == {z \in Chain[h] : z \in Chain[p] \/ rp \in Chain[z]} \cup Top
<1>4. rp \in Chain[h] /\ p \in Chain[rp] /\ p # rp /\ Linked(next, S)
  BY Zenon, <1>3 DEF ClearAt
<1>5. /\ p \in Block /\ rn \notin Chain[p] /\ rp \in Block /\ rp \in Chain[rp]
      /\ Chain[rn] = Chain[p] \cup {rn}
      /\ Chain[rp] \subseteq Chain[h] /\ Chain[p] \subseteq Chain[h]
  BY Zenon, <1>2, <1>4, ChainFacts
<1>6. rp \notin Chain[p] /\ rp # Genesis
  BY Zenon, <1>4, <1>5, ChainOrdered, BlockTree
<1>7. rn \notin Chain[rp] /\ rp \notin Top
  <2>1. rn \notin Chain[rp]
    BY Zenon, <1>3, <1>5
  <2>2. rp \in Chain[last] => rn \in Chain[rp] \/ rp \in Chain[rn]
    BY Zenon, <1>2, ChainOrdered
  <2> QED  BY Zenon, <2>1, <2>2
<1>8. Linked(next', S \ {rp})
  <2>1. rp \in S
    BY Zenon, <1>4, <1>5
  <2> HIDE DEF S
  <2> QED  BY Zenon, <1>1, <1>4, <1>5, <1>6, <2>1, LinkChange DEF TypeOK
<1>9. pc'[t] = "clear" /\ \A u \in Thread : u # t => pc'[u] \notin LinkPcs
  BY Zenon, <1>1, <1>2 DEF LinkPcs, At
<1>10. ASSUME next[rp] = None
       PROVE  rn' \notin Chain[p] /\ next'[Parent[rn']] = None /\ RelinkAt(p)'
  <2>1. rp = h
    <3> SUFFICES ASSUME rp # h  PROVE FALSE
      BY Zenon
    <3>1. PICK y \in Chain[h] : y # Genesis /\ Parent[y] = rp
      BY Zenon, <1>4, ChainOrdered
    <3>2. y \in Block /\ rp \in Chain[y]
      BY Zenon, <3>1, ChainFacts
    <3>3. next[rp] = y
      BY <1>4, <1>5, <3>1, <3>2 DEF Linked
    <3> QED  BY Zenon, <1>10, <3>2, <3>3, BlockTree
  <2>2. \A z \in Chain[h] : rp \in Chain[z] => z = rp
    BY Zenon, <1>5, <2>1, ChainOrdered, ChainFacts
  <2>3. S \ {rp} = Chain[p] \cup Top
    BY Zenon, <1>5, <1>6, <1>7, <2>2
  <2>4. Linked(next', Chain[p] \cup Top)
    BY Zenon, <1>8, <2>3
  <2>5. ASSUME next'[p] \in Block  PROVE FALSE
    <3> DEFINE y == next'[p]
    <3>1. y # Genesis /\ Parent[y] = p /\ y \in Chain[p] \cup Top
      BY Zenon, <1>5, <2>4, <2>5 DEF Linked
    <3> QED  BY <1>2, <1>5, <2>5, <3>1, ChildFacts
  <2>6. next'[p] \in Block \cup {None}
    BY Zenon, <1>1, <1>5 DEF TypeOK
  <2> QED  BY Zenon, <1>1, <1>5, <2>4, <2>5, <2>6 DEF RelinkAt
<1>11. ASSUME next[rp] # None
       PROVE  ClearAt(h)'
  <2> DEFINE y == next[rp]
  <2>1. y \in Block
    BY Zenon, <1>5, <1>11 DEF TypeOK
  <2>2. y # Genesis /\ Parent[y] = rp /\ y \in Chain[h]
    <3>1. y # Genesis /\ Parent[y] = rp /\ y \in S
      BY <1>4, <1>5, <2>1 DEF Linked
    <3>2. y \notin Top
      BY Zenon, <1>2, <1>7, <2>1, <3>1, ChildFacts
    <3> QED  BY Zenon, <3>1, <3>2
  <2>3. /\ \A z \in Chain[h] : z \in Chain[rp] \/ y \in Chain[z]
        /\ y \notin Chain[rp] /\ rp \in Chain[y] /\ Chain[y] = Chain[rp] \cup {y}
    <3>1. Chain[y] = Chain[rp] \cup {y}
      BY Zenon, <2>1, <2>2, ChainFacts
    <3> QED  BY Zenon, <1>5, <2>1, <2>2, <3>1, ChildFacts
  <2>4. p \in Chain[y] /\ p # y
    BY Zenon, <1>4, <2>3
  <2> HIDE DEF y
  <2>5. ASSUME NEW z \in Chain[h], rp \in Chain[z], z # rp  PROVE y \in Chain[z]
    <3>1. z \in Block /\ (z \in Chain[rp] => z = rp)
      BY Zenon, <1>5, <2>5, ChainFacts, ChainOrdered
    <3> QED  BY Zenon, <2>3, <2>5, <3>1
  <2>6. ASSUME NEW z \in Chain[h], y \in Chain[z]  PROVE rp \in Chain[z] /\ z # rp
    <3>1. z \in Block /\ Chain[y] \subseteq Chain[z]
      BY Zenon, <2>6, ChainFacts
    <3> QED  BY Zenon, <2>3, <2>6, <3>1
  <2>7. S \ {rp} = {z \in Chain[h] : z \in Chain[p] \/ y \in Chain[z]} \cup Top
    BY Zenon, <1>6, <1>7, <2>5, <2>6
  <2>8. Linked(next', {z \in Chain[h] : z \in Chain[p] \/ y \in Chain[z]} \cup Top)
    BY Zenon, <1>8, <2>7
  <2> QED  BY Zenon, <1>1, <2>2, <2>4, <2>8 DEF ClearAt, y
<1>12. CASE next[rp] = None
  BY Zenon, <1>1, <1>2, <1>5, <1>9, <1>10, <1>12, LinkInside
<1>13. CASE next[rp] # None
  BY Zenon, <1>1, <1>2, <1>3, <1>9, <1>11, <1>13, LinkInside
<1> QED  BY Zenon, <1>12, <1>13

(* LoadDB links a chain the same way.                                      *)
LEMMA LinksFacts ==
  ASSUME NEW b \in Block
  PROVE  /\ Linked(Links[b], Chain[b])
         /\ \A n \in [Block -> Block \cup {None}] : Linked(n, Chain[b]) => n = Links[b]
<1> DEFINE C(x) == {y \in Chain[b] \ {Genesis} : Parent[y] = x}
<1>1. /\ Links[b] \in [Block -> Block \cup {None}]
      /\ \A x \in Block : C(x) = {} => Links[b][x] = None
      /\ \A x \in Block : C(x) # {} => Links[b][x] \in C(x)
  <2>1. \A x \in Block : Links[b][x] = IF \E y \in Chain[b] \ {Genesis} : Parent[y] = x
                            THEN CHOOSE y \in Chain[b] \ {Genesis} : Parent[y] = x ELSE None
    BY Zenon DEF Links
  <2>2. /\ \A x \in Block : C(x) = {} => Links[b][x] = None
        /\ \A x \in Block : C(x) # {} => Links[b][x] \in C(x)
    BY <2>1
  <2>3. \A x \in Block : Links[b][x] \in Block \cup {None}
    BY Zenon, <2>2, ChainFacts
  <2> QED  BY Zenon, <2>2, <2>3 DEF Links
<1>2. \A x \in Block : \A y, z \in C(x) : y = z
  BY ChildFacts, ChainFacts
<1>3. None \notin Block
  BY Zenon, BlockTree
<1>4. Linked(Links[b], Chain[b])
  BY <1>1, <1>2, <1>3 DEF Linked
<1>5. ASSUME NEW n \in [Block -> Block \cup {None}], Linked(n, Chain[b])  PROVE n = Links[b]
  <2>1. ASSUME NEW x \in Block  PROVE n[x] = Links[b][x]
    <3>1. n[x] \in Block \cup {None} /\ Links[b][x] \in Block \cup {None}
      BY Zenon, <1>1
    <3>2. \A y \in Block : n[x] = y <=> Links[b][x] = y
      BY <1>4, <1>5 DEF Linked
    <3> QED  BY Zenon, <1>3, <3>1, <3>2
  <2> QED  BY <1>1, <2>1
<1> QED  BY Zenon, <1>4, <1>5

-----------------------------------------------------------------------------
(* The other steps: flushes, stops, repair and start.                      *)

LEMMA FlushUnspentInv ==
  ASSUME Inv, FlushUnspent
  PROVE  Inv'
<1> USE DEF Inv
<1>1. TypeOK'
  BY Zenon DEF TypeOK, FlushUnspent
<1>2. FilesInv'
  BY Zenon, FilesKept DEF FlushUnspent
<1>3. LockInv'
  BY Zenon DEF TypeOK, LockInv, FlushUnspent
<1>4. UpInv'
  BY Zenon DEF UpInv, TxExact, TxIndexed, FlushUnspent
<1>5. ViewInv' /\ BranchInv'
  <2>1. ASSUME NEW u \in Thread  PROVE ViewOf(u)'
    BY Zenon, ViewKept DEF ViewInv, ViewOf, FlushUnspent
  <2>2. ASSUME NEW u \in Thread  PROVE BranchOf(u)'
    BY Zenon DEF BranchInv, BranchOf, StoredBlocks, FlushUnspent
  <2> QED  BY Zenon, <2>1, <2>2 DEF ViewInv, BranchInv
<1>6. TrustInv'
  BY Zenon DEF TrustInv, FlushUnspent
<1>7. RepairInv'
  BY Zenon, RepairDone DEF FlushUnspent
<1> QED  BY Zenon, <1>1, <1>2, <1>3, <1>4, <1>5, <1>6, <1>7

LEMMA FlushTxIndexInv ==
  ASSUME Inv, FlushTxIndex
  PROVE  Inv'
<1> USE DEF Inv
<1>1. TypeOK'
  BY Zenon DEF TypeOK, FlushTxIndex
<1>2. FilesInv'
  BY Zenon, FilesKept DEF FlushTxIndex
<1>3. LockInv'
  BY Zenon DEF TypeOK, LockInv, FlushTxIndex
<1>4. UpInv'
  BY Zenon DEF UpInv, TxExact, TxIndexed, FlushTxIndex
<1>5. ViewInv' /\ BranchInv'
  <2>1. ASSUME NEW u \in Thread  PROVE ViewOf(u)'
    BY Zenon, ViewKept DEF ViewInv, ViewOf, FlushTxIndex
  <2>2. ASSUME NEW u \in Thread  PROVE BranchOf(u)'
    BY Zenon DEF BranchInv, BranchOf, StoredBlocks, FlushTxIndex
  <2> QED  BY Zenon, <2>1, <2>2 DEF ViewInv, BranchInv
<1>6. TrustInv'
  BY Zenon DEF TrustInv, FlushTxIndex
<1>7. RepairInv'
  BY Zenon, RepairDone DEF FlushTxIndex
<1> QED  BY Zenon, <1>1, <1>2, <1>3, <1>4, <1>5, <1>6, <1>7

LEMMA CrashInv ==
  ASSUME Inv, Crash
  PROVE  Inv'
<1> USE DEF Inv
<1>1. TypeOK'
  <2>1. nCrash \in Nat /\ nCrash' = nCrash + 1
    BY Zenon DEF TypeOK, Crash, Stop, DropView, NoMarks, NoOpts
  <2>2. nCrash' \in Nat
    BY <2>1
  <2>3. exact' \in BOOLEAN
    BY Zenon DEF TypeOK, Crash, Stop, DropView, NoMarks, NoOpts
  <2> QED  BY <2>2, <2>3, NoneFact DEF TypeOK, Modes, Pcs, Crash, Stop, DropView, NoMarks, NoOpts
<1>2. FilesInv'
  BY Zenon, FilesKept DEF Crash, Stop, DropView, NoMarks, NoOpts
<1>3. LockInv'
  BY Zenon, NoneFact DEF TypeOK, LockInv, Pcs, Crash, Stop, DropView, NoMarks, NoOpts
<1>4. UpInv'
  BY Zenon DEF UpInv, Crash, Stop, DropView, NoMarks, NoOpts
<1>5. ViewInv' /\ BranchInv'
  <2>1. \A u \in Thread : pc'[u] \in {"idle", "ready"}
    BY Zenon DEF TypeOK, LockInv, Crash, Stop, DropView, NoMarks, NoOpts
  <2> QED  BY Zenon, <2>1, Outside
<1>6. TrustInv'
  <2>1. \A b \in index : ChainTrust[b] \in Nat /\ ChainTrust[dblast] \in Nat
    BY Zenon, BlockTrust DEF TypeOK
  <2> QED  BY <2>1 DEF TrustInv, Crash, Stop, DropView, NoMarks, NoOpts
<1>7. RepairInv'
  BY Zenon DEF RepairInv, Repairing, Crash, Stop, DropView, NoMarks, NoOpts
<1> QED  BY Zenon, <1>1, <1>2, <1>3, <1>4, <1>5, <1>6, <1>7

LEMMA HaltInv ==
  ASSUME Inv, Halt
  PROVE  Inv'
<1> USE DEF Inv
<1>a. dblast = last /\ TxExact(last) /\ \A t \in Thread : pc[t] \notin AdoptPcs
  BY Zenon DEF UpInv, AdoptPcs, Halt, Stop, DropView, NoMarks, NoOpts
<1>1. TypeOK'
  BY NoneFact DEF TypeOK, Modes, Pcs, Halt, Stop, DropView, NoMarks, NoOpts
<1>2. FilesInv'
  BY Zenon, FilesKept DEF Halt, Stop, DropView, NoMarks, NoOpts
<1>3. LockInv'
  BY Zenon, NoneFact DEF TypeOK, LockInv, Pcs, Halt, Stop, DropView, NoMarks, NoOpts
<1>4. UpInv'
  BY Zenon DEF UpInv, Halt, Stop, DropView, NoMarks, NoOpts
<1>5. ViewInv' /\ BranchInv'
  <2>1. \A u \in Thread : pc'[u] \in {"idle", "ready"}
    BY Zenon DEF TypeOK, LockInv, Halt, Stop, DropView, NoMarks, NoOpts
  <2> QED  BY Zenon, <2>1, Outside
<1>6. TrustInv'
  BY Zenon, <1>a DEF TrustInv, Halt, Stop, DropView, NoMarks, NoOpts
<1>7. RepairInv'
  <2>1. exact => \A t \in Tx \ TxsOf(Chain[dblast]) : txIndex[t] = None
    BY Zenon, <1>a DEF TxExact
  <2> QED  BY Zenon, <2>1 DEF RepairInv, Repairing, Halt, Stop, DropView, NoMarks, NoOpts
<1> QED  BY Zenon, <1>1, <1>2, <1>3, <1>4, <1>5, <1>6, <1>7

LEMMA HaltDirtyInv ==
  ASSUME Inv, HaltDirty
  PROVE  Inv'
<1> USE DEF Inv
<1>1. TypeOK'
  BY NoneFact DEF TypeOK, Modes, Pcs, HaltDirty, Stop, DropView, NoMarks, NoOpts
<1>2. FilesInv'
  BY Zenon, FilesKept DEF HaltDirty, Stop, DropView, NoMarks, NoOpts
<1>3. LockInv'
  BY Zenon, NoneFact DEF TypeOK, LockInv, Pcs, HaltDirty, Stop, DropView, NoMarks, NoOpts
<1>4. UpInv'
  BY Zenon DEF UpInv, HaltDirty, Stop, DropView, NoMarks, NoOpts
<1>5. ViewInv' /\ BranchInv'
  <2>1. \A u \in Thread : pc'[u] \in {"idle", "ready"}
    BY Zenon DEF TypeOK, LockInv, HaltDirty, Stop, DropView, NoMarks, NoOpts
  <2> QED  BY Zenon, <2>1, Outside
<1>6. TrustInv'
  BY Zenon DEF TrustInv, HaltDirty, Stop, DropView, NoMarks, NoOpts
<1>7. RepairInv'
  BY Zenon DEF RepairInv, Repairing, HaltDirty, Stop, DropView, NoMarks, NoOpts
<1> QED  BY Zenon, <1>1, <1>2, <1>3, <1>4, <1>5, <1>6, <1>7

LEMMA RepairForkInv ==
  ASSUME Inv, RepairFork
  PROVE  Inv'
<1> USE DEF Inv
<1>a. /\ Heaviest \in StoredBlocks /\ Heaviest \in Block /\ StoredBlocks \subseteq Block
      /\ \A b \in StoredBlocks : ChainTrust[b] <= ChainTrust[Heaviest]
  BY Zenon, HeaviestFact
<1>b. /\ StoredBlocks' = StoredBlocks /\ Heaviest' = Heaviest /\ DOMAIN stored' = DOMAIN stored
      /\ \A j : IsHeaviest(j)' <=> IsHeaviest(j)
  BY Zenon DEF StoredBlocks, Heaviest, IsHeaviest, RepairFork
<1>1. TypeOK'
  BY Zenon, <1>a DEF TypeOK, Modes, RepairFork
<1>2. FilesInv'
  BY Zenon, <1>a, <1>b DEF FilesInv, RepairFork
<1>3. LockInv'
  BY Zenon, NoneFact DEF TypeOK, LockInv, Pcs, RepairFork
<1>4. UpInv'
  BY Zenon DEF UpInv, RepairFork
<1>5. ViewInv' /\ BranchInv'
  <2>1. \A u \in Thread : pc'[u] \in {"idle", "ready"}
    BY Zenon DEF TypeOK, LockInv, RepairFork
  <2> QED  BY Zenon, <2>1, Outside
<1>6. TrustInv'
  BY Zenon, <1>a DEF TrustInv, FilesInv, RepairFork
<1>7. RepairInv'
  BY Zenon, <1>b DEF RepairInv, Repairing, RepairFork
<1> QED  BY Zenon, <1>1, <1>2, <1>3, <1>4, <1>5, <1>6, <1>7

LEMMA RepairUnspentInv ==
  ASSUME Inv, RepairUnspent
  PROVE  Inv'
<1> USE DEF Inv
<1>a. /\ Heaviest \in StoredBlocks /\ Heaviest \in Block /\ StoredBlocks \subseteq Block
      /\ \A b \in StoredBlocks : ChainTrust[b] <= ChainTrust[Heaviest]
  BY Zenon, HeaviestFact
<1>b. /\ StoredBlocks' = StoredBlocks /\ Heaviest' = Heaviest /\ DOMAIN stored' = DOMAIN stored
      /\ \A j : IsHeaviest(j)' <=> IsHeaviest(j)
  BY Zenon DEF StoredBlocks, Heaviest, IsHeaviest, RepairUnspent
<1>1. TypeOK'
  BY Zenon, <1>a, UtxoFacts DEF TypeOK, Modes, RepairUnspent
<1>2. FilesInv'
  BY Zenon, FilesKept DEF RepairUnspent
<1>3. LockInv'
  BY Zenon, NoneFact DEF TypeOK, LockInv, Pcs, RepairUnspent
<1>4. UpInv'
  BY Zenon DEF UpInv, RepairUnspent
<1>5. ViewInv' /\ BranchInv'
  <2>1. \A u \in Thread : pc'[u] \in {"idle", "ready"}
    BY Zenon DEF TypeOK, LockInv, RepairUnspent
  <2> QED  BY Zenon, <2>1, Outside
<1>6. TrustInv'
  BY Zenon DEF TrustInv, RepairUnspent
<1>7. RepairInv'
  BY Zenon, <1>b DEF RepairInv, Repairing, RepairUnspent
<1> QED  BY Zenon, <1>1, <1>2, <1>3, <1>4, <1>5, <1>6, <1>7

LEMMA RepairIndexInv ==
  ASSUME Inv, RepairIndex
  PROVE  Inv'
<1> USE DEF Inv
<1>a. /\ Heaviest \in StoredBlocks /\ Heaviest \in Block /\ StoredBlocks \subseteq Block
      /\ \A b \in StoredBlocks : ChainTrust[b] <= ChainTrust[Heaviest]
  BY Zenon, HeaviestFact
<1>b. /\ StoredBlocks' = StoredBlocks /\ Heaviest' = Heaviest /\ DOMAIN stored' = DOMAIN stored
      /\ \A j : IsHeaviest(j)' <=> IsHeaviest(j)
  BY Zenon DEF StoredBlocks, Heaviest, IsHeaviest, RepairIndex
<1>1. TypeOK'
  BY Zenon, <1>a DEF TypeOK, Modes, RepairIndex
<1>2. FilesInv'
  BY Zenon, <1>b DEF FilesInv, RepairIndex
<1>3. LockInv'
  <2>1. owner' = None /\ \A u \in Thread : pc'[u] = "idle"
    BY Zenon DEF LockInv, RepairIndex
  <2> QED  BY Zenon, <2>1, NoneFact DEF LockInv
<1>4. UpInv'
  BY Zenon DEF UpInv, RepairIndex
<1>5. ViewInv' /\ BranchInv'
  <2>1. \A u \in Thread : pc'[u] \in {"idle", "ready"}
    BY Zenon DEF TypeOK, LockInv, RepairIndex
  <2> QED  BY Zenon, <2>1, Outside
<1>6. TrustInv'
  <2>1. dblast = Heaviest /\ dblast' = dblast /\ index' = StoredBlocks /\ mode' # "up"
    BY Zenon DEF RepairInv, Repairing, RepairIndex
  <2> QED  BY Zenon, <1>a, <2>1 DEF TrustInv
<1>7. RepairInv'
  BY Zenon, <1>b DEF RepairInv, Repairing, RepairIndex
<1> QED  BY Zenon, <1>1, <1>2, <1>3, <1>4, <1>5, <1>6, <1>7

LEMMA RepairTxIndexInv ==
  ASSUME Inv, RepairTxIndex
  PROVE  Inv'
<1> USE DEF Inv
<1>a. /\ Heaviest \in StoredBlocks /\ Heaviest \in Block /\ StoredBlocks \subseteq Block
      /\ \A b \in StoredBlocks : ChainTrust[b] <= ChainTrust[Heaviest]
  BY Zenon, HeaviestFact
<1>b. /\ StoredBlocks' = StoredBlocks /\ Heaviest' = Heaviest /\ DOMAIN stored' = DOMAIN stored
      /\ \A j : IsHeaviest(j)' <=> IsHeaviest(j)
  BY Zenon DEF StoredBlocks, Heaviest, IsHeaviest, RepairTxIndex
<1>c. Heaviest \in Sound /\ Chain[Heaviest] \subseteq Block /\ dblast = Heaviest
  BY Zenon, <1>a, ChainFacts DEF FilesInv, RepairInv, Repairing, RepairTxIndex
<1>d. ASSUME NEW x \in Tx
      PROVE  txIndex'[x] = IF x \in TxsOf(Chain[Heaviest])
                             THEN CHOOSE b \in Chain[Heaviest] : x \in Txs[b]
                             ELSE txStable[x]
  BY Zenon DEF RepairTxIndex
<1>e. ASSUME NEW y \in Chain[Heaviest], NEW x \in Txs[y]  PROVE txIndex'[x] = y
  <2>1. x \in Tx /\ x \in TxsOf(Chain[Heaviest])
    <3>1. y \in Block
      BY Zenon, <1>c
    <3>2. x \in Tx
      BY Zenon, <1>e, <3>1, TxFacts
    <3> QED  BY Zenon, <1>e, <3>2 DEF TxsOf
  <2>2. \A b \in Chain[Heaviest] : x \in Txs[b] => b = y
    BY Zenon, <1>c DEF Sound
  <2>3. (CHOOSE b \in Chain[Heaviest] : x \in Txs[b]) = y
    BY Zenon, <2>2
  <2> QED  BY Zenon, <1>d, <2>1, <2>3
<1>1. TypeOK'
  <2>1. \A x \in Tx : txIndex'[x] \in Block \cup {None}
    <3> SUFFICES ASSUME NEW x \in Tx  PROVE txIndex'[x] \in Block \cup {None}
      BY Zenon
    <3>1. CASE x \in TxsOf(Chain[Heaviest])
      BY Zenon, <1>c, <1>e, <3>1 DEF TxsOf
    <3>2. CASE x \notin TxsOf(Chain[Heaviest])
      BY Zenon, <1>d, <3>2 DEF TypeOK
    <3> QED  BY Zenon, <3>1, <3>2
  <2>2. txIndex' \in [Tx -> Block \cup {None}] /\ txStable' = txIndex'
    BY Zenon, <2>1 DEF RepairTxIndex
  <2> QED  BY Zenon, <2>2 DEF TypeOK, Modes, RepairTxIndex
<1>2. FilesInv'
  BY Zenon, FilesKept DEF RepairTxIndex
<1>3. LockInv'
  BY Zenon, NoneFact DEF TypeOK, LockInv, Pcs, RepairTxIndex
<1>4. UpInv'
  BY Zenon DEF UpInv, RepairTxIndex
<1>5. ViewInv' /\ BranchInv'
  <2>1. \A u \in Thread : pc'[u] \in {"idle", "ready"}
    BY Zenon DEF TypeOK, LockInv, RepairTxIndex
  <2> QED  BY Zenon, <2>1, Outside
<1>6. TrustInv'
  BY Zenon DEF TrustInv, RepairTxIndex
<1>7. RepairInv'
  <2>1. TxIndexed(dblast)'
    BY Zenon, <1>c, <1>e DEF TxIndexed, RepairTxIndex
  <2>2. exact => \A x \in Tx \ TxsOf(Chain[dblast]) : txIndex'[x] = None
    BY Zenon, <1>c, <1>d DEF RepairInv, RepairTxIndex
  <2>3. /\ unspent' = unspent /\ stable' = stable /\ frozen' = frozen /\ txIndex' = txStable'
        /\ dblast' = dblast /\ index' = index /\ exact' = exact /\ mode' = "repaired"
        /\ mode = "repair txindex"
    BY Zenon DEF RepairTxIndex
  <2> QED  BY Zenon, <1>b, <1>c, <2>1, <2>2, <2>3 DEF RepairInv, Repairing
<1> QED  BY Zenon, <1>1, <1>2, <1>3, <1>4, <1>5, <1>6, <1>7

LEMMA RepairStopsInv ==
  ASSUME Inv, RepairStops
  PROVE  Inv'
<1> USE DEF Inv
<1>1. TypeOK'
  <2>1. nCrash \in Nat /\ nCrash' = nCrash + 1
    BY Zenon DEF TypeOK, RepairStops
  <2>2. nCrash' \in Nat
    BY <2>1
  <2>3. exact' \in BOOLEAN
    BY Zenon DEF TypeOK, RepairStops
  <2> QED  BY Zenon, <2>2, <2>3, NoneFact DEF TypeOK, Modes, Pcs, RepairStops
<1>2. FilesInv'
  BY Zenon, FilesKept DEF RepairStops
<1>3. LockInv'
  BY Zenon, NoneFact DEF TypeOK, LockInv, Pcs, RepairStops
<1>4. UpInv'
  BY Zenon DEF UpInv, RepairStops
<1>5. ViewInv' /\ BranchInv'
  <2>1. \A u \in Thread : pc'[u] \in {"idle", "ready"}
    BY Zenon DEF TypeOK, LockInv, RepairStops
  <2> QED  BY Zenon, <2>1, Outside
<1>6. TrustInv'
  BY Zenon DEF TrustInv, RepairStops
<1>7. RepairInv'
  BY Zenon DEF RepairInv, Repairing, RepairStops
<1> QED  BY Zenon, <1>1, <1>2, <1>3, <1>4, <1>5, <1>6, <1>7

LEMMA StartInv ==
  ASSUME Inv, Start
  PROVE  Inv'
<1> USE DEF Inv
<1>a. /\ dblast \in index /\ mode # "up" /\ \A t \in Thread : pc[t] = "idle"
      /\ exact => \A t \in Tx \ TxsOf(Chain[dblast]) : txIndex[t] = None
      /\ last' = dblast /\ dblast' = dblast /\ txIndex' = txIndex /\ pc' = pc /\ index' = index
      /\ unspent' = unspent /\ exact' = exact /\ broken' = broken
      /\ mode' = "up" => unspent = Utxo[dblast] /\ TxIndexed(dblast)
      /\ mode' \in {"up", "dirty"}
  BY Zenon DEF LockInv, RepairInv, Start
<1>1. TypeOK'
  <2>1. Links[dblast] \in [Block -> Block \cup {None}]
    <3>1. \A x \in Block : Links[dblast][x] \in Block \cup {None}
      BY Zenon, ChainFacts DEF Links, TypeOK
    <3> QED  BY Zenon, <3>1 DEF Links, TypeOK
  <2> QED  BY Zenon, <1>a, <2>1 DEF TypeOK, Modes, Start
<1>2. FilesInv'
  BY Zenon, FilesKept DEF Start
<1>3. LockInv'
  BY Zenon, <1>a DEF LockInv, Start
<1>4. UpInv'
  <2> SUFFICES ASSUME mode' = "up"  PROVE UpInv'
    BY Zenon DEF UpInv
  <2>1. TxExact(last)'
    BY Zenon, <1>a DEF TxExact, TxIndexed
  <2>2. last' \in index' /\ unspent' = Utxo[last'] /\ dblast' = last'
    BY Zenon, <1>a
  <2>3. \A t \in Thread : pc'[t] = "idle"
    BY Zenon, <1>a
  <2> QED  BY Zenon, <2>1, <2>2, <2>3 DEF UpInv
<1>5. ViewInv' /\ BranchInv'
  <2>1. \A u \in Thread : pc'[u] \in {"idle", "ready"}
    BY Zenon DEF TypeOK, LockInv, Start
  <2> QED  BY Zenon, <2>1, Outside
<1>6. TrustInv'
  BY Zenon, <1>a DEF TrustInv
<1>7. RepairInv'
  <2>1. stable' = stable /\ frozen' = frozen /\ txStable' = txStable
    BY Zenon DEF Start
  <2> QED  BY Zenon, <1>a, <2>1 DEF RepairInv, Repairing
<1> QED  BY Zenon, <1>1, <1>2, <1>3, <1>4, <1>5, <1>6, <1>7

-----------------------------------------------------------------------------
(* The invariant holds, and with it what the runs check.                   *)

LEMMA GenesisSound == Genesis \in Sound
<1>1. Chain[Genesis] = {Genesis} /\ Genesis \in Block
  BY Zenon, BlockTree
<1>2. \A t \in Txs[Genesis] : Ins[t] = {}
  BY Zenon, BlockContent
<1>3. ChainSpent[Genesis] = {}
  BY Zenon, <1>1, <1>2, UtxoFacts, TxFacts
<1>4. TxsOf(Chain[Genesis]) = Txs[Genesis]
  BY Zenon, <1>1 DEF TxsOf
<1> QED  BY Zenon, <1>1, <1>2, <1>3, <1>4 DEF Sound

LEMMA InitInv == ASSUME Init  PROVE Inv
<1> USE DEF Init
<1>0. /\ Genesis \in Block /\ Chain[Genesis] = {Genesis} /\ None \notin Thread
      /\ Utxo[Genesis] \subseteq Out /\ Txs[Genesis] \subseteq Tx
  BY Zenon, BlockTree, UtxoFacts, TxFacts
<1>a. \A t \in Thread : pc[t] = "idle"
  BY Zenon
<1>1. TypeOK
  <2>1. stored \in Seq(Block) /\ path \in Seq(Block)
    BY <1>0
  <2>2. txIndex \in [Tx -> Block \cup {None}]
    BY Zenon, <1>0
  <2> QED  BY <1>0, <2>1, <2>2 DEF TypeOK, Pcs, Modes, NoMarks, NoOpts
<1>2. FilesInv
  <2>1. stored[1] = Genesis /\ DOMAIN stored = {1}
    OBVIOUS
  <2>2. StoredBlocks = {Genesis}
    BY Zenon, <2>1 DEF StoredBlocks
  <2>3. IsHeaviest(1)
    BY <2>1 DEF IsHeaviest
  <2> QED  BY Zenon, <1>0, <2>1, <2>2, <2>3, GenesisSound DEF FilesInv
<1>3. LockInv
  BY Zenon, <1>0, <1>a DEF LockInv
<1>4. UpInv
  <2>1. TxsOf(Chain[Genesis]) = Txs[Genesis]
    BY Zenon, <1>0 DEF TxsOf
  <2>2. TxExact(Genesis)
    BY Zenon, <1>0, <2>1 DEF TxExact, TxIndexed
  <2> QED  BY Zenon, <1>a, <2>2 DEF UpInv
<1>5. ViewInv /\ BranchInv
  BY Zenon, <1>a DEF ViewInv, ViewOf, BranchInv, BranchOf, ViewPcs, AddedPcs, AdoptPcs
<1>6. TrustInv
  <2>1. ChainTrust[Genesis] \in Nat
    BY Zenon, <1>0, BlockTrust
  <2>2. index = {Genesis} /\ last = Genesis /\ mode = "up"
    BY Zenon
  <2> HIDE DEF Init
  <2>3. ChainTrust[Genesis] <= ChainTrust[Genesis]
    BY <2>1
  <2> QED  BY Zenon, <2>2, <2>3 DEF TrustInv
<1>7. RepairInv
  BY Zenon DEF RepairInv, Repairing
<1> QED  BY Zenon, <1>1, <1>2, <1>3, <1>4, <1>5, <1>6, <1>7 DEF Inv

LEMMA StutterInv == ASSUME Inv, UNCHANGED vars  PROVE Inv'
<1> USE DEF Inv, vars
<1>1. TypeOK'
  BY Zenon DEF TypeOK
<1>2. FilesInv'
  BY Zenon, FilesKept
<1>3. LockInv' /\ UpInv' /\ TrustInv'
  BY ZenonT(40) DEF LockInv, UpInv, TrustInv, TxExact, TxIndexed
<1>4. ViewInv' /\ BranchInv'
  <2>1. ASSUME NEW u \in Thread  PROVE ViewOf(u)' /\ BranchOf(u)'
    BY Zenon, ViewKept DEF ViewInv, ViewOf, BranchInv, BranchOf, StoredBlocks
  <2> QED  BY Zenon, <2>1 DEF ViewInv, BranchInv
<1>5. RepairInv'
  <2>1. Heaviest' = Heaviest /\ StoredBlocks' = StoredBlocks
    BY Zenon DEF Heaviest, IsHeaviest, StoredBlocks
  <2> QED  BY Zenon, <2>1 DEF RepairInv, TxIndexed
<1> QED  BY Zenon, <1>1, <1>2, <1>3, <1>4, <1>5

LEMMA NextInv == ASSUME Inv, [Next]_vars  PROVE Inv'
<1>1. ASSUME NEW t \in Thread, Step(t)  PROVE Inv'
  BY Zenon, <1>1, LockViewInv, ViewBranchInv, RemoveBlockInv, StartAddInv, AddBlockInv, VerifyTxsInv,
     RejectTxsInv, WriteBlockInv, AlreadyKnownInv, AddIndexInv, ShortChainInv, LongChainInv,
     TxBranchInv, UpgradeToWriteInv, CommitForkInv, CommitTxIndexInv, CommitUnspentInv,
     RelinkInv, ClearNextInv, SetNextInv, FinishInv DEF Step
<1>2. ASSUME NEW t \in Thread, Fail(t)  PROVE Inv'
  BY Zenon, <1>2, AddIndexFailsInv, CommitForkFailsInv DEF Fail
<1>3. ASSUME NEW t \in Thread, NEW b \in Block, Offer(t, b)  PROVE Inv'
  BY Zenon, <1>3, OfferInv
<1>4. ASSUME Repair  PROVE Inv'
  BY Zenon, <1>4, RepairForkInv, RepairUnspentInv, RepairIndexInv, RepairTxIndexInv, RepairStopsInv
     DEF Repair
<1> QED
  BY Zenon, <1>1, <1>2, <1>3, <1>4, StutterInv, FlushUnspentInv, FlushTxIndexInv, CrashInv, HaltInv,
     HaltDirtyInv, StartInv DEF Next

(* LinkInv is inductive relative to Inv.                                   *)
LEMMA OtherLink ==
  ASSUME Inv, LinkInv, \/ \E t \in Thread, b \in Block : Offer(t, b)
                       \/ FlushUnspent \/ FlushTxIndex \/ Start
                       \/ Crash \/ Halt \/ HaltDirty \/ Repair \/ UNCHANGED vars
  PROVE  LinkInv'
<1> USE DEF Inv
<1>1. ASSUME NEW t \in Thread, NEW b \in Block, Offer(t, b)  PROVE LinkInv'
  <2>1. /\ pc[t] = "idle" /\ pc' = [pc EXCEPT ![t] = "ready"]
        /\ UNCHANGED <<mode, last, next, rn, rp>>
    BY Zenon, <1>1 DEF Offer, At, Goto
  <2>2. \A u \in Thread : \/ pc'[u] = pc[u]
                          \/ pc'[u] \notin LinkPcs /\ pc[u] \notin LinkPcs
    BY Zenon, <2>1 DEF TypeOK, LinkPcs
  <2> QED  BY Zenon, <2>1, <2>2 DEF LinkInv, RelinkAt, ClearAt, LinkPcs
<1>2. CASE FlushUnspent \/ FlushTxIndex \/ UNCHANGED vars
  <2>1. UNCHANGED <<mode, pc, last, next, rn, rp>>
    BY Zenon, <1>2 DEF FlushUnspent, FlushTxIndex, vars
  <2> QED  BY Zenon, <2>1 DEF LinkInv, LinkPcs, RelinkAt, ClearAt
<1>3. CASE Crash \/ Halt \/ HaltDirty \/ Repair
  <2>1. mode' \in Modes \ {"up"}
    BY Zenon, <1>3 DEF Modes, Crash, Halt, HaltDirty, Stop, Repair, RepairFork, RepairUnspent, RepairIndex,
       RepairTxIndex, RepairStops
  <2> QED  BY Zenon, <2>1 DEF LinkInv, LinkPcs
<1>4. CASE Start
  <2>1. /\ last' = dblast /\ next' = Links[dblast] /\ dblast \in Block
        /\ \A u \in Thread : pc'[u] = "idle"
    BY Zenon, <1>4 DEF Start, LockInv, TypeOK
  <2>2. Linked(next', Chain[last'])
    BY Zenon, <2>1, LinksFacts
  <2> QED  BY Zenon, <2>1, <2>2 DEF LinkInv, LinkPcs
<1> QED  BY Zenon, <1>1, <1>2, <1>3, <1>4

LEMMA NextLink == ASSUME Inv, LinkInv, [Next]_vars  PROVE LinkInv'
<1>1. ASSUME NEW t \in Thread, Step(t) \/ Fail(t)  PROVE LinkInv'
  BY Zenon, <1>1, StepLink, CommitUnspentLink, RelinkLink, ClearNextLink, SetNextLink, FinishLink
<1> QED  BY Zenon, <1>1, OtherLink DEF Next

LEMMA InitLink == ASSUME Init  PROVE LinkInv
<1>1. /\ last = Genesis /\ next = [b \in Block |-> None] /\ Chain[Genesis] = {Genesis}
      /\ None \notin Block /\ \A t \in Thread : pc[t] = "idle"
  BY Zenon, BlockTree DEF Init
<1>2. Linked(next, Chain[last])
  BY Zenon, <1>1 DEF Linked
<1> QED  BY Zenon, <1>1, <1>2 DEF LinkInv, LinkPcs

(* Every reachable state satisfies the invariant.                          *)
THEOREM Invariance == Spec => []Inv
<1>1. Init => Inv
  BY Zenon, InitInv
<1>2. Inv /\ [Next]_vars => Inv'
  BY Zenon, NextInv
<1> QED  BY <1>1, <1>2, PTL DEF Spec

(* The state of CBlockBase, CBlockFork and the view keeps its types.       *)
THEOREM TypeCorrect == Spec => []TypeOK
<1>1. Inv => TypeOK
  BY Zenon DEF Inv
<1> QED  BY <1>1, Invariance, PTL

(* A reader that holds the lock of the fork finds the fork database, the   *)
(* unspent outputs and the transaction index those of the last block.      *)
THEOREM Consistency == Spec => []ForkConsistent
<1>1. ASSUME Inv  PROVE ForkConsistent
  <2> SUFFICES ASSUME Readable
               PROVE  /\ dblast = last /\ last \in index /\ unspent = Utxo[last]
                      /\ TxIndexed(last)
                      /\ exact => \A t \in Tx \ TxsOf(Chain[last]) : txIndex[t] = None
    BY Zenon DEF ForkConsistent
  <2>1. mode = "up" /\ \A t \in Thread : pc[t] \notin {"txindex", "unspent"}
    <3>1. mode = "up" /\ ~Exclusive
      BY Zenon DEF Readable
    <3>2. ASSUME NEW t \in Thread, pc[t] \in {"txindex", "unspent"}  PROVE FALSE
      <4>1. owner = t
        BY Zenon, <1>1, <3>2 DEF Inv, LockInv
      <4> QED  BY Zenon, <3>1, <3>2, <4>1, NoneFact DEF Exclusive
    <3> QED  BY Zenon, <3>1, <3>2
  <2> QED  BY Zenon, <1>1, <2>1 DEF Inv, UpInv, TxExact
<1> QED  BY <1>1, Invariance, PTL

(* A reader that holds the lock of the fork finds pNext along the chain of *)
(* the last block and nowhere else, whatever UpdateNext had to undo.       *)
THEOREM Linkage == Spec => []MainChainLinked
<1>1. Init => LinkInv
  BY Zenon, InitLink
<1>2. Inv /\ LinkInv /\ [Next]_vars => LinkInv'
  BY Zenon, NextLink
<1>3. ASSUME Inv, LinkInv  PROVE MainChainLinked
  <2> SUFFICES ASSUME Readable  PROVE next = Links[last]
    BY Zenon DEF MainChainLinked
  <2>1. mode = "up" /\ ~Exclusive
    BY Zenon DEF Readable
  <2>2. ASSUME NEW t \in Thread, pc[t] \in LinkPcs  PROVE FALSE
    <3>1. owner = t
      BY Zenon, <1>3, <2>2 DEF Inv, LockInv, LinkPcs
    <3> QED  BY Zenon, <2>1, <2>2, <3>1, NoneFact DEF Exclusive, LinkPcs
  <2>3. Linked(next, Chain[last])
    BY Zenon, <1>3, <2>1, <2>2 DEF LinkInv
  <2>4. last \in Block /\ next \in [Block -> Block \cup {None}]
    BY Zenon, <1>3 DEF Inv, TypeOK
  <2> QED  BY Zenon, <2>3, <2>4, LinksFacts
<1> QED  BY <1>1, <1>2, <1>3, Invariance, PTL DEF Spec

(* A block is verified against the unspent outputs of its parent's chain.  *)
THEOREM Views == Spec => []ViewCorrect
<1>1. ASSUME Inv  PROVE ViewCorrect
  <2> SUFFICES ASSUME NEW t \in Thread, At(t, "add"), path = <<>>
               PROVE  ViewUnspent = Utxo[Parent[blk[t]]]
    BY ZenonT(40) DEF ViewCorrect
  <2>1. cur = Parent[blk[t]] /\ Agrees(ViewUnspent, nOpt, unspent, cur)
    <3>1. pc[t] = "add" /\ ViewOf(t) /\ BranchOf(t)
      BY Zenon, <1>1 DEF Inv, ViewInv, BranchInv, At
    <3>2. Leads(path, Parent[blk[t]], cur) /\ Agrees(ViewUnspent, nOpt, unspent, cur)
      BY Zenon, <3>1 DEF ViewOf, BranchOf, ViewPcs
    <3> QED  BY <3>2 DEF Leads
  <2>2. cur \in Block
    BY Zenon, <1>1 DEF Inv, TypeOK
  <2> QED  BY Zenon, <2>1, <2>2, UtxoFacts DEF Agrees, ViewUnspent
<1> QED  BY <1>1, Invariance, PTL

(* No known block is heavier than the last one but for the exceptions      *)
(* BestChain names.                                                        *)
THEOREM Heaviness == Spec => []BestChain
<1>1. ASSUME Inv  PROVE BestChain
  <2> SUFFICES ASSUME Readable, NEW b \in index
               PROVE  \/ ChainTrust[b] <= ChainTrust[last]
                      \/ b \in broken
                      \/ \E t \in Thread : pc[t] \in {"choose", "rebranch"} /\ blk[t] = b
    BY Zenon DEF BestChain
  <2>1. mode = "up" /\ ~Exclusive
    BY Zenon DEF Readable
  <2>2. ASSUME NEW t \in Thread, pc[t] \in AdoptPcs  PROVE pc[t] \in {"choose", "rebranch"}
    <3>1. owner = t
      BY Zenon, <1>1, <2>2 DEF Inv, LockInv, AdoptPcs
    <3> QED  BY Zenon, <2>1, <2>2, <3>1, NoneFact DEF Exclusive, AdoptPcs
  <2> QED  BY Zenon, <1>1, <2>1, <2>2 DEF Inv, TrustInv
<1> QED  BY <1>1, Invariance, PTL

(* Whatever threads, forks and crashes do, no chain in the block file      *)
(* spends an output twice.                                                 *)
THEOREM Soundness == Spec => []NoDoubleSpend
<1>1. Inv => NoDoubleSpend
  BY Zenon DEF Inv, FilesInv, NoDoubleSpend
<1> QED  BY <1>1, Invariance, PTL

(* A finished repair leaves databases that agree on the heaviest block.    *)
THEOREM RepairWorks == Spec => []RepairRestores
<1>1. ASSUME Inv  PROVE RepairRestores
  <2> SUFFICES ASSUME mode = "repaired"
               PROVE  /\ dblast \in index /\ index = StoredBlocks
                      /\ unspent = Utxo[dblast] /\ TxIndexed(dblast)
                      /\ \A b \in StoredBlocks : ChainTrust[b] <= ChainTrust[dblast]
    BY Zenon DEF RepairRestores
  <2>1. /\ dblast = Heaviest /\ index = StoredBlocks /\ unspent = Utxo[dblast]
        /\ TxIndexed(dblast)
    BY Zenon, <1>1 DEF Inv, RepairInv, Repairing
  <2> QED  BY Zenon, <1>1, <2>1, HeaviestFact DEF Inv
<1> QED  BY <1>1, Invariance, PTL

(* The last block is never replaced by a lighter one.                      *)
THEOREM Monotonic == Spec => NeverLighter
<1> DEFINE Keeps == dblast' # dblast => \/ ChainTrust[dblast'] > ChainTrust[dblast]
                                        \/ mode # "up" /\ ChainTrust[dblast'] = ChainTrust[dblast]
<1>1. ASSUME Inv, Next  PROVE Keeps
  <2>1. ASSUME NEW t \in Thread, CommitFork(t)  PROVE Keeps
    <3>1. pc[t] = "fork" /\ dblast' = blk[t] /\ mode = "up"
      BY Zenon, <2>1 DEF CommitFork, At
    <3>2. ChainTrust[last] < ChainTrust[blk[t]]
      BY Zenon, <1>1, <3>1 DEF Inv, BranchInv, BranchOf, AdoptPcs
    <3>3. \A u \in Thread : u # t => pc[u] \in {"idle", "ready"}
      BY Zenon, <1>1, <3>1, Alone DEF Inv
    <3>4. dblast = last
      BY Zenon, <1>1, <3>1, <3>3 DEF Inv, UpInv
    <3> QED  BY Zenon, <1>1, <3>1, <3>2, <3>4, BlockTrust DEF Inv, TypeOK
  <2>2. ASSUME RepairFork  PROVE Keeps
    <3>1. dblast' = Heaviest /\ mode # "up"
      BY Zenon, <2>2 DEF RepairFork
    <3>2. ChainTrust[dblast] <= ChainTrust[Heaviest] /\ Heaviest \in Block /\ dblast \in Block
      <4>1. TypeOK /\ FilesInv /\ dblast \in Block /\ dblast \in StoredBlocks
        BY Zenon, <1>1 DEF Inv, FilesInv, TypeOK
      <4> QED  BY Zenon, <4>1, HeaviestFact
    <3> QED  BY <3>1, <3>2, BlockTrust
  <2>3. \/ dblast' = dblast \/ RepairFork \/ \E t \in Thread : CommitFork(t)
    BY ZenonT(60), <1>1 DEF Next, Step, Fail, Repair, Offer, LockView, ViewBranch, RemoveBlock, StartAdd,
       AddBlock, VerifyTxs, RejectTxs, WriteBlock, AlreadyKnown, AddIndex, AddIndexFails,
       ShortChain, LongChain, TxBranch, UpgradeToWrite, CommitForkFails, CommitTxIndex,
       CommitUnspent, Relink, ClearNext, SetNext, Finish, FlushUnspent, FlushTxIndex, Crash,
       Halt, HaltDirty, Stop, RepairUnspent, RepairIndex, RepairTxIndex, RepairStops, Start
  <2> QED  BY Zenon, <2>1, <2>2, <2>3
<1>2. Inv /\ [Next]_vars => [Keeps]_vars
  BY Zenon, <1>1
<1> QED  BY <1>2, Invariance, PTL DEF Spec, NeverLighter
=============================================================================
