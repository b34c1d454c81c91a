----------------------------- MODULE BlockChain -----------------------------
(***************************************************************************)
(* The block chain of one fork: CBlockChain::AddNewBlock, run by several   *)
(* threads (network, block maker, RPC), on CBlockBase, CBlockView and      *)
(* CBlockFork, with CCheckRepairData, which rebuilds the databases after a *)
(* crash.  (src/src/minemon/blockchain.cpp, src/src/storage/blockbase.*,   *)
(* src/src/storage/blockdb.cpp, src/src/minemon/checkrepair.cpp)           *)
(*                                                                         *)
(* A block is its hash, so what it contains is constant.  Checks that      *)
(* look only at the block and its ancestors are left to the choice of the  *)
(* blocks; a block that fails them changes nothing.  The view belongs to   *)
(* the thread that holds the upgrade lock of the fork.                     *)
(***************************************************************************)
EXTENDS Blocks

CONSTANTS MaxCrash, MaxFault   \* bounds: crashes, failed writes

ASSUME BoundsNat == MaxCrash \in Nat /\ MaxFault \in Nat

VARIABLES
  stored,                \* the block file, in the order of writing
  index,                 \* mapIndex and the block index database
  dblast, last,          \* last block in the fork database, in CBlockFork
  next,                  \* pNext
  unspent, txIndex,      \* unspent outputs; block of each indexed transaction
  frozen,                \* the unspent outputs the next flush writes
  stable, txStable,      \* what a crash leaves
  pc, blk,               \* per thread: position, block to add
  owner,                 \* holder of the upgrade lock of the fork
  ref, idx, path,        \* GetBranch: pIndexRef, pIndex, vPath
  cur, mark, nOpt,       \* view: block it stands at, mapUnspent
  rem, add,              \* view: vBlockRemove, vBlockAddNew
  rn, rp,                \* UpdateNext: pIndexNext, p
  mode, broken,          \* process state; blocks whose commit was interrupted
  exact,                 \* history: no crash and no repair so far
  nCrash, nFault

files == <<stored, index, dblast, frozen, stable, txStable>>
forkVars == <<last, next, unspent, txIndex>>
branchVars == <<ref, idx, path>>
viewVars == <<cur, mark, nOpt, rem, add>>
linkVars == <<rn, rp>>
faultVars == <<broken, exact, nCrash, nFault>>
vars == <<files, forkVars, pc, blk, owner, branchVars, viewVars, linkVars, mode, faultVars>>

-----------------------------------------------------------------------------
Ind(p) == IF p THEN 1 ELSE 0

(* CBlockView::RetrieveUnspent: what the view or, below it, the database   *)
(* has.                                                                    *)
ViewUnspent == {o \in Out : mark[o] = "enabled" \/ (mark[o] = "none" /\ o \in unspent)}

NoMarks == [o \in Out |-> "none"]
NoOpts == [o \in Out |-> 0]

Init ==
  /\ stored = <<Genesis>> /\ index = {Genesis}
  /\ dblast = Genesis /\ last = Genesis
  /\ next = [b \in Block |-> None]
  /\ unspent = Utxo[Genesis] /\ frozen = unspent /\ stable = unspent
  /\ txIndex = [t \in Tx |-> IF t \in Txs[Genesis] THEN Genesis ELSE None]
  /\ txStable = txIndex
  /\ pc = [t \in Thread |-> "idle"] /\ blk = [t \in Thread |-> Genesis]
  /\ owner = None
  /\ ref = Genesis /\ idx = Genesis /\ path = <<>>
  /\ cur = Genesis /\ mark = NoMarks /\ nOpt = NoOpts /\ rem = {} /\ add = {}
  /\ rn = Genesis /\ rp = None
  /\ mode = "up" /\ broken = {} /\ exact = TRUE /\ nCrash = 0 /\ nFault = 0

-----------------------------------------------------------------------------
At(t, p) == mode = "up" /\ pc[t] = p
Goto(t, p) == pc' = [pc EXCEPT ![t] = p]

(* The view goes out of scope.                                             *)
DropView ==
  /\ owner' = None
  /\ ref' = Genesis /\ idx' = Genesis /\ path' = <<>>
  /\ cur' = Genesis /\ mark' = NoMarks /\ nOpt' = NoOpts /\ rem' = {} /\ add' = {}
  /\ rn' = Genesis /\ rp' = None

(* AddNewBlock returns.                                                    *)
Release(t) == Goto(t, "idle") /\ DropView

(* UpgradeToWrite to the end of AddNewBlock: no reader of the fork.        *)
Exclusive == owner # None /\ pc[owner] \in {"fork", "txindex", "unspent", "relink", "clear"}

(* AddNewBlock up to GetBlockView: the block is not known, its parent is.  *)
Offer(t, b) ==
  /\ At(t, "idle")
  /\ b \notin index /\ b # Genesis /\ Parent[b] \in index
  /\ blk' = [blk EXCEPT ![t] = b]
  /\ Goto(t, "ready")
  /\ UNCHANGED <<files, forkVars, owner, branchVars, viewVars, linkVars, mode, faultVars>>

(* GetBlockView: CBlockView::Initialize takes the upgrade lock, and        *)
(* GetBranch starts from the last block and the parent of the new one.     *)
LockView(t) ==
  /\ At(t, "ready") /\ owner = None
  /\ owner' = t
  /\ ref' = last /\ idx' = Parent[blk[t]] /\ path' = <<>>
  /\ cur' = last /\ mark' = NoMarks /\ nOpt' = NoOpts /\ rem' = {} /\ add' = {}
  /\ Goto(t, "branch")
  /\ UNCHANGED <<files, forkVars, blk, linkVars, mode, faultVars>>

(* One round of the loop of GetBranch, which compares times, not heights:  *)
(* of two blocks of one time both are left behind, even if one descends    *)
(* from the other.                                                         *)
GetBranch ==
  /\ idx # ref
  /\ ref' = IF Time[ref] >= Time[idx] THEN Parent[ref] ELSE ref
  /\ IF Time[idx] >= Time[ref]
       THEN idx' = Parent[idx] /\ path' = Append(path, idx)
       ELSE UNCHANGED <<idx, path>>

ViewBranch(t) ==
  /\ At(t, "branch") /\ GetBranch
  /\ UNCHANGED <<files, forkVars, pc, blk, owner, viewVars, linkVars, mode, faultVars>>

(* Mutant: the outputs a removed block spent stay spent.                   *)
ViewRemoveKeepsSpent(x) ==
  /\ mark' = [o \in Out |-> IF o \in Created[x] THEN "spent" ELSE mark[o]]
  /\ nOpt' = [o \in Out |-> nOpt[o] - Ind(o \in Created[x])]

(* RemoveTx on the transactions of x, last one first: outputs created by   *)
(* x are disabled, outputs it spent enabled.                               *)
ViewRemove(x) ==
  /\ mark' = [o \in Out |-> CASE o \in Created[x] -> "spent"
                             [] o \in Spent[x] \ Created[x] -> "enabled"
                             [] OTHER -> mark[o]]
  /\ nOpt' = [o \in Out |-> nOpt[o] + Ind(o \in Spent[x]) - Ind(o \in Created[x])]

(* AddTx on the transactions of x in their order.                          *)
ViewAdd(x) ==
  /\ mark' = [o \in Out |-> CASE o \in Spent[x] -> "spent"
                             [] o \in Created[x] \ Spent[x] -> "enabled"
                             [] OTHER -> mark[o]]
  /\ nOpt' = [o \in Out |-> nOpt[o] + Ind(o \in Created[x]) - Ind(o \in Spent[x])]

(* GetBlockView, first loop: from the last block back to the branch.       *)
RemoveBlock(t) ==
  /\ At(t, "branch") /\ idx = ref /\ cur # ref
  /\ ViewRemove(cur)
  /\ cur' = Parent[cur] /\ rem' = rem \cup {cur}
  /\ UNCHANGED <<files, forkVars, pc, blk, owner, branchVars, add, linkVars, mode, faultVars>>

(* GetBlockView, second loop: vPath from its end, the oldest block, on.    *)
StartAdd(t) ==
  /\ At(t, "branch") /\ idx = ref /\ cur = ref
  /\ Goto(t, "add")
  /\ UNCHANGED <<files, forkVars, blk, owner, branchVars, viewVars, linkVars, mode, faultVars>>

AddBlock(t) ==
  /\ At(t, "add") /\ path # <<>>
  /\ LET x == path[Len(path)] IN
       /\ ViewAdd(x)
       /\ cur' = x /\ add' = add \cup {x}
  /\ path' = SubSeq(path, 1, Len(path) - 1)
  /\ UNCHANGED <<files, forkVars, pc, blk, owner, ref, idx, rem, linkVars, mode, faultVars>>

(* Mutant: all transactions are looked up before the first is applied.     *)
TxsValidBeforeAll(b) ==
  \A j \in DOMAIN Vtx[b] :
    Ins[Vtx[b][j]] \subseteq ViewUnspent \cup UNION {Outs[Vtx[b][i]] : i \in 1..(j - 1)}

(* GetTxContxt and AddTx for each transaction of b in turn: its inputs are *)
(* unspent in the view, as the transactions before it have left it.        *)
TxsValid(b) ==
  \A j \in DOMAIN Vtx[b] :
    Ins[Vtx[b][j]] \subseteq
      (ViewUnspent \cup UNION {Outs[Vtx[b][i]] : i \in 1..(j - 1)})
        \ UNION {Ins[Vtx[b][i]] : i \in 1..(j - 1)}

VerifyTxs(t) ==
  /\ At(t, "add") /\ path = <<>> /\ TxsValid(blk[t])
  /\ ViewAdd(blk[t])
  /\ cur' = blk[t] /\ add' = add \cup {blk[t]}
  /\ Goto(t, "write")
  /\ UNCHANGED <<files, forkVars, blk, owner, branchVars, rem, linkVars, mode, faultVars>>

RejectTxs(t) ==
  /\ At(t, "add") /\ path = <<>> /\ ~TxsValid(blk[t])
  /\ Release(t)
  /\ UNCHANGED <<files, forkVars, blk, mode, faultVars>>

(* CBlockBase::AddNew looks again whether the block is known, another      *)
(* thread may have added it, and writes it to the block file.              *)
WriteBlock(t) ==
  /\ At(t, "write") /\ blk[t] \notin index
  /\ stored' = Append(stored, blk[t])
  /\ Goto(t, "index")
  /\ UNCHANGED <<index, dblast, frozen, stable, txStable, forkVars, blk, owner, branchVars,
                 viewVars, linkVars, mode, faultVars>>

AlreadyKnown(t) ==
  /\ At(t, "write") /\ blk[t] \in index
  /\ Release(t)
  /\ UNCHANGED <<files, forkVars, blk, mode, faultVars>>

(* AddNewIndex and the write to the block index database.                  *)
AddIndex(t) ==
  /\ At(t, "index")
  /\ index' = index \cup {blk[t]}
  /\ Goto(t, "choose")
  /\ UNCHANGED <<stored, dblast, frozen, stable, txStable, forkVars, blk, owner, branchVars,
                 viewVars, linkVars, mode, faultVars>>

(* A write between the block file and the index failed; the file keeps the *)
(* block.                                                                  *)
AddIndexFails(t) ==
  /\ At(t, "index") /\ nFault < MaxFault
  /\ nFault' = nFault + 1
  /\ Release(t)
  /\ UNCHANGED <<files, forkVars, blk, mode, broken, exact, nCrash>>

-----------------------------------------------------------------------------
(* Mutant: a chain that is heavier by the least amount is left aside.      *)
ShortChainOffByOne(t) ==
  /\ At(t, "choose") /\ ChainTrust[last] + 1 >= ChainTrust[blk[t]]
  /\ Release(t)
  /\ UNCHANGED <<files, forkVars, blk, mode, faultVars>>

(* AddNewBlock: the chain of the new block is not heavier.  IsEquivalent   *)
(* holds for no two primary blocks.                                        *)
ShortChain(t) ==
  /\ At(t, "choose") /\ ChainTrust[last] >= ChainTrust[blk[t]]
  /\ Release(t)
  /\ UNCHANGED <<files, forkVars, blk, mode, faultVars>>

(* Mutant: a chain of the same weight is adopted.                          *)
LongChainOrEqual(t) ==
  /\ At(t, "choose") /\ ChainTrust[last] <= ChainTrust[blk[t]]
  /\ ref' = last /\ idx' = blk[t] /\ path' = <<>>
  /\ Goto(t, "rebranch")
  /\ UNCHANGED <<files, forkVars, blk, owner, viewVars, linkVars, mode, faultVars>>

(* CommitBlockView: GetTxNewIndex runs GetBranch again, from the new block.*)
LongChain(t) ==
  /\ At(t, "choose") /\ ChainTrust[last] < ChainTrust[blk[t]]
  /\ ref' = last /\ idx' = blk[t] /\ path' = <<>>
  /\ Goto(t, "rebranch")
  /\ UNCHANGED <<files, forkVars, blk, owner, viewVars, linkVars, mode, faultVars>>

TxBranch(t) ==
  /\ At(t, "rebranch") /\ GetBranch
  /\ UNCHANGED <<files, forkVars, pc, blk, owner, viewVars, linkVars, mode, faultVars>>

(* UpgradeToWrite.                                                         *)
UpgradeToWrite(t) ==
  /\ At(t, "rebranch") /\ idx = ref
  /\ Goto(t, "fork")
  /\ UNCHANGED <<files, forkVars, blk, owner, branchVars, viewVars, linkVars, mode, faultVars>>

(* CBlockDB::UpdateFork: the fork database, the transaction index, the     *)
(* unspent outputs, in this order and each on its own.                     *)
CommitFork(t) ==
  /\ At(t, "fork")
  /\ dblast' = blk[t]
  /\ Goto(t, "txindex")
  /\ UNCHANGED <<stored, index, frozen, stable, txStable, forkVars, blk, owner, branchVars,
                 viewVars, linkVars, mode, faultVars>>

CommitForkFails(t) ==
  /\ At(t, "fork") /\ nFault < MaxFault
  /\ nFault' = nFault + 1 /\ broken' = broken \cup {blk[t]}
  /\ Release(t)
  /\ UNCHANGED <<files, forkVars, blk, mode, exact, nCrash>>

(* GetTxNewIndex and GetTxRemoved: transactions of the blocks of vPath are *)
(* entered, transactions the view removed and did not add again deleted.   *)
PathBlocks == {path[j] : j \in DOMAIN path}

CommitTxIndex(t) ==
  /\ At(t, "txindex")
  /\ txIndex' = [x \in Tx |->
       IF x \in TxsOf(rem) \ TxsOf(add) THEN None
       ELSE IF x \in TxsOf(PathBlocks) THEN CHOOSE b \in PathBlocks : x \in Txs[b]
       ELSE txIndex[x]]
  /\ Goto(t, "unspent")
  /\ UNCHANGED <<files, last, next, unspent, blk, owner, branchVars, viewVars, linkVars, mode,
                 faultVars>>

(* Mutant: outputs that the new branch does not have stay in the database. *)
CommitUnspentOnlyAdds(t) ==
  /\ At(t, "unspent")
  /\ unspent' = unspent \cup {o \in Out : nOpt[o] # 0 /\ mark[o] = "enabled"}
  /\ last' = blk[t]
  /\ rn' = blk[t]
  /\ Goto(t, "relink")
  /\ UNCHANGED <<files, next, txIndex, blk, owner, branchVars, viewVars, rp, mode, faultVars>>

(* GetUnspentChanges: entries whose enables and disables do not cancel.    *)
CommitUnspent(t) ==
  /\ At(t, "unspent")
  /\ unspent' = (unspent \cup {o \in Out : nOpt[o] # 0 /\ mark[o] = "enabled"})
                   \ {o \in Out : nOpt[o] # 0 /\ mark[o] = "spent"}
  /\ last' = blk[t]
  /\ rn' = blk[t]
  /\ Goto(t, "relink")
  /\ UNCHANGED <<files, next, txIndex, blk, owner, branchVars, viewVars, rp, mode, faultVars>>

(* CBlockFork::UpdateNext on a new block, which has no pNext.              *)
Relink(t) ==
  /\ At(t, "relink") /\ rn # Genesis /\ next[Parent[rn]] # rn
  /\ rp' = next[Parent[rn]]
  /\ Goto(t, "clear")
  /\ UNCHANGED <<files, forkVars, blk, owner, branchVars, viewVars, rn, mode, faultVars>>

(* Mutant: only the first pNext of the old branch is cleared.              *)
ClearNextOnce(t) ==
  /\ At(t, "clear") /\ rp # None
  /\ next' = [next EXCEPT ![Parent[rp]] = None]
  /\ rp' = None
  /\ UNCHANGED <<files, last, unspent, txIndex, pc, blk, owner, branchVars, viewVars, rn, mode,
                 faultVars>>

ClearNext(t) ==
  /\ At(t, "clear") /\ rp # None
  /\ next' = [next EXCEPT ![Parent[rp]] = None]
  /\ rp' = next[rp]
  /\ UNCHANGED <<files, last, unspent, txIndex, pc, blk, owner, branchVars, viewVars, rn, mode,
                 faultVars>>

SetNext(t) ==
  /\ At(t, "clear") /\ rp = None
  /\ next' = [next EXCEPT ![Parent[rn]] = rn]
  /\ rn' = Parent[rn]
  /\ Goto(t, "relink")
  /\ UNCHANGED <<files, last, unspent, txIndex, blk, owner, branchVars, viewVars, rp, mode,
                 faultVars>>

Finish(t) ==
  /\ At(t, "relink") /\ (rn # Genesis => next[Parent[rn]] = rn)
  /\ Release(t)
  /\ UNCHANGED <<files, forkVars, blk, mode, faultVars>>

-----------------------------------------------------------------------------
(* The flush thread of CUnspentDB writes what it set aside at the flush    *)
(* before and sets aside what is there (ForkUnspentDB); that of CTxIndexDB *)
(* writes what is there.  Only a crash tells how much has been flushed, so *)
(* no flush is modelled after the last one.                                *)
FlushUnspent ==
  /\ mode = "up" /\ (frozen # unspent \/ stable # frozen) /\ nCrash < MaxCrash
  /\ stable' = frozen /\ frozen' = unspent
  /\ UNCHANGED <<stored, index, dblast, txStable, forkVars, pc, blk, owner, branchVars,
                 viewVars, linkVars, mode, faultVars>>

FlushTxIndex ==
  /\ mode = "up" /\ txStable # txIndex /\ nCrash < MaxCrash
  /\ txStable' = txIndex
  /\ UNCHANGED <<stored, index, dblast, frozen, stable, forkVars, pc, blk, owner, branchVars,
                 viewVars, linkVars, mode, faultVars>>

Stop ==
  /\ mode' = "down" /\ DropView
  /\ pc' = [t \in Thread |-> "idle"] /\ blk' = [t \in Thread |-> Genesis]
  /\ last' = Genesis /\ next' = [b \in Block |-> None]
  /\ UNCHANGED <<stored, index, dblast>>

(* The process dies; what was not flushed is lost.                         *)
Crash ==
  /\ mode = "up" /\ nCrash < MaxCrash
  /\ unspent' = stable /\ frozen' = stable /\ txIndex' = txStable
  /\ nCrash' = nCrash + 1 /\ exact' = FALSE
  /\ broken' = broken \cup {b \in index : ChainTrust[b] > ChainTrust[dblast]}
  /\ Stop
  /\ UNCHANGED <<stable, txStable, nFault>>

(* A clean shutdown: Deinitialize flushes both databases.                  *)
Halt ==
  /\ mode = "up" /\ \A t \in Thread : pc[t] = "idle"
  /\ frozen' = unspent /\ stable' = unspent /\ txStable' = txIndex
  /\ Stop
  /\ UNCHANGED <<unspent, txIndex, faultVars>>

(* A node started on files that disagree is stopped again, to be repaired; *)
(* what it does in between is not described.                               *)
HaltDirty ==
  /\ mode = "dirty"
  /\ Stop
  /\ UNCHANGED <<unspent, txIndex, frozen, stable, txStable, faultVars>>

-----------------------------------------------------------------------------
(* UpdateMaxTrust over the blocks of the file, in its order: the first of  *)
(* the heaviest.                                                           *)
IsHeaviest(j) ==
  \A i \in DOMAIN stored : \/ ChainTrust[stored[i]] < ChainTrust[stored[j]]
                           \/ ChainTrust[stored[i]] = ChainTrust[stored[j]] /\ j <= i

Heaviest == stored[CHOOSE j \in DOMAIN stored : IsHeaviest(j)]

StoredBlocks == {stored[j] : j \in DOMAIN stored}

(* CCheckRepairData::CheckRepairData, with option checkrepair at start:    *)
(* the last block, the unspent outputs, the block index and the            *)
(* transaction index, to which entries are added and none removed.         *)
RepairFork ==
  /\ mode = "down"
  /\ dblast' = Heaviest /\ broken' = {} /\ exact' = FALSE
  /\ mode' = "repair unspent"
  /\ UNCHANGED <<stored, index, frozen, stable, txStable, forkVars, pc, blk, owner, branchVars,
                 viewVars, linkVars, nCrash, nFault>>

RepairUnspent ==
  /\ mode = "repair unspent"
  /\ stable' = Utxo[Heaviest] /\ frozen' = stable' /\ unspent' = stable'
  /\ mode' = "repair index"
  /\ UNCHANGED <<stored, index, dblast, txStable, last, next, txIndex, pc, blk, owner, branchVars,
                 viewVars, linkVars, faultVars>>

(* Mutant: blocks that are only in the file are not entered.               *)
RepairIndexNotEntered ==
  /\ mode = "repair index"
  /\ mode' = "repair txindex"
  /\ UNCHANGED <<files, forkVars, pc, blk, owner, branchVars, viewVars, linkVars, faultVars>>

RepairIndex ==
  /\ mode = "repair index"
  /\ index' = StoredBlocks
  /\ mode' = "repair txindex"
  /\ UNCHANGED <<stored, dblast, frozen, stable, txStable, forkVars, pc, blk, owner, branchVars,
                 viewVars, linkVars, faultVars>>

RepairTxIndex ==
  /\ mode = "repair txindex"
  /\ txStable' = [x \in Tx |-> IF x \in TxsOf(Chain[Heaviest])
                                 THEN CHOOSE b \in Chain[Heaviest] : x \in Txs[b]
                                 ELSE txStable[x]]
  /\ txIndex' = txStable'
  /\ mode' = "repaired"
  /\ UNCHANGED <<stored, index, dblast, frozen, stable, last, next, unspent, pc, blk, owner,
                 branchVars, viewVars, linkVars, faultVars>>

RepairStops ==
  /\ mode \in {"repair unspent", "repair index", "repair txindex"} /\ nCrash < MaxCrash
  /\ nCrash' = nCrash + 1
  /\ mode' = "down"
  /\ UNCHANGED <<files, forkVars, pc, blk, owner, branchVars, viewVars, linkVars, broken,
                 exact, nFault>>

(* Every transaction of the chain of b is found in its block.              *)
TxIndexed(b) == \A x \in Chain[b] : \A t \in Txs[x] : txIndex[t] = x

(* pNext along the chain of b, and nowhere else.                           *)
Links ==
  [b \in Block |-> [x \in Block |->
     IF \E y \in Chain[b] \ {Genesis} : Parent[y] = x
       THEN CHOOSE y \in Chain[b] \ {Genesis} : Parent[y] = x ELSE None]]

(* CBlockBase::Initialize, LoadDB: refuses a last block that is not in the *)
(* index; otherwise the index is loaded and linked along the last chain.   *)
Start ==
  /\ mode \in {"down", "repaired"} /\ dblast \in index
  /\ last' = dblast
  /\ next' = Links[dblast]
  /\ mode' = IF unspent = Utxo[dblast] /\ TxIndexed(dblast) THEN "up" ELSE "dirty"
  /\ UNCHANGED <<files, unspent, txIndex, pc, blk, owner, branchVars, viewVars, linkVars,
                 faultVars>>

-----------------------------------------------------------------------------
Step(t) ==
  \/ LockView(t) \/ ViewBranch(t) \/ RemoveBlock(t) \/ StartAdd(t) \/ AddBlock(t)
  \/ VerifyTxs(t) \/ RejectTxs(t) \/ WriteBlock(t) \/ AlreadyKnown(t) \/ AddIndex(t)
  \/ ShortChain(t) \/ LongChain(t) \/ TxBranch(t) \/ UpgradeToWrite(t)
  \/ CommitFork(t) \/ CommitTxIndex(t) \/ CommitUnspent(t)
  \/ Relink(t) \/ ClearNext(t) \/ SetNext(t) \/ Finish(t)

Fail(t) == AddIndexFails(t) \/ CommitForkFails(t)

Repair == RepairFork \/ RepairUnspent \/ RepairIndex \/ RepairTxIndex \/ RepairStops

Next ==
  \/ \E t \in Thread : Step(t) \/ Fail(t) \/ (\E b \in Block : Offer(t, b))
  \/ FlushUnspent \/ FlushTxIndex \/ Crash \/ Halt \/ HaltDirty \/ Repair \/ Start

Spec == Init /\ [][Next]_vars

-----------------------------------------------------------------------------
Pcs == {"idle", "ready", "branch", "add", "write", "index", "choose", "rebranch", "fork",
        "txindex", "unspent", "relink", "clear"}
Modes == {"up", "dirty", "down", "repair unspent", "repair index", "repair txindex", "repaired"}

(* The files, the members of CBlockBase, CBlockFork and CBlockView and the *)
(* control state have their types.                                         *)
TypeOK ==
  /\ stored \in Seq(Block) /\ index \subseteq Block
  /\ dblast \in Block /\ last \in Block /\ next \in [Block -> Block \cup {None}]
  /\ unspent \subseteq Out /\ frozen \subseteq Out /\ stable \subseteq Out
  /\ txIndex \in [Tx -> Block \cup {None}] /\ txStable \in [Tx -> Block \cup {None}]
  /\ pc \in [Thread -> Pcs] /\ blk \in [Thread -> Block] /\ owner \in Thread \cup {None}
  /\ ref \in Block /\ idx \in Block /\ path \in Seq(Block)
  /\ cur \in Block /\ mark \in [Out -> {"none", "enabled", "spent"}] /\ nOpt \in [Out -> Int]
  /\ rem \subseteq Block /\ add \subseteq Block
  /\ rn \in Block /\ rp \in Block \cup {None}
  /\ mode \in Modes /\ broken \subseteq Block /\ exact \in BOOLEAN
  /\ nCrash \in Nat /\ nFault \in Nat

(* The state a reader sees who holds the read lock of the fork.            *)
Readable == mode = "up" /\ ~Exclusive

(* AddNewBlock and CommitBlockView: a reader of the fork sees one chain;   *)
(* the fork database, the unspent outputs and the transaction index are    *)
(* those of the last block, whatever reorganisations led to it.  Entries   *)
(* of abandoned blocks leave the index; a crash or a repair may leave them *)
(* behind.                                                                 *)
ForkConsistent ==
  Readable => /\ dblast = last /\ last \in index
              /\ unspent = Utxo[last]
              /\ TxIndexed(last)
              /\ exact => \A t \in Tx \ TxsOf(Chain[last]) : txIndex[t] = None

(* UpdateNext: pNext leads from the genesis block to the last block along  *)
(* its chain, and no block off that chain keeps a pNext.                   *)
MainChainLinked == Readable => next = Links[last]

(* GetBlockView: the view a block is verified against has the unspent      *)
(* outputs of the parent of the block, wherever the last block is.         *)
ViewCorrect ==
  \A t \in Thread : At(t, "add") /\ path = <<>> => ViewUnspent = Utxo[Parent[blk[t]]]

(* AddNewBlock: no known block is heavier than the last one, except a      *)
(* block about to be committed or whose commit was cut off by a failed     *)
(* write or a crash.                                                       *)
BestChain ==
  Readable => \A b \in index :
    \/ ChainTrust[b] <= ChainTrust[last]
    \/ b \in broken
    \/ \E t \in Thread : pc[t] \in {"choose", "rebranch"} /\ blk[t] = b

(* AddNewBlock: in the chain of any block of the block file no output is   *)
(* spent by two transactions or before it is created, and no transaction   *)
(* repeats.                                                                *)
NoDoubleSpend == StoredBlocks \subseteq Sound

(* CheckRepairData: wherever the crash came, of AddNewBlock or of an       *)
(* earlier repair, the databases agree when it is done and the last block  *)
(* is the heaviest of the file.                                            *)
RepairRestores ==
  mode = "repaired" =>
    /\ dblast \in index /\ index = StoredBlocks
    /\ unspent = Utxo[dblast] /\ TxIndexed(dblast)
    /\ \A b \in StoredBlocks : ChainTrust[b] <= ChainTrust[dblast]

(* CommitBlockView, CheckRepairFork: in a running node the last block only *)
(* gives way to a heavier one, and no crash or repair leads to a lighter   *)
(* one; repair may change to another branch of the same weight.            *)
NeverLighter ==
  [][dblast' # dblast => \/ ChainTrust[dblast'] > ChainTrust[dblast]
                         \/ mode # "up" /\ ChainTrust[dblast'] = ChainTrust[dblast]]_vars

=============================================================================
