--------------------------- MODULE BlockChainInv ----------------------------
(* The inductive invariant of BlockChain, part by part.                    *)
EXTENDS BlockChain

-----------------------------------------------------------------------------
(* The inductive invariant.                                                *)

ViewPcs == {"branch", "add", "write", "index", "choose", "rebranch", "fork", "txindex", "unspent"}
AddedPcs == {"write", "index", "choose", "rebranch", "fork", "txindex", "unspent"}
AdoptPcs == {"choose", "rebranch", "fork", "txindex", "unspent"}
LinkPcs == {"relink", "clear"}
Repairing == {"repair unspent", "repair index", "repair txindex", "repaired"}

(* The transaction index is that of the chain of b.                        *)
TxExact(b) ==
  /\ TxIndexed(b)
  /\ exact => \A t \in Tx \ TxsOf(Chain[b]) : txIndex[t] = None

(* Files hold whole chains of sound blocks; one of them is the heaviest.   *)
FilesInv ==
  /\ Genesis \in index /\ index \subseteq StoredBlocks /\ dblast \in StoredBlocks
  /\ \A b \in index : Chain[b] \subseteq index
  /\ \A b \in StoredBlocks : Chain[b] \subseteq StoredBlocks /\ b \in Sound
  /\ \E j \in DOMAIN stored : IsHeaviest(j)

LockInv ==
  /\ mode # "up" => owner = None /\ \A t \in Thread : pc[t] = "idle"
  /\ \A t \in Thread : owner = t <=> pc[t] \notin {"idle", "ready"}
  /\ \A t \in Thread : pc[t] # "idle" => blk[t] # Genesis /\ Parent[blk[t]] \in index

(* Last block, unspent outputs and index agree but for the write in hand.  *)
UpInv ==
  mode = "up" =>
    /\ last \in index /\ unspent = Utxo[last]
    /\ (\A t \in Thread : pc[t] \notin {"txindex", "unspent"}) => dblast = last
    /\ (\A t \in Thread : pc[t] # "unspent") => TxExact(last)
    /\ \A t \in Thread : /\ pc[t] \in {"txindex", "unspent"} => dblast = blk[t]
                         /\ pc[t] = "unspent" => TxExact(blk[t])

(* v is the unspent outputs of b, and n how often it has them more than u. *)
Agrees(v, n, u, b) ==
  \A o \in Out : /\ o \in v <=> o \in Utxo[b]
                 /\ n[o] = Ind(o \in Utxo[b]) - Ind(o \in u)

(* The view has the unspent outputs of the block it stands at, and counts  *)
(* how they differ from the database; rem and add tell the chains apart.   *)
ViewOf(t) ==
  pc[t] \in ViewPcs =>
    /\ cur \in Sound
    /\ Agrees(ViewUnspent, nOpt, unspent, cur)
    /\ rem \subseteq Chain[last] /\ add \subseteq Chain[cur]
    /\ \A x \in Chain[cur] : x \in add \/ (x \in Chain[last] /\ x \notin rem)
    /\ \A x \in Chain[last] : x \in rem \/ x \in Chain[cur]

ViewInv == \A t \in Thread : ViewOf(t)

(* s leads from target down to the child of base.                          *)
Leads(s, target, base) ==
  /\ Chain[target] = Chain[base] \cup {s[j] : j \in DOMAIN s}
  /\ s = <<>> => base = target
  /\ s # <<>> => s[1] = target /\ Parent[s[Len(s)]] = base
  /\ \A j \in DOMAIN s : s[j] # Genesis
  /\ \A j \in 1..(Len(s) - 1) : Parent[s[j]] = s[j + 1]

BranchOf(t) ==
  /\ pc[t] = "branch" => /\ Leads(path, Parent[blk[t]], idx)
                         /\ ref \in Chain[cur] /\ cur \in Chain[last] /\ add = {}
                         /\ idx # ref => cur = last
  /\ pc[t] = "add" => Leads(path, Parent[blk[t]], cur)
  /\ pc[t] \in AddedPcs => cur = blk[t]
  /\ pc[t] = "index" => blk[t] \in StoredBlocks
  /\ pc[t] \in AdoptPcs => blk[t] \in index
  /\ pc[t] \in AdoptPcs \ {"choose"} => ChainTrust[last] < ChainTrust[blk[t]]
  /\ pc[t] \in {"rebranch", "fork", "txindex"} => Leads(path, blk[t], idx) /\ ref \in Chain[last]
  /\ pc[t] \in {"fork", "txindex"} => idx = ref
  /\ pc[t] = "clear" => rn # Genesis

BranchInv == \A t \in Thread : BranchOf(t)

TrustInv ==
  /\ mode = "up" => \A b \in index : \/ ChainTrust[b] <= ChainTrust[last]
                                     \/ b \in broken
                                     \/ \E t \in Thread : pc[t] \in AdoptPcs /\ blk[t] = b
  /\ mode # "up" => \A b \in index : ChainTrust[b] <= ChainTrust[dblast] \/ b \in broken

RepairInv ==
  /\ mode # "up" => unspent = stable /\ frozen = stable /\ txIndex = txStable
  /\ mode # "up" /\ exact => \A t \in Tx \ TxsOf(Chain[dblast]) : txIndex[t] = None
  /\ mode \in Repairing => dblast = Heaviest
  /\ mode \in Repairing \ {"repair unspent"} => unspent = Utxo[dblast]
  /\ mode \in {"repair txindex", "repaired"} => index = StoredBlocks
  /\ mode = "repaired" => TxIndexed(dblast)

(* With pNext n, the blocks that their parents lead to are those of S.     *)
Linked(n, S) ==
  \A x, y \in Block : n[x] = y <=> y \in S /\ y # Genesis /\ Parent[y] = x

(* UpdateNext: pNext leads along the chain of h, what is left of the old   *)
(* one, and from rn, where the loop is, to the last block.                 *)
RelinkAt(h) == Linked(next, Chain[h] \cup (Chain[last] \ Chain[rn]))

(* Its inner loop has cut the chain of h off between the parent of rn and  *)
(* rp.                                                                     *)
ClearAt(h) ==
  /\ rp \in Chain[h] /\ Parent[rn] \in Chain[rp] /\ Parent[rn] # rp
  /\ Linked(next, {y \in Chain[h] : y \in Chain[Parent[rn]] \/ rp \in Chain[y]}
                    \cup (Chain[last] \ Chain[rn]))

LinkInv ==
  mode = "up" =>
    /\ (\A t \in Thread : pc[t] \notin LinkPcs) => Linked(next, Chain[last])
    /\ \A t \in Thread :
         /\ pc[t] \in LinkPcs => rn \in Chain[last]
         /\ pc[t] = "relink" =>
              \E h \in Block : RelinkAt(h) /\ (rn \in Chain[h] => rn = h)
         /\ pc[t] = "clear" =>
              \E h \in Block :
                /\ rn \notin Chain[h]
                /\ rp = None => next[Parent[rn]] = None /\ RelinkAt(h)
                /\ rp # None => ClearAt(h)

Inv == /\ TypeOK /\ FilesInv /\ LockInv /\ UpInv /\ ViewInv /\ BranchInv /\ TrustInv
       /\ RepairInv
=============================================================================
