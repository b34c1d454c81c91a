------------------------------ MODULE PledgeDB ------------------------------
(***************************************************************************)
(* The pledge store of src/src/storage/pledgedb.{h,cpp} as CBlockBase and  *)
(* CCheckBlockWalker use it.  What an address has pledged to a miner is    *)
(* kept per block: in full at one height of each period, and in the other  *)
(* blocks as what changed since the last full block of their own chain.    *)
(* Two caches of bounded size stand before the database.  A new block is   *)
(* written to the block file, then to the pledge database, then to the     *)
(* index; the node may stop between any two of these writes, and the last  *)
(* ones may be lost.  The walk over the block file at the next start       *)
(* compares each stored value with the one it computes and replaces it.    *)
(*                                                                         *)
(* A key is a pair (miner, pledge address); an entry that a map does not   *)
(* hold is an entry with amount 0 and height 0, which is what operator[]   *)
(* makes of it.                                                            *)
(***************************************************************************)
EXTENDS Integers, FiniteSets, TLC

CONSTANTS Block,        \* block hashes
          NoBlock,      \* hash 0
          Genesis,
          Parent,       \* hashPrev of a block
          Height,       \* the height a hash begins with
          Rank,         \* the order of the hashes as keys of a map
          Period,       \* BPX_PLEDGE_REWARD_DISTRIBUTE_HEIGHT
          Key,
          Change,       \* what the transactions of a block pledge: amount, height
          Total,        \* the reference: all changes of the chain of a block
          MaxCount      \* [full |-> MAX_FULL_CACHE_COUNT, inc |-> MAX_INC_CACHE_COUNT]

VARIABLES blocks,       \* blocks in the block file
          disk,         \* the database: block -> context
          cache,        \* mapCacheFullPledge and mapCacheIncPledge
          index,        \* mapIndex; while checking, mapBlock of the walker
          adding,       \* the block CBlockBase::AddNew is at work on
          stage,        \* how far it has come: "idle", "written" or "stored"
          mode,         \* "run" or "check"
          mem           \* mapBlockPledge of the walker

vars == <<blocks, disk, cache, index, adding, stage, mode, mem>>

Empty == [ref |-> NoBlock, amount |-> [k \in Key |-> 0], height |-> [k \in Key |-> 0]]

IsFullPledge(b) == Height[b] = 0 \/ Height[b] % Period = 1

IsFull(c) == c.ref = NoBlock

AddIncPledge(c, d) ==
    [ref    |-> c.ref,
     amount |-> [k \in Key |-> c.amount[k] + d.amount[k]],
     height |-> [k \in Key |-> IF d.height[k] > 0 THEN d.height[k] ELSE c.height[k]]]

ClearEmpty(c) ==
    [c EXCEPT !.height = [k \in Key |-> IF c.amount[k] = 0 THEN 0 ELSE c.height[k]]]

\* What the store stands for: the changes of all blocks of the chain added up,
\* entries that are empty at a full block forgotten.
Next1(b, c) == LET s == AddIncPledge(c, Change[b])
               IN  IF IsFullPledge(b) THEN ClearEmpty(s) ELSE s

TreeAssumption ==
    /\ Genesis \in Block /\ NoBlock \notin Block
    /\ Height \in [Block -> Nat] /\ Rank \in [Block -> Nat]
    /\ Parent \in [Block -> Block \cup {NoBlock}]
    /\ Parent[Genesis] = NoBlock /\ Height[Genesis] = 0
    /\ \A b \in Block : b # Genesis => Parent[b] \in Block /\ Parent[b] # b

PeriodAssumption == Period \in Nat \ {0, 1}

ChangeAssumption ==
    /\ \A b \in Block : /\ DOMAIN Change[b] = {"amount", "height"}
                        /\ DOMAIN Change[b].amount = Key /\ DOMAIN Change[b].height = Key
                        /\ \A k \in Key : Change[b].amount[k] \in Int /\ Change[b].height[k] \in Nat
    /\ \A k \in Key : Change[Genesis].amount[k] = 0 /\ Change[Genesis].height[k] = 0

TotalAssumption ==
    /\ DOMAIN Total = Block
    /\ Total[Genesis] = Empty
    /\ \A b \in Block : b # Genesis => Total[b] = Next1(b, Total[Parent[b]])
-----------------------------------------------------------------------------
(***************************************************************************)
(* Reading.  View(d, c, b) is what GetCachePledgeContext returns: the      *)
(* cached context, or the one on disk, which it then puts into the cache.  *)
(***************************************************************************)
Kind(b) == IF IsFullPledge(b) THEN "full" ELSE "inc"

View(d, c, b) == IF b \in DOMAIN c[Kind(b)] THEN c[Kind(b)][b] ELSE d[b]

\* mapCache.begin(), which AddCache erases when the map is full
First(S) == CHOOSE x \in S : \A y \in S : Rank[x] <= Rank[y]

AddCacheFrom(S, f, b, x) == [y \in S \cup {b} |-> IF y = b THEN x ELSE f[y]]

AddCache(c, b, x) ==
    LET k == Kind(b)
        S == DOMAIN c[k]
    IN  IF b \in S THEN c
        ELSE [c EXCEPT ![k] = AddCacheFrom(IF Cardinality(S) >= MaxCount[k] THEN S \ {First(S)} ELSE S,
                                           c[k], b, x)]

\* the cache after GetCachePledgeContext
Load(d, c, b) == AddCache(c, b, View(d, c, b))

\* the cache after a read of b and, when b is not full, of the block it refers to
LoadFull(d, c, b) ==
    IF IsFull(View(d, c, b)) THEN Load(d, c, b)
    ELSE Load(d, Load(d, c, b), View(d, c, b).ref)

GetFullPledge(d, c, b) ==
    LET x == View(d, c, b)
    IN  IF IsFull(x) THEN x
        ELSE [AddIncPledge(View(d, c, x.ref), x) EXCEPT !.ref = NoBlock]

GetAddressPledgeData(d, c, b, k) ==
    LET x == View(d, c, b)
    IN  IF IsFullPledge(b) THEN <<x.amount[k], x.height[k]>>
        ELSE LET r == IF x.ref # NoBlock THEN View(d, c, x.ref) ELSE Empty
             IN  <<r.amount[k] + x.amount[k],
                   IF x.height[k] > 0 THEN x.height[k] ELSE r.height[k]>>
-----------------------------------------------------------------------------
(***************************************************************************)
(* Making the context of a block from that of its parent.                  *)
(***************************************************************************)
GetFullBlockPledge(d, c, b) == ClearEmpty(AddIncPledge(GetFullPledge(d, c, Parent[b]), Change[b]))

GetIncrementKeepsMap(d, c, b) ==
    LET x == View(d, c, Parent[b])
    IN  AddIncPledge(IF IsFull(x) THEN [x EXCEPT !.ref = Parent[b]] ELSE x, Change[b])

GetIncrementBlockPledge(d, c, b) ==
    LET x == View(d, c, Parent[b])
    IN  AddIncPledge(IF IsFull(x) THEN [Empty EXCEPT !.ref = Parent[b]] ELSE x, Change[b])

GetBlockPledge(d, c, b) ==
    IF b = Genesis THEN Empty
    ELSE IF IsFullPledge(b) THEN GetFullBlockPledge(d, c, b)
    ELSE GetIncrementBlockPledge(d, c, b)

Put(d, b, x) == [y \in DOMAIN d \cup {b} |-> IF y = b THEN x ELSE d[y]]

NoCache == [k \in {"full", "inc"} |-> [b \in {} |-> Empty]]

Init == /\ blocks = {Genesis} /\ index = {Genesis} /\ adding = NoBlock /\ stage = "idle"
        /\ disk = [b \in {Genesis} |-> Empty]
        /\ cache = AddCache(NoCache, Genesis, Empty)
        /\ mode = "run" /\ mem = [b \in {} |-> Empty]

\* CBlockBase::AddNew: tsBlock.Write
WriteBlock(b) ==
    /\ mode = "run" /\ stage = "idle"
    /\ b \notin index /\ b # Genesis /\ Parent[b] \in index
    /\ adding' = b /\ stage' = "written" /\ blocks' = blocks \cup {b}
    /\ UNCHANGED <<disk, cache, index, mode, mem>>

\* CBlockBase::UpdatePledge: AddBlockPledge, which writes and then fills the cache
UpdatePledge ==
    /\ stage = "written" /\ stage' = "stored"
    /\ LET p == Parent[adding]
           x == GetBlockPledge(disk, cache, adding)
           c == IF IsFullPledge(adding) THEN LoadFull(disk, cache, p) ELSE Load(disk, cache, p)
       IN  /\ disk' = Put(disk, adding, x)
           /\ cache' = AddCache(c, adding, x)
    /\ UNCHANGED <<blocks, index, adding, mode, mem>>

\* CBlockBase::AddNewIndex, once the pledge is stored
AddNewIndex ==
    /\ stage = "stored" /\ stage' = "idle"
    /\ index' = index \cup {adding} /\ adding' = NoBlock
    /\ UNCHANGED <<blocks, disk, cache, mode, mem>>

\* a later step of CBlockBase::AddNew fails: what was written stays
AddNewFails ==
    /\ stage \in {"written", "stored"} /\ stage' = "idle" /\ adding' = NoBlock
    /\ UNCHANGED <<blocks, disk, cache, index, mode, mem>>

\* RetrieveAddressPledgeData, RetrievePowPledgeList: what they leave in the cache
Retrieve(b) ==
    /\ mode = "run" /\ b \in index
    /\ cache' = LoadFull(disk, cache, b)
    /\ UNCHANGED <<blocks, disk, index, adding, stage, mode, mem>>
-----------------------------------------------------------------------------
(***************************************************************************)
(* The node stops and starts again.  Of the block file and of the database *)
(* what was written last may be lost; what is left holds, with an entry,   *)
(* the earlier ones it was made from.  CCheckBlockWalker then walks over   *)
(* the block file with the caches off.                                     *)
(***************************************************************************)
Kept(S) == \A b \in S : Parent[b] \in S \cup {NoBlock}

\* what a crash may leave of the block file, and of the database
KeptBlocks == {B \in SUBSET blocks : Genesis \in B /\ Kept(B)}

KeptDisk == {D \in SUBSET DOMAIN disk : Kept(D) /\ \A b \in D : disk[b].ref \in D \cup {NoBlock}}

Crash(B, D) ==
    /\ blocks' = B /\ disk' = [b \in D |-> disk[b]]
    /\ cache' = NoCache /\ index' = {} /\ adding' = NoBlock /\ stage' = "idle"
    /\ mode' = "check" /\ mem' = [b \in {} |-> Empty]

\* the walker's own account: all changes added up, empty entries dropped at every block
MemPledge(b) ==
    ClearEmpty(AddIncPledge(IF b = Genesis THEN Empty ELSE mem[Parent[b]], Change[b]))

\* CCheckBlockWalker::UpdatePledge
Walk(b) ==
    /\ mode = "check" /\ b \in blocks \ index /\ Parent[b] \in index \cup {NoBlock}
    /\ LET x == GetBlockPledge(disk, NoCache, b)
       IN  disk' = IF b \in DOMAIN disk /\ disk[b] = x THEN disk ELSE Put(disk, b, x)
    /\ index' = index \cup {b} /\ mem' = Put(mem, b, MemPledge(b))
    /\ UNCHANGED <<blocks, cache, adding, stage, mode>>

\* the check is over, the block base loads its index
Start ==
    /\ mode = "check" /\ index = blocks
    /\ mode' = "run" /\ mem' = [b \in {} |-> Empty]
    /\ UNCHANGED <<blocks, disk, cache, index, adding, stage>>

Next == \/ \E b \in Block : WriteBlock(b) \/ Retrieve(b) \/ Walk(b)
        \/ UpdatePledge \/ AddNewIndex \/ AddNewFails \/ Start
        \/ \E B \in KeptBlocks, D \in KeptDisk : Crash(B, D)

Spec == Init /\ [][Next]_vars
-----------------------------------------------------------------------------
\* The state has its types, an entry on disk has a context, and neither cache
\* grows past its limit (AddCache erases before it inserts).
TypeOK ==
    /\ blocks \subseteq Block /\ index \subseteq blocks /\ adding \in blocks \cup {NoBlock}
    /\ stage \in {"idle", "written", "stored"} /\ mode \in {"run", "check"}
    /\ DOMAIN disk \subseteq Block
    /\ \A b \in DOMAIN disk : /\ disk[b].ref \in Block \cup {NoBlock}
                              /\ \A k \in Key : disk[b].amount[k] \in Int /\ disk[b].height[k] \in Nat
    /\ \A k \in {"full", "inc"} : Cardinality(DOMAIN cache[k]) <= MaxCount[k]

\* A cached context is the one in the database: AddCache never replaces an
\* entry, so a value written later must not differ.
CacheAgrees ==
    \A k \in {"full", "inc"} : \A b \in DOMAIN cache[k] :
        b \in DOMAIN disk /\ cache[k][b] = disk[b]

\* Whatever was cached, evicted, lost in a crash or written by the repair, the
\* pledge GetAddressPledgeData finds for a block of the index is the sum of
\* the changes of all blocks of its chain, and the height is that of the last
\* pledge.
PledgeExact ==
    \A b \in index : /\ b \in DOMAIN disk
                     /\ \A k \in Key : GetAddressPledgeData(disk, cache, b, k)
                                         = <<Total[b].amount[k], Total[b].height[k]>>

\* Both ways to the pledges of a block agree: GetFullPledge, from which the
\* next full block is made, and the walker's own account, by which the check
\* judges the rewards, have the amounts of the chain.
AccountsAgree ==
    \A b \in index : \A k \in Key :
        /\ GetFullPledge(disk, cache, b).amount[k] = Total[b].amount[k]
        /\ b \in DOMAIN mem => mem[b].amount[k] = Total[b].amount[k]
=============================================================================
