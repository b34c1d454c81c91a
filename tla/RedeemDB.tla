------------------------------ MODULE RedeemDB ------------------------------
(***************************************************************************)
(* The redeem store of src/src/storage/redeemdb.{h,cpp} and the rule       *)
(* CBlockChain::VerifyBlockMintRedeem puts on the blocks that change it.   *)
(* Money that leaves a pledge goes to a redeem address, where it is locked *)
(* and set free in equal parts over a number of days.  As the pledges,     *)
(* the accounts of the redeem addresses are kept in full at one height of  *)
(* each period; here the other blocks keep, for each address their part of *)
(* the period has touched, the whole account.                              *)
(*                                                                         *)
(* Blocks are numbered as they come, on any earlier block; the caches are  *)
(* as in PledgeDB.  That inputs exist, so that nobody spends more than     *)
(* there is, is left to the unspent set.                                   *)
(***************************************************************************)
EXTENDS Integers, Sequences, FiniteSets

CONSTANTS Dest,          \* redeem addresses
          TxLists,       \* what a block may do: sequences of [dest, amount], amount signed
          MaxBlocks,
          MaxHeight,
          Period,        \* BPX_PLEDGE_REWARD_DISTRIBUTE_HEIGHT
          DayCount,      \* BPX_REDEEM_DAY_COUNT
          DayHeight,     \* BPX_REDEEM_DAY_HEIGHT
          MaxCount       \* MAX_FULL_CACHE_COUNT and MAX_INC_CACHE_COUNT

VARIABLES tree,          \* the blocks: [prev, height, txs]; number 1 is the genesis block
          disk,          \* the database: the context of each block
          cache          \* mapCacheFullRedeem and mapCacheIncRedeem

vars == <<tree, disk, cache>>

RedeemAssumption ==
    /\ Period \in Nat \ {0, 1} /\ DayCount \in Nat \ {0} /\ DayHeight \in Nat \ {0}
    /\ \A l \in TxLists : \A i \in 1..Len(l) : l[i].dest \in Dest /\ l[i].amount \in Int \ {0}

\* CDestRedeem()
Zero == [balance |-> 0, lock |-> 0, begin |-> 0]

IsFullHeight(h) == h = 0 \/ h % Period = 1

IsFullRedeem(b) == IsFullHeight(tree[b].height)

\* one entry of vTxRedeem on an account, in a block of height h
Change(r, amount, h) ==
    IF amount > 0 THEN [balance |-> r.balance + amount, lock |-> r.balance + amount, begin |-> h]
    ELSE [r EXCEPT !.balance = @ + amount]

\* all entries of txs for d
RECURSIVE ChangeAll(_, _, _, _)
ChangeAll(r, d, txs, h) ==
    IF txs = <<>> THEN r
    ELSE ChangeAll(IF Head(txs).dest = d THEN Change(r, Head(txs).amount, h) ELSE r, d, Tail(txs), h)
-----------------------------------------------------------------------------
Kind(b) == IF IsFullRedeem(b) THEN "full" ELSE "inc"

\* GetCacheRedeem: what it returns, and the cache after it
View(b) == IF b \in DOMAIN cache[Kind(b)] THEN cache[Kind(b)][b] ELSE disk[b]

\* the order of the hashes, which begin with the height
Before(x, y) == tree[x].height < tree[y].height \/ (tree[x].height = tree[y].height /\ x <= y)

Evict(S, k) == IF Cardinality(S) < MaxCount[k] THEN S
               ELSE S \ {CHOOSE x \in S : \A y \in S : Before(x, y)}

AddCache(c, k, b, x) ==
    IF b \in DOMAIN c[k] THEN c
    ELSE [c EXCEPT ![k] = [y \in Evict(DOMAIN @, k) \cup {b} |-> IF y = b THEN x ELSE c[k][y]]]

Load(c, b) == AddCache(c, Kind(b), b, View(b))

LoadBoth(c, b) == IF View(b).ref = 0 THEN Load(c, b) ELSE Load(Load(c, b), View(b).ref)

Get(m, d) == IF d \in DOMAIN m THEN m[d] ELSE Zero

GetAddressRedeem(b, d) ==
    IF d \in DOMAIN View(b).map \/ View(b).ref = 0 THEN Get(View(b).map, d)
    ELSE Get(View(View(b).ref).map, d)

\* Retrieve, and the first half of GetFullBlockRedeem: the entries of an
\* incremental context over those of the context it refers to
FullMap(b) == LET m == View(b).map
                  f == IF View(b).ref = 0 THEN m ELSE View(View(b).ref).map
              IN  [d \in DOMAIN m \cup DOMAIN f |-> IF d \in DOMAIN m THEN m[d] ELSE f[d]]

Touched(txs) == {txs[i].dest : i \in 1..Len(txs)}

GetFullBlockRedeem(p, txs, h) ==
    LET m == FullMap(p)
        n == [d \in DOMAIN m \cup Touched(txs) |-> ChangeAll(Get(m, d), d, txs, h)]
    IN  [ref |-> 0, map |-> [d \in {e \in DOMAIN n : n[e].balance > 0} |-> n[d]]]

\* an address met for the first time in its period starts from the full block

GetIncrementBlockRedeem(p, txs, h) ==
    LET x == View(p)
        r == IF x.ref = 0 THEN p ELSE x.ref
        m == IF x.ref = 0 THEN [d \in {} |-> Zero] ELSE x.map
    IN  [ref |-> r,
         map |-> [d \in DOMAIN m \cup Touched(txs) |->
                    ChangeAll(IF d \in DOMAIN m THEN m[d] ELSE Get(View(r).map, d), d, txs, h)]]
-----------------------------------------------------------------------------
(***************************************************************************)
(* The lock.  An account is free after DayCount days; before, what is left *)
(* of the lock shrinks by one part a day.                                  *)
(***************************************************************************)
LockAmount(r, count) ==
    IF count < DayCount * DayHeight
    THEN r.lock - (r.lock \div DayCount) * (count \div DayHeight) ELSE 0

Spent(txs, n, d) == LET Mine == {i \in 1..n : txs[i].dest = d /\ txs[i].amount < 0}
                        S[i \in 0..n] == IF i = 0 THEN 0
                                         ELSE S[i - 1] + (IF i \in Mine THEN -txs[i].amount ELSE 0)
                    IN  S[n]

\* nothing may leave an account after money came to it in the same block, and
\* what leaves it must not touch the lock
VerifyBlockMintRedeem(p, txs, h) ==
    \A i \in 1..Len(txs) : txs[i].amount < 0 =>
        LET r == GetAddressRedeem(p, txs[i].dest)
        IN  /\ \A j \in 1..i - 1 : ~(txs[j].dest = txs[i].dest /\ txs[j].amount > 0)
            /\ r.begin > 0 => /\ h - r.begin > 0
                              /\ h - r.begin < DayCount * DayHeight
                                   => r.balance - Spent(txs, i, txs[i].dest) >= LockAmount(r, h - r.begin)

\* the inputs of the transactions exist
Funded(p, txs) == \A d \in Dest : Spent(txs, Len(txs), d) <= GetAddressRedeem(p, d).balance
-----------------------------------------------------------------------------
Init == /\ tree = <<[prev |-> 0, height |-> 0, txs |-> <<>>]>>
        /\ disk = <<[ref |-> 0, map |-> [d \in {} |-> Zero]]>>
        /\ cache = [k \in {"full", "inc"} |-> IF k = "full" THEN [b \in {1} |-> disk[1]] ELSE [b \in {} |-> disk[1]]]

\* CBlockBase::UpdateRedeem for a block the chain accepts: AddBlockRedeem
AddBlockRedeem(p, txs) ==
    LET h == tree[p].height + 1
        b == Len(tree) + 1
        k == IF IsFullHeight(h) THEN "full" ELSE "inc"
    IN  /\ Len(tree) < MaxBlocks /\ h <= MaxHeight
        /\ Funded(p, txs) /\ VerifyBlockMintRedeem(p, txs, h)
        /\ tree' = Append(tree, [prev |-> p, height |-> h, txs |-> txs])
        /\ \E x \in {IF k = "full" THEN GetFullBlockRedeem(p, txs, h) ELSE GetIncrementBlockRedeem(p, txs, h)} :
             /\ disk' = Append(disk, x)
             /\ cache' = AddCache(LoadBoth(cache, p), k, b, x)

\* RetrieveAddressRedeem of an address the block has not touched
RetrieveAddressRedeem(b) ==
    /\ cache' = LoadBoth(cache, b)
    /\ UNCHANGED <<tree, disk>>

\* CCheckBlockWalker::UpdateRedeem at the next start finds the same contexts;
\* the caches are empty again
Restart == /\ cache' = [k \in {"full", "inc"} |-> [b \in {} |-> disk[1]]]
           /\ UNCHANGED <<tree, disk>>

Next == \/ \E p \in 1..Len(tree), txs \in TxLists : AddBlockRedeem(p, txs)
        \/ \E b \in 1..Len(tree) : RetrieveAddressRedeem(b)
        \/ Restart

Spec == Init /\ [][Next]_vars
-----------------------------------------------------------------------------
\* the account of d after block b: every change of the chain, one after the other
RECURSIVE Replay(_, _)
Replay(b, d) == IF b = 1 THEN Zero
                ELSE ChangeAll(Replay(tree[b].prev, d), d, tree[b].txs, tree[b].height)

\* The database holds a context for each block, an incremental one refers to a
\* full block of an earlier height, and the caches keep to their limits.
TypeOK ==
    /\ DOMAIN disk = DOMAIN tree
    /\ \A b \in DOMAIN disk : IF IsFullRedeem(b) THEN disk[b].ref = 0
                              ELSE /\ disk[b].ref \in DOMAIN tree /\ IsFullRedeem(disk[b].ref)
                                   /\ tree[disk[b].ref].height < tree[b].height
    /\ \A k \in {"full", "inc"} : Cardinality(DOMAIN cache[k]) <= MaxCount[k]

\* What GetAddressRedeem finds is the account the chain of the block makes,
\* with balance, lock and height of the lock; that full blocks drop empty
\* accounts is never seen, since the next deposit sets the lock anew.
RedeemExact ==
    \A b \in DOMAIN tree, d \in Dest :
        LET r == GetAddressRedeem(b, d)
            p == Replay(b, d)
        IN  r.balance = p.balance /\ (p.balance > 0 => r = p)

\* On no chain of accepted blocks does an account fall below what is still
\* locked of its last deposit: several withdrawals in one block, withdrawals
\* over several blocks and deposits between them included.
LockHeld ==
    \A b \in DOMAIN tree, d \in Dest :
        LET r == Replay(b, d)
        IN  r.begin > 0 /\ r.balance > 0 => r.balance >= LockAmount(r, tree[b].height - r.begin)
=============================================================================
