---------------------------- MODULE PledgeReward ----------------------------
(***************************************************************************)
(* The mint of a block: the proof-of-work reward, the pledge reward that   *)
(* accrues with the block, and the distribution of the pledge rewards of a *)
(* section of Interval blocks with the blocks of the next one.             *)
(* (src/src/minemon/core.cpp, blockchain.cpp, service.cpp and, for the     *)
(* check of the stored chain, checkrepair.cpp)                             *)
(*                                                                         *)
(* One chain is enough: all that is computed for a block follows the       *)
(* previous blocks only.  A block holds its miner, the pledges after it,   *)
(* the money supply, the proof-of-work amount, the pledge reward its mint  *)
(* transaction claims and the stake transactions.  Heights stand for       *)
(* hashes; fees, which leave the supply as it is, are left out.            *)
(***************************************************************************)
EXTENDS Integers, Sequences, FiniteSets, FiniteSetsExt, SequencesExt

CONSTANTS Miners, Pledgers,
          PowOf,          \* the miner a pledge address is for
          RewardMode,     \* 1: the reward adds to the pledge
          Fee,            \* what a miner keeps of a reward, of FeeBase
          FeeBase,
          Dests,          \* miners and pledge addresses in the order of the maps
          Interval, TxPerBlock, CacheMax, RepeatMint,
          InitReward, HalveHeight, PowRate, TotalRate,
          MinPledge, PowDivisor, MaxFactor,
          Changes,        \* who pledges how much more, or less, in a block
          MaxHeight, CanFail, MaxFails

RewardConstants ==
  /\ {Interval, TxPerBlock, CacheMax, RepeatMint, InitReward, HalveHeight, FeeBase} \subseteq Nat \ {0}
  /\ ToSet(Dests) = Miners \cup Pledgers /\ Len(Dests) <= Interval * TxPerBlock
  /\ PowDivisor % MaxFactor = 0

VARIABLES chain, work, cache, fails, acc, table, sound
vars == <<chain, work, cache, fails, acc, table, sound>>

Height == Len(chain) - 1
At(h) == chain[h + 1]
Nobody == "nobody"
NoWork == [mint |-> Nobody]
SumSeq(s) == FoldLeft(LAMBDA x, y : x + y, 0, s)
Get(f, d) == IF d \in DOMAIN f THEN f[d] ELSE 0
AddMaps(f, g) == [d \in DOMAIN f \cup DOMAIN g |-> Get(f, d) + Get(g, d)]
Empty == [d \in {} |-> 0]

-----------------------------------------------------------------------------
(* The schedule of core.cpp.                                               *)
GetMintWorkReward(h) == IF h < 1 THEN 0 ELSE InitReward \div 2^((h - 1) \div HalveHeight)
GetBlockPowReward(h) == (GetMintWorkReward(h) * PowRate) \div TotalRate
GetBlockPledgeReward(h) == (GetMintWorkReward(h) * (TotalRate - PowRate)) \div TotalRate

GetMintTotalReward(h) ==
  LET S[k \in 0..(h + 1)] ==
        LET r == InitReward \div 2^k
            n == h - k * HalveHeight
        IN  IF n <= 0 THEN 0 ELSE IF n < HalveHeight THEN r * n ELSE r * HalveHeight + S[k + 1]
  IN  S[0]

(* The limits of a pledge for the block after height h.                    *)
GetBlockPledgeMinMaxValue(h) ==
  LET few == At(h).supply \div PowDivisor < MinPledge
  IN  IF h = 0 THEN [pow |-> MinPledge, stake |-> InitReward, max |-> MinPledge * MaxFactor]
      ELSE [pow   |-> IF few THEN MinPledge ELSE At(h).supply \div PowDivisor,
            max   |-> IF few THEN MinPledge * MaxFactor ELSE At(h).supply \div (PowDivisor \div MaxFactor),
            stake |-> SumSeq([k \in 1..((h + HalveHeight) \div HalveHeight) |-> InitReward \div 2^(k - 1)])]

(* The pledges for miner m that count, capped, after height h.             *)
GetMintPledgeData(h, m, lim) ==
  [p \in {q \in Pledgers : PowOf[q] = m /\ At(h).pledge[q] > 0 /\ At(h).pledge[q] >= lim.stake} |->
     Min({At(h).pledge[p], lim.max})]
Total(f) == MapThenSumSet(LAMBDA p : f[p], DOMAIN f)

(* R' = [T * (100% - 38.2%) + S] * (D / M); S is what is left of the       *)
(* schedule.  -1 when more money exists than the schedule has.             *)
CalcPledgeRewardValue(h, total, lim) ==
  LET surplus == GetMintTotalReward(h) - At(h).supply
  IN  IF total < lim.pow THEN 0
      ELSE IF surplus < 0 THEN -1
      ELSE ((surplus + GetBlockPledgeReward(h + 1)) * Min({total, lim.max})) \div lim.max

GetMintPledgeReward(h, m) ==
  LET lim == GetBlockPledgeMinMaxValue(h)
  IN  CalcPledgeRewardValue(h, Total(GetMintPledgeData(h, m, lim)), lim)

(* The pledge reward of the block of miner m after height h, by address;   *)
(* what the division and the fee leave goes to the miner.                  *)
Shares(reward, valid, total, m) ==
  [p \in DOMAIN valid |->
     LET r == (reward * valid[p]) \div total
     IN  IF Fee[m] > 0 /\ Fee[m] <= FeeBase THEN r - (r * Fee[m]) \div FeeBase ELSE r]
CalcBlockPledgeReward(h, m) ==
  LET lim == GetBlockPledgeMinMaxValue(h)
      valid == GetMintPledgeData(h, m, lim)
      reward == CalcPledgeRewardValue(h, Total(valid), lim)
  IN  IF reward = 0 \/ DOMAIN valid = {} THEN Empty
      ELSE LET s == Shares(reward, valid, Total(valid), m)
               rest == reward - Total(s)
           IN  AddMaps(s, [d \in (IF rest > 0 THEN {m} ELSE {}) |-> rest])

(* The rewards of the section that ends at height e.                       *)
CalcDistributePledgeReward(e) ==
  LET Of(i) == CalcBlockPledgeReward(e - i, At(e - i + 1).mint)
  IN  [d \in UNION {DOMAIN Of(i) : i \in 1..Interval} |->
         MapThenSumSet(LAMBDA i : Get(Of(i), d), 1..Interval)]

(* Who a reward is paid to.                                                *)
Payee(d) == IF d \in Pledgers /\ RewardMode[d] # 1 THEN [owner |-> d] ELSE [dest |-> d]
Stake(f) == LET ds == SelectSeq(Dests, LAMBDA d : d \in DOMAIN f)
            IN  [i \in 1..Len(ds) |-> [to |-> Payee(ds[i]), amount |-> f[ds[i]]]]
Chunk(s, i) == SubSeq(s, i * TxPerBlock + 1, Min({Len(s), (i + 1) * TxPerBlock}))

-----------------------------------------------------------------------------
(* GetDistributePledgeRewardTxList(h): the stake transactions of the block *)
(* after height h, from mapCacheDistributePledgeReward.  A calculation     *)
(* that fails leaves the empty list it has put into the cache.             *)
End(h) == h - (h % Interval)
Kept(e) == LET over == Cardinality(DOMAIN cache) - CacheMax
               old == SelectSeq([i \in 1..MaxHeight |-> i], LAMBDA x : x \in DOMAIN cache /\ x # e)
           IN  IF over <= 0 THEN DOMAIN cache ELSE DOMAIN cache \ ToSet(SubSeq(old, 1, over))
CacheFor(h, list) ==
  [x \in Kept(End(h)) \cup {End(h)} |-> IF x \in Kept(End(h)) THEN cache[x] ELSE list]
Distributes(h) == h >= Interval
Calculated(h) == Stake(CalcDistributePledgeReward(End(h)))
FreshList(h) == IF Distributes(h) THEN Chunk(Calculated(h), h % Interval) ELSE <<>>
RewardList(h) == IF Distributes(h) THEN Chunk(CacheFor(h, Calculated(h))[End(h)], h % Interval) ELSE <<>>
Fetched(h) ==
  cache' = IF Distributes(h) THEN CacheFor(h, Calculated(h)) ELSE cache

(* The calculation reads the pledges and the templates from the database.  *)
CalcFails(h) ==
  /\ CanFail /\ fails < MaxFails /\ Distributes(h) /\ End(h) \notin Kept(End(h))
  /\ cache' = CacheFor(h, <<>>) /\ fails' = fails + 1

-----------------------------------------------------------------------------
(* What CheckPledgeReward demands of block h.                              *)
Accepts(h) == Distributes(h - 1) => At(h).stake = Chunk(table, (h - 1) % Interval)
Walked == ~(sound < Height /\ Accepts(sound + 1))   \* the walk keeps up, or has stopped

Genesis == [mint |-> Nobody, pledge |-> [p \in Pledgers |-> 0], supply |-> 0, pow |-> 0, claim |-> 0, stake |-> <<>>]
Init ==
  /\ chain = <<Genesis>> /\ work = NoWork /\ cache = Empty /\ fails = 0
  /\ acc = Empty /\ table = <<>> /\ sound = 0

VerifyRepeatMint(m) == \A i \in 1..(RepeatMint - 1) : i - 1 <= Height => At(Height - i + 1).mint # m
Changed(c) == [At(Height).pledge EXCEPT ![c.who] = @ + c.by]
Paid == SumSeq([i \in 1..Len(chain) |-> chain[i].pow + SumSeq([j \in 1..Len(chain[i].stake) |-> chain[i].stake[j].amount])])

(* GetWorkTx: a miner makes a block, which also changes one pledge; another*)
(* node makes it from its own cache.                                       *)
Work(m, c, list) ==
  /\ work = NoWork /\ Height < MaxHeight /\ Walked /\ VerifyRepeatMint(m)
  /\ GetMintPledgeReward(Height, m) >= 0
  /\ \A q \in Pledgers : Changed(c)[q] >= 0
  /\ Total(Changed(c)) <= Paid
  /\ work' = [mint |-> m, change |-> c, pow |-> GetBlockPowReward(Height + 1),
              claim |-> GetMintPledgeReward(Height, m), stake |-> list]
  /\ UNCHANGED <<chain, fails, acc, table, sound>>
GetWorkTx(m, c) == Work(m, c, RewardList(Height)) /\ Fetched(Height)
PeerWork(m, c) == Work(m, c, FreshList(Height)) /\ UNCHANGED cache

VerifyPowRewardTx(b) == b.pow = GetBlockPowReward(Height + 1)
SameStake(b, list) == \A i \in 1..Len(b.stake) : i <= Len(list) /\ b.stake[i] = list[i]

(* UpdatePledge: a reward that is paid to a pledge address adds to it.     *)
Pledged(b) ==
  [p \in Pledgers |->
     At(Height).pledge[p] + (IF b.change.who = p THEN b.change.by ELSE 0)
       + SumSeq([i \in 1..Len(b.stake) |-> IF b.stake[i].to = [dest |-> p] THEN b.stake[i].amount ELSE 0])]

(* AddNewIndex: the money supply counts a pledge reward when it accrues.   *)
SupplyPaid(b) ==   \* mutant: it counts when it is paid
  At(Height).supply + b.pow + SumSeq([i \in 1..Len(b.stake) |-> b.stake[i].amount])
GetBlockMint(b) == b.pow + b.claim
Supply(b) == At(Height).supply + GetBlockMint(b)

AddNewBlock ==
  /\ work # NoWork /\ VerifyRepeatMint(work.mint) /\ VerifyPowRewardTx(work)
  /\ IF SameStake(work, RewardList(Height))
     THEN chain' = Append(chain, [mint |-> work.mint, pledge |-> Pledged(work), supply |-> Supply(work),
                                  pow |-> work.pow, claim |-> work.claim, stake |-> work.stake])
     ELSE UNCHANGED chain
  /\ work' = NoWork /\ Fetched(Height) /\ UNCHANGED <<fails, acc, table, sound>>

(* The calculation fails: the block is not made, or not added.             *)
Fail == CalcFails(Height) /\ Walked /\ work' = NoWork /\ UNCHANGED <<chain, acc, table, sound>>

Restart == cache # Empty /\ cache' = Empty /\ work' = NoWork /\ UNCHANGED <<chain, fails, acc, table, sound>>

-----------------------------------------------------------------------------
(* CCheckBlockWalker::CheckPledgeReward: block h of the stored chain,      *)
(* with the rewards added up block by block.  acc: mapBlockPledgeReward of *)
(* the block before, table: mapSectPledgeReward of the last section.       *)
DropZeros(f) == [d \in {x \in DOMAIN f : f[x] # 0} |-> f[d]]
ClearAcc(f) == [d \in DOMAIN f |-> 0]
WalkBlockReward(h, m) == CalcBlockPledgeReward(h, m)   \* the walker has a copy of it

CheckPledgeReward ==
  /\ sound < Height /\ Accepts(sound + 1)
  /\ LET h == sound + 1
         f == AddMaps(DropZeros(acc), WalkBlockReward(h - 1, At(h).mint))
     IN  /\ IF h % Interval = 0
            THEN table' = Stake(f) /\ acc' = ClearAcc(f)
            ELSE acc' = f /\ UNCHANGED table
         /\ sound' = h
  /\ UNCHANGED <<chain, work, cache, fails>>

Next ==
  \/ \E m \in Miners, c \in Changes : GetWorkTx(m, c) \/ PeerWork(m, c)
  \/ AddNewBlock \/ Fail \/ Restart \/ CheckPledgeReward

Spec == Init /\ [][Next]_vars

-----------------------------------------------------------------------------
(* The block fields are numbers of their kind, nobody pledges less than    *)
(* nothing, and GetDistributePledgeRewardTxList keeps its cache small.     *)
TypeOK ==
  /\ \A h \in 0..Height : /\ At(h).supply \in Nat /\ At(h).claim \in Nat /\ At(h).pledge \in [Pledgers -> Nat]
                          /\ At(h).mint \in Miners \cup {Nobody}
  /\ sound \in 0..Height /\ fails \in 0..MaxFails
  /\ Cardinality(DOMAIN cache) <= CacheMax + 1 /\ \A e \in DOMAIN cache : Len(cache[e]) <= Len(Dests)

(* GetMintTotalReward, computed section by section, is the sum of          *)
(* GetMintWorkReward over the blocks, also at the ends of the halving      *)
(* sections.                                                               *)
ScheduleExact ==
  GetMintTotalReward(Height) = SumSeq([h \in 1..Height |-> GetMintWorkReward(h)])

(* CalcPledgeRewardValue and GetBlockPowReward: what has been minted and   *)
(* has accrued never exceeds the schedule, whatever was pledged when and   *)
(* however the unpaid rewards pile up, so no block fails for a negative    *)
(* surplus.                                                                *)
WithinSchedule ==
  LET minted == SumSeq([i \in 1..Len(chain) |-> chain[i].pow + chain[i].claim])
  IN  /\ minted <= SumSeq([h \in 1..Height |-> GetMintWorkReward(h)])
      /\ \A m \in Miners : GetMintPledgeReward(Height, m) >= 0

(* CalcBlockPledgeReward and GetDistributePledgeRewardTxList: the stake    *)
(* transactions of the blocks after a section pay exactly the pledge       *)
(* rewards that the blocks of the section claimed, once.                   *)
PaidExactly ==
  \A e \in 1..(Height - Interval) :
    e % Interval = 0 =>
      SumSeq([i \in 1..Interval |->
                SumSeq([j \in 1..Len(At(e + i).stake) |-> At(e + i).stake[j].amount])])
        = SumSeq([i \in 1..Interval |-> At(e - i + 1).claim])

(* CheckPledgeReward, which adds the rewards up as it goes, accepts every  *)
(* block that the node has added.                                          *)
CheckAgrees == sound < Height => Accepts(sound + 1)
=============================================================================
