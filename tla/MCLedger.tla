------------------------------ MODULE MCLedger ------------------------------
(* The node's ledgers and the arithmetic under them:                       *)
(*   "pledge", "redeem"    the pledge and redeem databases;                *)
(*   "reward", "unpaid"    the pledge rewards, in "unpaid" when their      *)
(*                         calculation may fail: two miners, two pledge    *)
(*                         addresses for one of them, rewards of 20 a      *)
(*                         block that halve every four blocks, sections of *)
(*                         two blocks, two stake transactions a block;     *)
(*   "difficulty"          targets and trust, numbers of two words of      *)
(*                         eight bits, intervals of three blocks, times    *)
(*                         that may go back;                               *)
(*   "uint", "compact"     three words of two bits for the operators with  *)
(*                         two operands; two words of two bytes of two     *)
(*                         bits for the compact form and hexadecimals;     *)
(*   "series", "faulty"    the block files, in "faulty" when a write may   *)
(*                         fail and the node crash while they are repaired;*)
(*   "buffer"              the circular buffer of the cache of blocks,     *)
(*                         which this module extends.                      *)
EXTENDS Circular, TLC

CONSTANT Parts   \* Parts: the instances that run

VARIABLES part,
          blocks, disk, cache, index, adding, stage, mode, mem, tree, redeemDisk,
          redeemCache, chain, work, rewardCache, fails, acc, table, sound, headers, pn, b,
          op, files, nLastFile, diskCache, positions, done, temp, fileMode, faults

Parent == ("g" :> "none") @@ ("a1" :> "g") @@ ("a2" :> "a1") @@ ("a3" :> "a2") @@ ("a4" :> "a3")
            @@ ("a5" :> "a4") @@ ("b3" :> "a2") @@ ("b4" :> "b3")
Height == ("g" :> 0) @@ ("a1" :> 1) @@ ("a2" :> 2) @@ ("a3" :> 3) @@ ("a4" :> 4) @@ ("a5" :> 5)
            @@ ("b3" :> 3) @@ ("b4" :> 4)
Rank == ("g" :> 0) @@ ("a1" :> 1) @@ ("a2" :> 2) @@ ("a3" :> 3) @@ ("b3" :> 4) @@ ("b4" :> 5)
          @@ ("a4" :> 6) @@ ("a5" :> 7)
Of(x1, h1, x2, h2) == [amount |-> ("k1" :> x1) @@ ("k2" :> x2), height |-> ("k1" :> h1) @@ ("k2" :> h2)]
Change == ("g" :> Of(0, 0, 0, 0)) @@ ("a1" :> Of(0, 0, 3, 1)) @@ ("a2" :> Of(5, 2, 0, 0))
            @@ ("a3" :> Of(-5, 0, 1, 0)) @@ ("a4" :> Of(0, 0, -2, 0)) @@ ("a5" :> Of(1, 0, 4, 5))
            @@ ("b3" :> Of(2, 3, 0, 0)) @@ ("b4" :> Of(1, 0, -3, 0))
Sums(x1, h1, x2, h2) ==
  [ref |-> "none", amount |-> ("k1" :> x1) @@ ("k2" :> x2), height |-> ("k1" :> h1) @@ ("k2" :> h2)]
Total == ("g" :> Sums(0, 0, 0, 0)) @@ ("a1" :> Sums(0, 0, 3, 1)) @@ ("a2" :> Sums(5, 2, 3, 1))
           @@ ("a3" :> Sums(0, 2, 4, 1)) @@ ("a4" :> Sums(0, 0, 2, 1)) @@ ("a5" :> Sums(1, 0, 6, 5))
           @@ ("b3" :> Sums(7, 3, 3, 1)) @@ ("b4" :> Sums(8, 3, 0, 0))

To(d, x) == [dest |-> d, amount |-> x]
TxLists == {<<>>, <<To("d1", 5)>>, <<To("d1", -2), To("d2", 5)>>, <<To("d1", -1), To("d1", -2)>>, <<To("d1", -5)>>}

Changes == {[who |-> "p", by |-> 0], [who |-> "p", by |-> 20], [who |-> "q", by |-> 31], [who |-> "q", by |-> -9]}
Cells == ("r1" :> 3) @@ ("r2" :> 4) @@ ("r3" :> 3) @@ ("r4" :> 4)

Pledge == INSTANCE PledgeDB WITH Block <- DOMAIN Parent, NoBlock <- "none", Genesis <- "g", Period <- 3,
    Key <- {"k1", "k2"}, MaxCount <- [full |-> 1, inc |-> 2]
Redeem == INSTANCE RedeemDB WITH Dest <- {"d1", "d2"}, MaxBlocks <- 6, MaxHeight <- 5, Period <- 3, DayCount <- 2,
    DayHeight <- 2, MaxCount <- [full |-> 1, inc |-> 1], disk <- redeemDisk,
    cache <- redeemCache
Reward == INSTANCE PledgeReward WITH Miners <- {"m", "n"}, Pledgers <- {"p", "q"}, PowOf <- [p \in {"p", "q"} |-> "m"],
    RewardMode <- ("p" :> 1) @@ ("q" :> 0), Fee <- ("m" :> 300) @@ ("n" :> 0),
    FeeBase <- 1000, Dests <- <<"m", "n", "p", "q">>, Interval <- 2, TxPerBlock <- 2,
    CacheMax <- 1, RepeatMint <- 1, InitReward <- 20, HalveHeight <- 5, PowRate <- 500,
    TotalRate <- 1000, MinPledge <- 20, PowDivisor <- 4, MaxFactor <- 2, Changes <- Changes,
    MaxHeight <- 7, CanFail <- FALSE, MaxFails <- 0, cache <- rewardCache
Unpaid == INSTANCE PledgeReward WITH Miners <- {"m", "n"}, Pledgers <- {"p", "q"}, PowOf <- [p \in {"p", "q"} |-> "m"],
    RewardMode <- ("p" :> 1) @@ ("q" :> 0), Fee <- ("m" :> 300) @@ ("n" :> 0),
    FeeBase <- 1000, Dests <- <<"m", "n", "p", "q">>, Interval <- 2, TxPerBlock <- 2,
    CacheMax <- 1, RepeatMint <- 1, InitReward <- 20, HalveHeight <- 5, PowRate <- 500,
    TotalRate <- 1000, MinPledge <- 20, PowDivisor <- 4, MaxFactor <- 2, Changes <- Changes,
    MaxHeight <- 7, CanFail <- TRUE, MaxFails <- 1, cache <- rewardCache
Target == INSTANCE Difficulty WITH WIDTH <- 2, WordBits <- 8, ByteBits <- 2, BitsLower <- 3, BitsUpper <- 9, BitsInit <- 6,
    Interval <- 3, Spacing <- 4, Gaps <- {-1, 0, 4, 7, 20}, MaxHeight <- 6, chain <- headers
Uint == INSTANCE BigUint WITH WIDTH <- 3, WordBits <- 2, ByteBits <- 2, Operand <- 0..63, Compacts <- {}
Compact == INSTANCE BigUint WITH WIDTH <- 2, WordBits <- 4, ByteBits <- 2, Operand <- {0}, Compacts <- 0..511
Series == INSTANCE TimeSeries WITH Rec <- {"r1", "r2", "r3", "r4"}, MAX_FILE_SIZE <- 8, MaxFile <- 3, CacheSize <- 11,
    CanFail <- FALSE, CrashInRepair <- FALSE, MaxFault <- 2, cache <- diskCache,
    index <- positions, mode <- fileMode
Faulty == INSTANCE TimeSeries WITH Rec <- {"r1", "r2", "r3"}, MAX_FILE_SIZE <- 8, MaxFile <- 3, CacheSize <- 11,
    CanFail <- TRUE, CrashInRepair <- TRUE, MaxFault <- 2, cache <- diskCache,
    index <- positions, mode <- fileMode

ASSUME Reward!RewardConstants /\ Target!DifficultyConstants /\ Uint!UintConstants
ASSUME Pledge!TreeAssumption /\ Pledge!PeriodAssumption /\ Pledge!ChangeAssumption /\ Pledge!TotalAssumption
ASSUME Redeem!RedeemAssumption /\ Series!CellsAssumption /\ SizeAssumption

pledgeDBVars == <<blocks, disk, cache, index, adding, stage, mode, mem>>
PledgeDBIdle == blocks = 0 /\ disk = 0 /\ cache = 0 /\ index = 0 /\ adding = 0 /\ stage = 0 /\
    mode = 0 /\ mem = 0
redeemDBVars == <<tree, redeemDisk, redeemCache>>
RedeemDBIdle == tree = 0 /\ redeemDisk = 0 /\ redeemCache = 0
pledgeRewardVars == <<chain, work, rewardCache, fails, acc, table, sound>>
PledgeRewardIdle == chain = 0 /\ work = 0 /\ rewardCache = 0 /\ fails = 0 /\ acc = 0 /\ table = 0 /\
    sound = 0
difficultyVars == <<headers>>
DifficultyIdle == headers = 0
bigUintVars == <<pn, b, op>>
BigUintIdle == pn = 0 /\ b = 0 /\ op = 0
timeSeriesVars == <<files, nLastFile, diskCache, positions, done, temp, fileMode, faults>>
TimeSeriesIdle == files = 0 /\ nLastFile = 0 /\ diskCache = 0 /\ positions = 0 /\ done = 0 /\ temp = 0 /\
    fileMode = 0 /\ faults = 0
vars == <<part, pledgeDBVars, redeemDBVars, pledgeRewardVars, difficultyVars, bigUintVars, timeSeriesVars, bufVars>>

Init ==
    /\ part \in Parts
    /\ \/ part = "pledge" /\ Pledge!Init /\ RedeemDBIdle /\ PledgeRewardIdle /\ DifficultyIdle /\ BigUintIdle /\ TimeSeriesIdle /\ BufInit
       \/ part = "redeem" /\ Redeem!Init /\ PledgeDBIdle /\ PledgeRewardIdle /\ DifficultyIdle /\ BigUintIdle /\ TimeSeriesIdle /\ BufInit
       \/ part = "reward" /\ Reward!Init /\ PledgeDBIdle /\ RedeemDBIdle /\ DifficultyIdle /\ BigUintIdle /\ TimeSeriesIdle /\ BufInit
       \/ part = "unpaid" /\ Unpaid!Init /\ PledgeDBIdle /\ RedeemDBIdle /\ DifficultyIdle /\ BigUintIdle /\ TimeSeriesIdle /\ BufInit
       \/ part = "difficulty" /\ Target!Init /\ PledgeDBIdle /\ RedeemDBIdle /\ PledgeRewardIdle /\ BigUintIdle /\ TimeSeriesIdle /\ BufInit
       \/ part = "uint" /\ Uint!Init /\ PledgeDBIdle /\ RedeemDBIdle /\ PledgeRewardIdle /\ DifficultyIdle /\ TimeSeriesIdle /\ BufInit
       \/ part = "compact" /\ Compact!Init /\ PledgeDBIdle /\ RedeemDBIdle /\ PledgeRewardIdle /\ DifficultyIdle /\ TimeSeriesIdle /\ BufInit
       \/ part = "series" /\ Series!Init /\ PledgeDBIdle /\ RedeemDBIdle /\ PledgeRewardIdle /\ DifficultyIdle /\ BigUintIdle /\ BufInit
       \/ part = "faulty" /\ Faulty!Init /\ PledgeDBIdle /\ RedeemDBIdle /\ PledgeRewardIdle /\ DifficultyIdle /\ BigUintIdle /\ BufInit
       \/ part = "buffer" /\ BufInit /\ PledgeDBIdle /\ RedeemDBIdle /\ PledgeRewardIdle /\ DifficultyIdle /\ BigUintIdle /\ TimeSeriesIdle

Next ==
    /\ UNCHANGED part
    /\ \/ part = "pledge" /\ Pledge!Next /\ UNCHANGED <<redeemDBVars, pledgeRewardVars, difficultyVars, bigUintVars, timeSeriesVars, bufVars>>
       \/ part = "redeem" /\ Redeem!Next /\ UNCHANGED <<pledgeDBVars, pledgeRewardVars, difficultyVars, bigUintVars, timeSeriesVars, bufVars>>
       \/ part = "reward" /\ Reward!Next /\ UNCHANGED <<pledgeDBVars, redeemDBVars, difficultyVars, bigUintVars, timeSeriesVars, bufVars>>
       \/ part = "unpaid" /\ Unpaid!Next /\ UNCHANGED <<pledgeDBVars, redeemDBVars, difficultyVars, bigUintVars, timeSeriesVars, bufVars>>
       \/ part = "difficulty" /\ Target!Next /\ UNCHANGED <<pledgeDBVars, redeemDBVars, pledgeRewardVars, bigUintVars, timeSeriesVars, bufVars>>
       \/ part = "uint" /\ Uint!Next /\ UNCHANGED <<pledgeDBVars, redeemDBVars, pledgeRewardVars, difficultyVars, timeSeriesVars, bufVars>>
       \/ part = "compact" /\ Compact!Next /\ UNCHANGED <<pledgeDBVars, redeemDBVars, pledgeRewardVars, difficultyVars, timeSeriesVars, bufVars>>
       \/ part = "series" /\ Series!Next /\ UNCHANGED <<pledgeDBVars, redeemDBVars, pledgeRewardVars, difficultyVars, bigUintVars, bufVars>>
       \/ part = "faulty" /\ Faulty!Next /\ UNCHANGED <<pledgeDBVars, redeemDBVars, pledgeRewardVars, difficultyVars, bigUintVars, bufVars>>
       \/ part = "buffer" /\ BufNext /\ UNCHANGED <<pledgeDBVars, redeemDBVars, pledgeRewardVars, difficultyVars, bigUintVars, timeSeriesVars>>

Spec == Init /\ [][Next]_vars

(* What a block added to the pledge and redeem databases is what a walk    *)
(* from the genesis block adds up, whichever blocks of other branches came *)
(* between, whatever the caches have dropped and wherever the node         *)
(* crashed; nobody redeems more than is locked for them.                   *)
LedgersExact ==
  /\ part = "pledge" => Pledge!TypeOK /\ Pledge!CacheAgrees /\ Pledge!PledgeExact /\ Pledge!AccountsAgree
  /\ part = "redeem" => Redeem!TypeOK /\ Redeem!RedeemExact /\ Redeem!LockHeld

(* Pledge rewards: the total of the schedule is the sum of its blocks,     *)
(* never is more minted, a section is paid exactly what its blocks claimed,*)
(* and CheckPledgeReward accepts what the node accepted.                   *)
RewardsExact ==
  /\ part = "reward" => Reward!TypeOK /\
                        Reward!ScheduleExact /\ Reward!WithinSchedule /\ Reward!PaidExactly /\ Reward!CheckAgrees
  /\ part = "unpaid" => Unpaid!WithinSchedule

(* Targets: the next block always has a target in range, which follows the *)
(* time the last ones took, and the trust of a block is what its target    *)
(* is worth; the compact form of a number is the nearest one below, and    *)
(* hexadecimals, comparison and compact form lose nothing.  The operators  *)
(* of uint256 compute modulo 2^256 what they stand for, and SetCompact     *)
(* reports an overflow exactly when a number does not fit.                 *)
TargetsRight ==
  /\ []/\ part = "difficulty" => Target!TypeOK /\ Target!CanGoOn /\ Target!AdjustsRight /\ Target!TrustExact
       /\ part = "uint" => Uint!TypeOK /\ Uint!OrderExact
       /\ part = "compact" => Compact!CompactNearest /\ Compact!HexRound
  /\ [][(part = "uint" => Uint!ArithmeticStep) /\ (part = "compact" => Compact!OverflowStep)]_vars

(* Block files: what was written is read back, from the file and from the  *)
(* cache, and a walk finds it, after crashes and repairs of a torn end.    *)
FilesKept ==
  /\ part = "series" => Series!TypeOK /\ Series!KeepsWritten /\ Series!WalkAgrees /\ Series!ReadBack
  /\ part = "faulty" => Faulty!TypeOK /\ Faulty!ReadBack
  /\ part = "buffer" => BufOK

(* The rewards of a section are paid although a calculation failed:        *)
(* CheckPledgeReward demands the calculated number of stake transactions   *)
(* (src/src/minemon/checkrepair.cpp:1680).                                 *)
PaidAfterFailure == part = "unpaid" => Unpaid!PaidExactly
=============================================================================
