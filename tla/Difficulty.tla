----------------------------- MODULE Difficulty -----------------------------
(***************************************************************************)
(* The proof-of-work target of a chain: GetProofOfWorkTarget, the checks   *)
(* of VerifyProofOfWork, and GetBlockTrust.  (src/src/minemon/core.cpp)    *)
(*                                                                         *)
(* A block is its time, its compact target and the trust of the chain up   *)
(* to it.  The arithmetic is that of uint256 (module BigUint), with fewer  *)
(* and smaller words.  Of the merged-mining proof only whether it is right *)
(* is kept: its size and time, both Merkle branches, a hash below target.  *)
(***************************************************************************)
EXTENDS Integers, Sequences, FiniteSets

CONSTANTS WIDTH, WordBits, ByteBits,
          BitsLower, BitsUpper, BitsInit,   \* leading zero bits of the limits
          Interval, Spacing,                \* blocks, and the time of one
          Gaps,                             \* times from a block to the next
          MaxHeight

U == INSTANCE BigUint WITH Operand <- {}, Compacts <- {}, pn <- 0, b <- 0, op <- 0

DifficultyConstants ==
  /\ {Interval, Spacing} \subseteq Nat \ {0, 1}
  /\ BitsLower <= BitsInit /\ BitsInit <= BitsUpper /\ BitsLower >= 2
  /\ 4 * Interval * Spacing < 2^WordBits

VARIABLE chain
vars == <<chain>>
Height == Len(chain) - 1
At(h) == chain[h + 1]

-----------------------------------------------------------------------------
(* The limits are cut to numbers that have a compact form.                 *)
Ones(zeros) == U!ShiftRight(U!Complement(U!Zero), zeros)
LimitRaw(zeros) == Ones(zeros)   \* mutant: they are not
Limit(zeros) == U!SetCompact(U!GetCompact(Ones(zeros))).value
nProofOfWorkLowerLimit == Limit(BitsLower)   \* the easiest target
nProofOfWorkUpperLimit == Limit(BitsUpper)   \* the hardest target

nTargetTimespan == Interval * Spacing
Clamp(t) == IF t < nTargetTimespan \div 4 THEN nTargetTimespan \div 4
            ELSE IF t > nTargetTimespan * 4 THEN nTargetTimespan * 4 ELSE t

(* newBits: divided first when it is large enough, multiplied first when   *)
(* it is small.                                                            *)
Adjust(target, t) ==
  IF U!LessEq(U!Low64(nTargetTimespan), target)
  THEN U!Times32(U!Divide(target, U!Low64(nTargetTimespan)), t)
  ELSE U!Divide(U!Times32(target, t), U!Low64(nTargetTimespan))
Within(target) ==
  IF U!Less(target, nProofOfWorkUpperLimit) THEN nProofOfWorkUpperLimit
  ELSE IF U!Less(nProofOfWorkLowerLimit, target) THEN nProofOfWorkLowerLimit
  ELSE target

(* The compact target of the block after height h.                         *)
GetProofOfWorkTarget(h) ==
  IF h = 0 THEN U!GetCompact(Ones(BitsInit))
  ELSE IF (h + 1) % Interval # 0 THEN At(h).bits
  ELSE LET nActualTimespan == Clamp(At(h).time - At(h - Interval + 1).time)
       IN  U!GetCompact(Within(Adjust(U!SetCompact(At(h).bits).value, nActualTimespan)))

(* VerifyProofOfWork for a block after height h.                           *)
InRange(bits) ==
  LET s == U!SetCompact(bits)
  IN  /\ ~s.negative /\ ~s.overflow /\ s.value # U!Zero
      /\ U!LessEq(nProofOfWorkUpperLimit, s.value) /\ U!LessEq(s.value, nProofOfWorkLowerLimit)
VerifyProofOfWork(h, time, bits, proof) ==
  time >= At(h).time /\ proof /\ bits = GetProofOfWorkTarget(h) /\ InRange(bits)

(* 2^N / (target + 1), without a number of more than N bits.               *)
GetBlockTrust(bits) ==
  LET t == U!SetCompact(bits).value
  IN  U!Increment(U!Divide(U!Complement(t), U!Increment(t)))

-----------------------------------------------------------------------------
Init == chain = <<[time |-> 0, bits |-> 0, trust |-> U!Zero]>>

AddNewBlock(gap, proof) ==
  /\ Height < MaxHeight
  /\ \E bits \in {GetProofOfWorkTarget(Height)} :
       /\ VerifyProofOfWork(Height, At(Height).time + gap, bits, proof)
       /\ chain' = Append(chain, [time |-> At(Height).time + gap, bits |-> bits,
                                  trust |-> U!Plus(At(Height).trust, GetBlockTrust(bits))])

Next == \E gap \in Gaps, proof \in BOOLEAN : AddNewBlock(gap, proof)
Spec == Init /\ [][Next]_vars

-----------------------------------------------------------------------------
Target(h) == U!Val(U!SetCompact(At(h).bits).value)

(* Times do not go back, and the trust has its words (last block).         *)
TypeOK ==
  /\ At(Height).trust \in [U!Idx -> 0..(U!Word - 1)]
  /\ Height > 0 => At(Height).time >= At(Height - 1).time

(* The target that GetProofOfWorkTarget demands of the next block always   *)
(* passes the range check of VerifyProofOfWork: the chain never gets to a  *)
(* point where no block at all is valid.                                   *)
CanGoOn == InRange(GetProofOfWorkTarget(Height))

(* GetProofOfWorkTarget: a new target is at most four times as easy; it    *)
(* is not harder after an interval that took twice its time or more, and   *)
(* not easier after one that took its time or less.  Neither rounding nor  *)
(* an overflow turns a step around.                                        *)
AdjustsRight ==
  Height > 0 /\ Height % Interval = 0 =>
    LET h == Height
        t == At(h - 1).time - At(h - Interval).time
    IN  /\ Target(h) <= 4 * Target(h - 1)
        /\ t >= 2 * nTargetTimespan => Target(h) >= Target(h - 1)
        /\ t <= nTargetTimespan => Target(h) <= Target(h - 1)

(* GetBlockTrust is the expected number of hashes, 2^N / (target + 1), and *)
(* the trust of the chain is the sum: a longer chain has more.             *)
TrustExact ==
  Height > 0 =>
    U!Val(At(Height).trust) - U!Val(At(Height - 1).trust) = 2^U!N \div (Target(Height) + 1)
=============================================================================
