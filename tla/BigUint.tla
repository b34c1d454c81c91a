------------------------------- MODULE BigUint -------------------------------
(***************************************************************************)
(* base_uint and uint256: unsigned integers in words, and the compact form *)
(* of proof-of-work targets.  (src/src/crypto/uint256.h)                   *)
(*                                                                         *)
(* The code has WIDTH = 8 words of 32 bits and bytes of 8 bits; here these *)
(* are constants.  A number is changed in place by one operator after      *)
(* another; b is the right-hand side.                                      *)
(***************************************************************************)
EXTENDS Integers, Sequences, FiniteSetsExt, SequencesExt, Bitwise

CONSTANTS WIDTH, WordBits, ByteBits,
          Operand,         \* values of the right-hand side
          Compacts         \* compact numbers that are read

UintConstants ==
  /\ {WIDTH, WordBits, ByteBits} \subseteq Nat \ {0} /\ WIDTH >= 2
  /\ WordBits % ByteBits = 0

VARIABLES pn, b, op
vars == <<pn, b, op>>

Word == 2^WordBits
Idx == 0..(WIDTH - 1)
N == WIDTH * WordBits
nBytes == N \div ByteBits
Up == [i \in 1..WIDTH |-> i - 1]

(* What the words stand for, and the words of a value.                     *)
Val(a) == FoldLeft(LAMBDA s, i : s + a[i] * 2^(WordBits * i), 0, Up)
Of(v) == [i \in Idx |-> (v \div 2^(WordBits * i)) % Word]
Zero == Of(0)

-----------------------------------------------------------------------------
Low64(v) == [i \in Idx |-> IF i = 0 THEN v % Word ELSE IF i = 1 THEN (v \div Word) % Word ELSE 0]
GetLow64(a) == a[0] + a[1] * Word
Complement(a) == [i \in Idx |-> Word - 1 - a[i]]

(* ++ stops at the first word that does not become 0, -- at the first that *)
(* does not become -1.                                                     *)
FirstNot(a, w) == Min({i \in Idx : a[i] # w} \cup {WIDTH - 1})
Increment(a) ==
  LET k == FirstNot(a, Word - 1)
  IN  [i \in Idx |-> IF i <= k THEN (a[i] + 1) % Word ELSE a[i]]
Decrement(a) ==
  LET k == FirstNot(a, 0)
  IN  [i \in Idx |-> IF i <= k THEN (a[i] + Word - 1) % Word ELSE a[i]]
Negate(a) == Increment(Complement(a))

(* += and *= with a carry from word to word; c[i] is the carry into i.     *)
Plus(x, y) ==
  LET c[i \in 0..WIDTH] == IF i = 0 THEN 0 ELSE (c[i - 1] + x[i - 1] + y[i - 1]) \div Word
  IN  [i \in Idx |-> (c[i] + x[i] + y[i]) % Word]
Minus(x, y) == Plus(x, Negate(y))
Times32(x, w) ==
  LET c[i \in 0..WIDTH] == IF i = 0 THEN 0 ELSE (c[i - 1] + w * x[i - 1]) \div Word
  IN  [i \in Idx |-> (c[i] + w * x[i]) % Word]

ShiftLeft(a, n) ==
  LET k == n \div WordBits
      s == n % WordBits
  IN  [m \in Idx |->
        (IF m - k - 1 \in Idx /\ s # 0 THEN a[m - k - 1] \div 2^(WordBits - s) ELSE 0) |
        (IF m - k \in Idx THEN (a[m - k] * 2^s) % Word ELSE 0)]
ShiftRight(a, n) ==
  LET k == n \div WordBits
      s == n % WordBits
  IN  [m \in Idx |->
        (IF m + k + 1 \in Idx /\ s # 0 THEN (a[m + k + 1] * 2^(WordBits - s)) % Word ELSE 0) |
        (IF m + k \in Idx THEN a[m + k] \div 2^s ELSE 0)]

(* operator< and the others: the highest word that differs decides.        *)
Less(x, y) == x # y /\ LET i == Max({j \in Idx : x[j] # y[j]}) IN x[i] < y[i]
LessEq(x, y) == ~Less(y, x)

Bits(a) ==
  IF a = Zero THEN 0
  ELSE LET p == Max({i \in Idx : a[i] # 0})
       IN  WordBits * p + Max({n \in 0..(WordBits - 1) : (a[p] \div 2^n) % 2 = 1}) + 1

(* operator/=: the divisor is shifted up and comes down bit by bit.        *)
DivideStep(r, shift) ==
  LET fits == LessEq(r.div, r.num)
      w == shift \div WordBits
  IN  [num |-> IF fits THEN Minus(r.num, r.div) ELSE r.num,
       div |-> ShiftRight(r.div, 1),
       q |-> IF fits THEN [r.q EXCEPT ![w] = @ | 2^(shift % WordBits)] ELSE r.q]
Divide(x, y) ==
  IF Bits(y) = 0 \/ Bits(y) > Bits(x) THEN Zero
  ELSE LET top == Bits(x) - Bits(y)
       IN  FoldLeft(DivideStep, [num |-> x, div |-> ShiftLeft(y, top), q |-> Zero],
                    [j \in 1..(top + 1) |-> top + 1 - j]).q

-----------------------------------------------------------------------------
(* The compact form: a size in bytes, and three bytes of which the first   *)
(* bit is the sign.                                                        *)
Bytes(n) == 2^(ByteBits * n)
Sign == Bytes(3) \div 2

SetCompact(nCompact) ==
  LET nSize == nCompact \div Bytes(3)
      m == nCompact % Sign
      nWord == IF nSize <= 3 THEN m \div Bytes(3 - nSize) ELSE m
  IN  [value |-> IF nSize <= 3 THEN Low64(nWord) ELSE ShiftLeft(Low64(nWord), ByteBits * (nSize - 3)),
       negative |-> nWord # 0 /\ (nCompact \div Sign) % 2 = 1,
       overflow |-> nWord # 0 /\ (\/ nSize > nBytes + 2
                                  \/ nWord > Bytes(1) - 1 /\ nSize > nBytes + 1
                                  \/ nWord > Bytes(2) - 1 /\ nSize > nBytes)]

GetCompact(a) ==
  LET nSize == (Bits(a) + ByteBits - 1) \div ByteBits
      c == IF nSize <= 3 THEN GetLow64(a) * Bytes(3 - nSize)
                         ELSE GetLow64(ShiftRight(a, ByteBits * (nSize - 3)))
  IN  IF (c \div Sign) % 2 = 1 THEN c \div Bytes(1) + (nSize + 1) * Bytes(3) ELSE c + nSize * Bytes(3)

(* GetHex writes two digits for every byte, the highest first; SetHex      *)
(* reads digits from the last one on and ignores those that do not fit.    *)
Digit == ByteBits \div 2
GetHex(a) ==
  [j \in 1..(2 * nBytes) |-> LET p == Digit * (2 * nBytes - j)
                             IN  (a[p \div WordBits] \div 2^(p % WordBits)) % 2^Digit]
SetHex(s) ==
  [i \in Idx |->
    FoldSet(LAMBDA j, v : v | (s[Len(s) - j] * 2^((Digit * j) % WordBits)), 0,
            {j \in 0..(Len(s) - 1) : (Digit * j) \div WordBits = i})]

-----------------------------------------------------------------------------
Init == pn \in {Of(v) : v \in 0..(2^N - 1)} /\ b \in {Of(v) : v \in Operand} /\ op = [name |-> "none", n |-> 0]

Becomes(name, n, value) ==
  op = [name |-> "none", n |-> 0] /\ op' = [name |-> name, n |-> n] /\ pn' = value /\ UNCHANGED b

Next ==
  \/ Becomes("not", 0, Complement(pn)) \/ Becomes("negate", 0, Negate(pn))
  \/ Becomes("inc", 0, Increment(pn)) \/ Becomes("dec", 0, Decrement(pn))
  \/ Becomes("plus", 0, Plus(pn, b)) \/ Becomes("minus", 0, Minus(pn, b))
  \/ Becomes("times", 0, Times32(pn, b[0])) \/ Becomes("div", 0, Divide(pn, b))
  \/ \E n \in 0..(N + 1) : \/ Becomes("left", n, ShiftLeft(pn, n))
                           \/ Becomes("right", n, ShiftRight(pn, n))
  \/ \E c \in Compacts : pn = Zero /\ Becomes("compact", c, SetCompact(c).value)

Spec == Init /\ [][Next]_vars

-----------------------------------------------------------------------------
(* The words are in their range.                                           *)
TypeOK == pn \in [Idx -> 0..(Word - 1)] /\ b \in [Idx -> 0..(Word - 1)]

(* operator~, -, ++, --, +=, -=, *= and /=, << and >> compute modulo 2^N   *)
(* what they stand for; dividing by zero gives zero.                       *)
ArithmeticStep ==
  LET v == Val(pn)
      w == Val(b)
      Is(name, x) == op'.name = name => Val(pn') = x % 2^N
  IN  /\ Is("not", 2^N - 1 - v) /\ Is("negate", -v) /\ Is("inc", v + 1) /\ Is("dec", v - 1)
      /\ Is("plus", v + w) /\ Is("minus", v - w) /\ Is("times", v * (w % Word))
      /\ Is("div", IF w = 0 THEN 0 ELSE v \div w)
      /\ Is("left", v * 2^op'.n) /\ Is("right", v \div 2^op'.n)

(* operator< and the others, which order block hashes, transaction hashes  *)
(* and targets, order the numbers, whatever the words are.                 *)
OrderExact ==
  op.name = "none" => (Less(pn, b) <=> Val(pn) < Val(b)) /\ (LessEq(pn, b) <=> Val(pn) <= Val(b))

(* The numbers that have a compact form.                                   *)
Sound(c) == ~SetCompact(c).negative /\ ~SetCompact(c).overflow
Representable == {Val(SetCompact(c).value) : c \in {d \in Compacts : Sound(d)}}

(* GetCompact and SetCompact: the compact form of a number is neither      *)
(* negative nor too large, and stands for the next number below that has   *)
(* one: a target never gets easier by being written into a block.          *)
CompactNearest ==
  op.name = "none" =>
    LET c == GetCompact(pn)
    IN  Sound(c) /\ Val(SetCompact(c).value) = Max({r \in Representable : r <= Val(pn)})

(* SetCompact reports an overflow if and only if the number does not fit,  *)
(* and otherwise returns it without losing bits.                           *)
OverflowStep ==
  op'.name = "compact" =>
    LET c == op'.n
        size == c \div Bytes(3)
        v == IF size <= 3 THEN (c % Sign) \div Bytes(3 - size) ELSE (c % Sign) * Bytes(size - 3)
    IN  /\ SetCompact(c).overflow <=> v >= 2^N
        /\ v < 2^N => Val(pn') = v

(* SetHex reads what GetHex writes, also with digits in front that do not  *)
(* fit or without the zeros in front.                                      *)
HexRound ==
  op.name = "none" =>
    LET s == GetHex(pn)
    IN  /\ SetHex(s) = pn /\ SetHex(<<1>> \o s) = pn
        /\ \A k \in 1..Len(s) : (\A j \in 1..(k - 1) : s[j] = 0) => SetHex(SubSeq(s, k, Len(s))) = pn
=============================================================================
