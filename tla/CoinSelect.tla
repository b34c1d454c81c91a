----------------------------- MODULE CoinSelect -----------------------------
(***************************************************************************)
(* CWallet::SelectCoins and ArrangeInputs: which coins of a destination    *)
(* pay an amount and a fee.  (src/src/minemon/wallet.cpp)                  *)
(*                                                                         *)
(* A coin has a value and is usable or not (locked, or younger than the    *)
(* transaction).  setCoins is ordered by transaction: any order of values  *)
(* may occur.                                                              *)
(***************************************************************************)
EXTENDS Integers, FiniteSetsExt, SequencesExt

CONSTANTS Value, MaxCoins,   \* bounds: values of coins, their number
          Targets,           \* nAmount + nTxFee; -1: all there is
          nMaxInput          \* MAX_TX_INPUT_COUNT, which is in the hundreds at least

SelectConstants == Value \subseteq Nat \ {0} /\ MaxCoins \in Nat /\ nMaxInput >= 4

VARIABLES coins, nAmount, pc,
          j, nTargetValue, mapValue, larger,   \* the loop; values are positions in coins
          vCoins, nValueRet

vars == <<coins, nAmount, pc, j, nTargetValue, mapValue, larger, vCoins, nValueRet>>

V(i) == coins[i].v
Sum(S) == MapThenSumSet(V, S)
All == nAmount < 0

(* At most one coin is not usable.                                         *)
Inputs ==
  UNION {{[i \in 1..n |-> [v |-> f[i], usable |-> i # u]] : f \in [1..n -> Value], u \in 0..n} :
           n \in 1..MaxCoins}

Init ==
  /\ coins \in Inputs /\ nAmount \in Targets
  /\ pc = "start" /\ j = 1 /\ nTargetValue = 0 /\ mapValue = {} /\ larger = 0
  /\ vCoins = <<>> /\ nValueRet = 0

Begin ==
  /\ pc = "start"
  /\ nTargetValue' = IF All THEN Sum(DOMAIN coins) ELSE nAmount
  /\ pc' = IF Sum(DOMAIN coins) < nTargetValue' THEN "done" ELSE "scan"
  /\ UNCHANGED <<coins, nAmount, j, mapValue, larger, vCoins, nValueRet>>

Scanning == pc = "scan" /\ j <= Len(coins)

Skip ==
  /\ Scanning /\ ~coins[j].usable
  /\ nTargetValue' = IF All THEN nTargetValue - V(j) ELSE nTargetValue
  /\ j' = j + 1
  /\ UNCHANGED <<coins, nAmount, pc, mapValue, larger, vCoins, nValueRet>>

Exact ==
  /\ Scanning /\ coins[j].usable /\ V(j) = nTargetValue
  /\ vCoins' = <<j>> /\ nValueRet' = V(j) /\ pc' = "done"
  /\ UNCHANGED <<coins, nAmount, j, nTargetValue, mapValue, larger>>

(* multimap: by value, then by insertion.                                  *)
Before(a, b) == V(a) < V(b) \/ (V(a) = V(b) /\ a < b)
First(S) == CHOOSE a \in S : \A b \in S \ {a} : Before(a, b)
Final(S) == CHOOSE a \in S : \A b \in S \ {a} : Before(b, a)

(* A smaller coin: the largest nMaxInput of them are kept.                 *)
Lower ==
  /\ Scanning /\ coins[j].usable /\ V(j) < nTargetValue
  /\ LET m == mapValue \cup {j}
         kept == IF Cardinality(m) > nMaxInput THEN m \ {First(m)} ELSE m
         enough == All /\ Cardinality(m) >= nMaxInput
     IN  /\ mapValue' = IF enough THEN m ELSE kept
         /\ nTargetValue' = IF enough THEN Sum(m) ELSE nTargetValue
         /\ pc' = IF enough \/ Sum(kept) >= nTargetValue THEN "fill" ELSE pc
  /\ j' = j + 1
  /\ UNCHANGED <<coins, nAmount, larger, vCoins, nValueRet>>

Larger ==
  /\ Scanning /\ coins[j].usable /\ V(j) > nTargetValue
  /\ larger' = IF larger = 0 \/ V(j) < V(larger) THEN j ELSE larger
  /\ j' = j + 1
  /\ UNCHANGED <<coins, nAmount, pc, nTargetValue, mapValue, vCoins, nValueRet>>

Scanned ==
  /\ pc = "scan" /\ j > Len(coins)
  /\ pc' = IF Sum(mapValue) >= nTargetValue THEN "fill" ELSE "larger"
  /\ UNCHANGED <<coins, nAmount, j, nTargetValue, mapValue, larger, vCoins, nValueRet>>

(* Mutant: the coin is not removed.                                        *)
FillAgain ==
  /\ pc = "fill"
  /\ IF nValueRet >= nTargetValue THEN pc' = "done" /\ UNCHANGED <<mapValue, vCoins, nValueRet>>
     ELSE LET over == {a \in mapValue : V(a) >= nTargetValue - nValueRet}
              c == IF over # {} THEN First(over) ELSE Final(mapValue)
          IN  vCoins' = Append(vCoins, c) /\ nValueRet' = nValueRet + V(c)
              /\ UNCHANGED <<pc, mapValue>>
  /\ UNCHANGED <<coins, nAmount, j, nTargetValue, larger>>

(* lower_bound of what is missing, or the largest.                         *)
Fill ==
  /\ pc = "fill"
  /\ IF nValueRet >= nTargetValue THEN pc' = "done" /\ UNCHANGED <<mapValue, vCoins, nValueRet>>
     ELSE LET over == {a \in mapValue : V(a) >= nTargetValue - nValueRet}
              c == IF over # {} THEN First(over) ELSE Final(mapValue)
          IN  vCoins' = Append(vCoins, c) /\ nValueRet' = nValueRet + V(c)
              /\ mapValue' = mapValue \ {c} /\ UNCHANGED pc
  /\ UNCHANGED <<coins, nAmount, j, nTargetValue, larger>>

(* The smallest of the larger coins, and up to three of the smallest ones. *)
TakeLarger ==
  /\ pc = "larger" /\ pc' = "done"
  /\ IF larger = 0 THEN UNCHANGED <<vCoins, nValueRet>>
     ELSE LET s == SetToSortSeq(mapValue, Before)
          IN  /\ vCoins' = <<larger>> \o SubSeq(s, 1, IF Len(s) < 3 THEN Len(s) ELSE 3)
              /\ nValueRet' = Sum(ToSet(vCoins'))
  /\ UNCHANGED <<coins, nAmount, j, nTargetValue, mapValue, larger>>

Next == Begin \/ Skip \/ Exact \/ Lower \/ Larger \/ Scanned \/ Fill \/ TakeLarger
Spec == Init /\ [][Next]_vars

-----------------------------------------------------------------------------
Usable == {i \in DOMAIN coins : coins[i].usable}
Done == pc = "done"

(* SelectCoins: it returns the value of what it selects, usable coins,     *)
(* none twice, not more than a transaction may have.                       *)
SelectionValid ==
  Done => /\ IsInjective(vCoins) /\ ToSet(vCoins) \subseteq Usable
          /\ nValueRet = Sum(ToSet(vCoins)) /\ Len(vCoins) <= nMaxInput

(* SelectCoins pays an amount if and only if some nMaxInput of the usable  *)
(* coins can, although it forgets small coins on its way.                  *)
PaysIfPossible ==
  Done /\ ~All =>
    IF \E S \in SUBSET Usable : Cardinality(S) <= nMaxInput /\ Sum(S) >= nAmount
      THEN nValueRet >= nAmount ELSE vCoins = <<>> /\ nValueRet = 0

(* With nAmount < 0, SelectCoins takes every usable coin, or as many as    *)
(* fit, although the target still counts unusable coins when the loop      *)
(* compares with it.                                                       *)
TakesAll ==
  Done /\ All => ToSet(vCoins) = Usable \/ Len(vCoins) = nMaxInput
=============================================================================
