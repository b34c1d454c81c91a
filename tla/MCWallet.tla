------------------------------ MODULE MCWallet ------------------------------
(* The wallet: its transactions and coins in a chain that is reorganized,  *)
(* with keys imported and the node restarted ("coins"), and with           *)
(* resynchronization, crashes and a chain that moves while the wallet      *)
(* reads it ("faults"); its keys, which are locked again after a time      *)
(* ("keys"); and the choice of coins, up to five of which four fit in a    *)
(* transaction ("select").                                                 *)
EXTENDS WalletKeys, Sequences, FiniteSets, TLC

CONSTANTS Parts, CanCrash, CanOverlap, None, s1, s2   \* Parts: the instances that run

VARIABLES part,
          last, pool, pc, change, mine, wallet, txDb, nTxCount, nSequence, txCache, syncing,
          todo, txUp, file, txStop, coins, nAmount, at, j, nTargetValue, mapValue, larger,
          vCoins, nValueRet

\* The branches a1 a2 and b1 b2 overtake each other.  The genesis block pays twice to A (g, h), a1 and b1
\* pay to C.  p spends g's output: to B, change to A; c and d both spend the change, c to itself without
\* change, d with h's output to C; e spends p's output at B, change to B, and pays to A.  m spends the mint
\* transaction of a1.  p is in both branches, d only in a2, c only in b2.
Block == {"g", "a1", "a2", "b1", "b2"}
Parent == [b \in Block \ {"g"} |-> CASE b \in {"a1", "b1"} -> "g" [] b = "a2" -> "a1" [] b = "b2" -> "b1"]
Chain == [b \in Block |-> CASE b = "g" -> {"g"} [] b \in {"a1", "b1"} -> {"g", b}
                            [] b = "a2" -> {"g", "a1", "a2"} [] b = "b2" -> {"g", "b1", "b2"}]
Time == [b \in Block |-> CASE b = "g" -> 0 [] b \in {"a1", "b1"} -> 1 [] OTHER -> 2]
ChainTrust == [b \in Block |-> CASE b = "g" -> 0 [] b = "a1" -> 1 [] b = "b1" -> 2 [] b = "a2" -> 3 [] b = "b2" -> 4]

Tx == Block \cup {"h", "p", "c", "d", "e", "m"}
Out == {"g0", "h0", "a10", "a20", "b10", "b20", "p0", "p1", "c0", "d0", "d1", "e0", "e1", "m0"}
Vtx == [b \in Block |-> <<b>> \o CASE b = "g" -> <<"h">> [] b = "a1" -> <<"p">> [] b = "a2" -> <<"d">>
                                   [] b = "b2" -> <<"p", "c">> [] OTHER -> <<>>]
Ins == [x \in Tx |-> CASE x = "p" -> {"g0"} [] x = "c" -> {"p1"} [] x = "d" -> {"p1", "h0"}
                       [] x = "e" -> {"p0"} [] x = "m" -> {"a10"} [] OTHER -> {}]
Out0 == ("g" :> "g0") @@ ("h" :> "h0") @@ ("a1" :> "a10") @@ ("a2" :> "a20") @@ ("b1" :> "b10") @@ ("b2" :> "b20")
          @@ ("p" :> "p0") @@ ("c" :> "c0") @@ ("d" :> "d0") @@ ("e" :> "e0") @@ ("m" :> "m0")
Out1 == [x \in Tx |-> CASE x = "p" -> "p1" [] x = "d" -> "d1" [] x = "e" -> "e1" [] OTHER -> None]
Outs == [x \in Tx |-> {Out0[x], Out1[x]} \ {None}]
sendTo == [x \in Tx |-> CASE x \in {"g", "h", "c", "e"} -> "A" [] x = "p" -> "B" [] OTHER -> "C"]
destIn == [x \in Tx |-> CASE x \in {"p", "c", "d"} -> "A" [] x = "e" -> "B" [] x = "m" -> "C" [] OTHER -> None]
Order == ("h" :> -1) @@ ("g" :> 0) @@ ("a1" :> 1) @@ ("b1" :> 2) @@ ("a2" :> 3) @@ ("b2" :> 4)
           @@ ("p" :> 5) @@ ("m" :> 6) @@ ("c" :> 7) @@ ("d" :> 8) @@ ("e" :> 9)

SignerSymmetry == Permutations({s1, s2})

Coins == INSTANCE WalletTx WITH Genesis <- "g", TxidOrder <- Order, Dest <- {"A", "B", "C"}, Mine <- {"A"},
    Importable <- {"B", "C"}, Thread <- {"t1"}, CanResync <- FALSE, CanCrash <- FALSE,
    CanOverlap <- FALSE, MaxStop <- 2, db <- txDb, up <- txUp, nStop <- txStop
Faults == INSTANCE WalletTx WITH Genesis <- "g", Block <- Block \ {"a2"}, Tx <- Tx \ {"m"}, TxidOrder <- Order,
    Dest <- {"A", "B", "C"}, Mine <- {"A"}, Importable <- {"B"}, Thread <- {"t1"},
    CanResync <- TRUE, CanCrash <- CanCrash, CanOverlap <- CanOverlap, MaxStop <- 1,
    db <- txDb, up <- txUp, nStop <- txStop
Select == INSTANCE CoinSelect WITH Value <- {1, 2, 3}, MaxCoins <- 5, Targets <- {-1} \cup 1..10, nMaxInput <- 4, pc <- at

ASSUME Coins!WalletConstants /\ KeyConstants /\ Select!SelectConstants

walletTxVars == <<last, pool, pc, change, mine, wallet, txDb, nTxCount, nSequence, txCache,
    syncing, todo, txUp, file, txStop>>
WalletTxIdle == last = 0 /\ pool = 0 /\ pc = 0 /\ change = 0 /\ mine = 0 /\ wallet = 0 /\ txDb = 0 /\
    nTxCount = 0 /\ nSequence = 0 /\ txCache = 0 /\ syncing = 0 /\ todo = 0 /\
    txUp = 0 /\ file = 0 /\ txStop = 0
coinSelectVars == <<coins, nAmount, at, j, nTargetValue, mapValue, larger, vCoins, nValueRet>>
CoinSelectIdle == coins = 0 /\ nAmount = 0 /\ at = 0 /\ j = 0 /\ nTargetValue = 0 /\ mapValue = 0 /\
    larger = 0 /\ vCoins = 0 /\ nValueRet = 0
mcVars == <<part, walletTxVars, vars, coinSelectVars>>

MCInit ==
    /\ part \in Parts
    /\ \/ part = "coins" /\ Coins!Init /\ Init /\ CoinSelectIdle
       \/ part = "faults" /\ Faults!Init /\ Init /\ CoinSelectIdle
       \/ part = "keys" /\ Init /\ WalletTxIdle /\ CoinSelectIdle
       \/ part = "select" /\ Select!Init /\ WalletTxIdle /\ Init

MCNext ==
    /\ UNCHANGED part
    /\ \/ part = "coins" /\ Coins!Next /\ UNCHANGED <<vars, coinSelectVars>>
       \/ part = "faults" /\ Faults!Next /\ UNCHANGED <<vars, coinSelectVars>>
       \/ part = "keys" /\ Next /\ UNCHANGED <<walletTxVars, coinSelectVars>>
       \/ part = "select" /\ Select!Next /\ UNCHANGED <<walletTxVars, vars>>

MCSpec == MCInit /\ [][MCNext]_mcVars

(* The wallet shows what the chain and the pool say: its coins are the     *)
(* unspent outputs of its destinations, in memory as in the cache, and the *)
(* records and their count on disk are those of the transactions of the    *)
(* chain that concern it.                                                  *)
WalletExact ==
  /\ part = "coins" => Coins!TypeOK /\
                       Coins!CoinsExact /\ Coins!CoinsCached /\ Coins!RecordsExact /\ Coins!CountExact
  /\ part = "faults" => Faults!CoinsCached /\ Faults!CountExact
  /\ part = "keys" => TypeOK

(* SelectCoins takes coins the wallet may spend, enough of them and no     *)
(* more than fit, finds a selection whenever there is one, and all of them *)
(* when everything is to be sent.                                          *)
SelectionRight ==
  part = "select" => Select!SelectionValid /\ Select!PaysIfPossible /\ Select!TakesAll

(* The coins stay exact also when the wallet is resynchronized: "Resync    *)
(* wallet's transactions." (src/script/template/rpc.json:2332).            *)
ResyncExact == part = "faults" => Faults!CoinsExact
=============================================================================
