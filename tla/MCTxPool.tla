------------------------------ MODULE MCTxPool ------------------------------
(* A small instance of TxPool.  The branches a1 a2 and b1 b2 overtake each *)
(* other.  p spends the genesis block, c and d spend the same output of p, *)
(* e another one and an output of c; m spends the mint transaction of a1.  *)
(* p is in both branches, d only in a2, c only in b2; e is late for the    *)
(* early blocks, m only valid while the chain is short.                    *)
(* Two parts are checked in one run: in "restart" the node stops and       *)
(* starts again and only the dispatcher thread t3 works; in "threads" two  *)
(* threads work together, without restarts and with p, c and d only.       *)
EXTENDS TxPool

VARIABLE part

MCBlock == {"g", "a1", "a2", "b1", "b2"}
MCParent == [b \in Block \ {"g"} |->
               CASE b \in {"a1", "b1"} -> "g" [] b = "a2" -> "a1" [] b = "b2" -> "b1"]
MCChain == [b \in Block |-> CASE b = "g" -> {"g"} [] b \in {"a1", "b1"} -> {"g", b}
                              [] b = "a2" -> {"g", "a1", "a2"} [] b = "b2" -> {"g", "b1", "b2"}]
MCTime == [b \in Block |-> CASE b = "g" -> 0 [] b \in {"a1", "b1"} -> 1 [] OTHER -> 2]
MCChainTrust == [b \in Block |-> CASE b = "g" -> 0 [] b = "a1" -> 1 [] b = "b1" -> 2
                                   [] b = "a2" -> 3 [] b = "b2" -> 4]

MCTx == Block \cup {"p", "c", "d", "e", "m"}
MCOut == Block \cup {"p0", "p1", "c0", "d0", "e0", "m0"}
MCVtx == [b \in Block |-> <<b>> \o CASE b = "a1" -> <<"p">> [] b = "a2" -> <<"d">>
                                     [] b = "b2" -> <<"p", "c">> [] OTHER -> <<>>]
MCIns == [x \in Tx |-> CASE x = "p" -> {"g"} [] x \in {"c", "d"} -> {"p0"}
                         [] x = "e" -> {"p1", "c0"} [] x = "m" -> {"a1"} [] OTHER -> {}]
MCOuts == [x \in Tx |-> CASE x = "p" -> {"p0", "p1"} [] x = "c" -> {"c0"} [] x = "d" -> {"d0"}
                          [] x = "e" -> {"e0"} [] x = "m" -> {"m0"} [] OTHER -> {x}]
MCValid == [b \in Block |-> Tx \ (IF b \in {"a2", "b2"} THEN {"m"} ELSE {})]
MCTxTime == [x \in Tx |-> IF x = "e" THEN 2 ELSE 0]

CONSTANTS t1, t2, t3
ThreadSymmetry == Permutations({t1, t2})

MCInit == Init /\ part \in {"restart", "threads"}
MCNext ==
  /\ Next /\ UNCHANGED part
  /\ \A t \in Thread : pc'[t] # "idle" => (t = t3 <=> part = "restart")
  /\ part = "threads" => up' /\ tx' \notin {"e", "m"}
MCSpec == MCInit /\ [][MCNext]_<<vars, part>>
=============================================================================
