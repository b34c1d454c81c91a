---------------------------- MODULE MCBlockChain ----------------------------
(* A small block tree for checking BlockChain with TLC.  Two branches, a1  *)
(* a2 a3 and b1 b2, overtake each other twice; a1, a2 and b1 have the same *)
(* time, so GetBranch overshoots.  t1 is in both branches; t2 and t4 spend *)
(* the same output of it, in different branches or both, invalidly, in x;  *)
(* y repeats t1.                                                           *)
EXTENDS BlockChain, TLC

MCBlock == {"g", "a1", "a2", "a3", "b1", "b2", "x", "y"}
MCValidBlock == MCBlock \ {"x", "y"}
MCParent == [b \in Block \ {"g"} |->
               CASE b \in {"a1", "b1"} -> "g" [] b \in {"a2", "x", "y"} -> "a1"
                 [] b = "a3" -> "a2" [] b = "b2" -> "b1"]
MCChain == [b \in Block |->
              CASE b = "g" -> {"g"} [] b \in {"a1", "b1"} -> {"g", b}
                [] b \in {"a2", "x", "y"} -> {"g", "a1", b}
                [] b = "a3" -> {"g", "a1", "a2", "a3"} [] b = "b2" -> {"g", "b1", "b2"}]
MCTime == [b \in Block |-> CASE b = "g" -> 0 [] b \in {"a1", "a2", "b1"} -> 1
                               [] b \in {"x", "y", "b2"} -> 2 [] b = "a3" -> 3]
MCChainTrust == [b \in Block |-> CASE b = "g" -> 0 [] b \in {"a1", "b1"} -> 1 [] b = "a2" -> 2
                                     [] b = "b2" -> 3 [] b = "a3" -> 4 [] b \in {"x", "y"} -> 9]

MCTx == Block \cup {"t1", "t2", "t4"}
MCOut == Block \cup {"p", "q", "r"}
MCVtx == [b \in Block |->
            <<b>> \o CASE b \in {"a1", "y"} -> <<"t1">> [] b = "a2" -> <<"t2">>
                       [] b = "b2" -> <<"t1", "t4">> [] b = "x" -> <<"t2", "t4">>
                       [] OTHER -> <<>>]
MCIns == [t \in Tx |-> CASE t = "t1" -> {"g"} [] t \in {"t2", "t4"} -> {"p"} [] OTHER -> {}]
MCOuts == [t \in Tx |-> CASE t = "t1" -> {"p"} [] t = "t2" -> {"q"} [] t = "t4" -> {"r"}
                            [] OTHER -> {t}]

ThreadSymmetry == Permutations(Thread)
=============================================================================
