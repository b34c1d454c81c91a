----------------------------- MODULE MCNetwork -----------------------------
(* NetChannel and PushTx with two peers and a few blocks or transactions:  *)
(* b1 is on the genesis block, b2 and b3 on b1, b4 on a block of another   *)
(* fork; t2 spends an output of t1, t3 one of t2.                          *)
(*   "blocks"    honest peers with the same blocks, which they may lose;   *)
(*   "bad"       q2 has a second block b3 of the minter of b2 that is      *)
(*               refused, and b4;                                          *)
(*   "txs"       transactions that age, some of them of one peer only;     *)
(*   "blockTxs"  a block with transactions others wait for, one refused;   *)
(*   "recovery"  CRecovery adds b1, the event queue may be reset;          *)
(*   "full"      three blocks of a minter, lists that two of them fill;    *)
(*   "push"      announcing a transaction to r1 and r2, which may stall.   *)
EXTENDS PushTx, TLC

CONSTANTS Parts, None, p1, p2, q1, q2, r1, r2   \* Parts: the instances that run

VARIABLES part,
          conn, asked, locate, queue, sched, nodes, unsync, work, chain, txs, punished, resets

PeerSymmetry == Permutations({p1, p2})

Height == [b \in {"b1", "b2", "b3", "b4"} |-> IF b = "b1" THEN 1 ELSE 2]
Prev == [b \in DOMAIN Height |-> IF b = "b1" THEN "g" ELSE IF b = "b4" THEN "f" ELSE "b1"]
Own == [b \in DOMAIN Height |-> b]
NoTxs == [b \in DOMAIN Height |-> <<>>]
Spends == [t \in {"m1", "t1", "t2", "t3"} |-> IF t = "t2" THEN {"t1"} ELSE IF t = "t3" THEN {"t2"} ELSE {}]
Everything == [p \in {p1, p2} |-> {"b1", "b2"}]
Limits(n) == [y \in {"block", "tx"} |-> IF y = "block" THEN n ELSE n \div 2]

Blocks == INSTANCE NetChannel WITH Peer <- {p1, p2}, Block <- {"b1", "b2"}, Tx <- {}, Height <- Height, Prev <- Prev,
    Foreign <- {}, Minter <- Own, Vtx <- NoTxs, TxPrev <- Spends, Mint <- {}, Bad <- {},
    Local <- {}, Has <- Everything, CanFail <- TRUE, MaxPeerInv <- Limits(4),
    MaxRepeat <- 2, MaxReset <- 0, Clocks <- {}, None <- None, MaxInv <- 4, MaxReget <- 2,
    Genesis <- {"g"}, MaxSched <- 2, MaxGetBlocks <- 2, MaxAge <- 2, MaxQueue <- 1, peers <- nodes
Refused == INSTANCE NetChannel WITH Peer <- {q1, q2}, Block <- DOMAIN Height, Tx <- {}, Height <- Height, Prev <- Prev,
    Foreign <- {"f"}, Minter <- [Own EXCEPT !["b3"] = "b2"], Vtx <- NoTxs, TxPrev <- Spends,
    Mint <- {}, Bad <- {"b3"}, Local <- {},
    Has <- (q1 :> {"b1", "b2"}) @@ (q2 :> {"b3", "b4"}), CanFail <- FALSE,
    MaxPeerInv <- Limits(4), MaxRepeat <- 2, MaxReset <- 0, Clocks <- {}, None <- None,
    MaxInv <- 4, MaxReget <- 2, Genesis <- {"g"}, MaxSched <- 2, MaxGetBlocks <- 2,
    MaxAge <- 2, MaxQueue <- 1, peers <- nodes
Pool == INSTANCE NetChannel WITH Peer <- {q1, q2}, Block <- {}, Tx <- {"t1", "t2"}, Height <- Height, Prev <- Prev,
    Foreign <- {}, Minter <- Own, Vtx <- NoTxs, TxPrev <- Spends, Mint <- {}, Bad <- {},
    Local <- {}, Has <- (q1 :> {"t1", "t2"}) @@ (q2 :> {"t2"}), CanFail <- FALSE,
    MaxPeerInv <- Limits(4), MaxRepeat <- 2, MaxReset <- 0, Clocks <- {"age"}, None <- None,
    MaxInv <- 4, MaxReget <- 2, Genesis <- {"g"}, MaxSched <- 2, MaxGetBlocks <- 2,
    MaxAge <- 1, MaxQueue <- 1, peers <- nodes
Spent == INSTANCE NetChannel WITH Peer <- {q1}, Block <- {"b1"}, Tx <- {"m1", "t1", "t2", "t3"}, Height <- Height,
    Prev <- Prev, Foreign <- {}, Minter <- Own, Vtx <- [b \in {"b1"} |-> <<"m1", "t1">>],
    TxPrev <- Spends, Mint <- {"m1"}, Bad <- {"t2"}, Local <- {},
    Has <- q1 :> {"b1", "m1", "t1", "t2", "t3"}, CanFail <- FALSE, MaxPeerInv <- Limits(8),
    MaxRepeat <- 2, MaxReset <- 0, Clocks <- {}, None <- None, MaxInv <- 8, MaxReget <- 2,
    Genesis <- {"g"}, MaxSched <- 2, MaxGetBlocks <- 2, MaxAge <- 2, MaxQueue <- 1, peers <- nodes
Recovered == INSTANCE NetChannel WITH Peer <- {q1, q2}, Block <- {"b1"}, Tx <- {"t1"}, Height <- Height, Prev <- Prev,
    Foreign <- {}, Minter <- Own, Vtx <- [NoTxs EXCEPT !["b1"] = <<"t1">>],
    TxPrev <- Spends, Mint <- {}, Bad <- {}, Local <- {"b1"},
    Has <- (q1 :> {"b1"}) @@ (q2 :> {"t1"}), CanFail <- FALSE, MaxPeerInv <- Limits(4),
    MaxRepeat <- 2, MaxReset <- 1, Clocks <- {"due"}, None <- None, MaxInv <- 4,
    MaxReget <- 2, Genesis <- {"g"}, MaxSched <- 2, MaxGetBlocks <- 2, MaxAge <- 2,
    MaxQueue <- 1, peers <- nodes
Full == INSTANCE NetChannel WITH Peer <- {q1}, Block <- {"b1", "b2", "b3"}, Tx <- {"m1", "t1"},
    Height <- [b \in {"b1", "b2", "b3"} |-> 1], Prev <- [b \in {"b1", "b2", "b3"} |-> "g"],
    Foreign <- {}, Minter <- [b \in {"b1", "b2", "b3"} |-> "b1"], Vtx <- NoTxs,
    TxPrev <- Spends, Mint <- {"m1", "t1"}, Bad <- {}, Local <- {},
    Has <- q1 :> {"b1", "b2", "b3", "m1", "t1"}, CanFail <- FALSE, MaxPeerInv <- Limits(2),
    MaxRepeat <- 3, MaxReset <- 0, Clocks <- {"stale", "due"}, None <- None, MaxInv <- 4,
    MaxReget <- 2, Genesis <- {"g"}, MaxSched <- 2, MaxGetBlocks <- 2, MaxAge <- 2,
    MaxQueue <- 1, peers <- nodes
ASSUME Blocks!NetChannelConstants /\ PushTxConstants

netChannelVars == <<conn, asked, locate, queue, sched, nodes, unsync, work, chain, txs, punished, resets>>
NetChannelIdle == conn = 0 /\ asked = 0 /\ locate = 0 /\ queue = 0 /\ sched = 0 /\ nodes = 0 /\
    unsync = 0 /\ work = 0 /\ chain = 0 /\ txs = 0 /\ punished = 0 /\ resets = 0
mcVars == <<part, netChannelVars, channelVars>>

MCInit ==
    /\ part \in Parts
    /\ \/ part = "blocks" /\ Blocks!Init /\ PushInit
       \/ part = "bad" /\ Refused!Init /\ PushInit
       \/ part = "txs" /\ Pool!Init /\ PushInit
       \/ part = "blockTxs" /\ Spent!Init /\ PushInit
       \/ part = "recovery" /\ Recovered!Init /\ PushInit
       \/ part = "full" /\ Full!Init /\ PushInit
       \/ part = "push" /\ PushInit /\ NetChannelIdle

MCNext ==
    /\ UNCHANGED part
    /\ \/ part = "blocks" /\ Blocks!Next /\ UNCHANGED channelVars
       \/ part = "bad" /\ Refused!Next /\ UNCHANGED channelVars
       \/ part = "txs" /\ Pool!Next /\ UNCHANGED channelVars
       \/ part = "blockTxs" /\ Spent!Next /\ UNCHANGED channelVars
       \/ part = "recovery" /\ Recovered!Next /\ UNCHANGED channelVars
       \/ part = "full" /\ Full!Next /\ UNCHANGED channelVars
       \/ part = "push" /\ PushNext /\ UNCHANGED netChannelVars

MCSpec == MCInit /\ [][MCNext]_mcVars

(* What the scheduler knows is consistent, whatever the order of           *)
(* announcements, answers, failures and disconnections: mapState and the   *)
(* lists of the peers agree, an object is asked of one peer at a time and  *)
(* the request is never forgotten, an orphan can be found from its parent. *)
RequestsExact ==
  /\ part = "blocks" => Blocks!TypeOK /\ Blocks!ListsAgree /\ Blocks!AssignedOnce /\ Blocks!NoLostRequest /\ Blocks!OrphanLinked
  /\ part = "txs" => Pool!AssignedOnce
  /\ part = "blockTxs" => Spent!ListsAgree
  /\ part = "push" => PushOK

(* Nothing that was received is left lying: when the event thread of       *)
(* CNetChannel is idle, no block or transaction waits whose parents are    *)
(* there, whichever way they came.                                         *)
NothingStranded ==
  /\ part = "blocks" => Blocks!NoStrandedBlock
  /\ part = "txs" => Pool!NoStrandedTx
  /\ part = "blockTxs" => Spent!NoStrandedTx

(* The node judges its peers by what they did: only a peer that had        *)
(* something invalid is closed as DDOS_ATTACK, and mapUnsync has exactly   *)
(* the subscribed peers that are connected and behind.                     *)
PeersJudged ==
  /\ part = "bad" => Refused!HonestKept
  /\ part = "recovery" => Recovered!SyncAgrees
  /\ part = "full" => Full!SyncAgrees
=============================================================================
