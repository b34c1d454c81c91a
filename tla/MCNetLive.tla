----------------------------- MODULE MCNetLive -----------------------------
(* What must happen in the end in the network and while the node starts    *)
(* and stops:                                                              *)
(*   "catchUp"  NetChannel with two peers, q1 with both blocks, q2 with    *)
(*              the second only;                                           *)
(*   "announce" PushTx, two transactions, messages of one or two;          *)
(*   "locate"   BlockSync, blocks 1 to 7 and, from block 2 on, 13 to 19;   *)
(*   "stop"     Docker with the network, its channel, the statistics and   *)
(*              the recovery of a node, "start" where a start may fail and *)
(*              it may be stopped at any time.                             *)
EXTENDS Docker, Sequences, TLC

CONSTANTS Parts, None   \* Parts: the instances that run

VARIABLES part,
          conn, asked, locate, inbox, sched, peers, unsync, work, chain, txs, punished, resets,
          pool, link, watched, calls, push, pushSet, pushTimer, idle, pushArmed, firing, out,
          owes, rsp, has, last, tip, depth, invHeight, invBlock, due, request, answers, fetch,
          reorgs

Limits == [y \in {"block", "tx"} |-> 4]
Heights == ("b1" :> 1) @@ ("b2" :> 2)
Prevs == ("b1" :> "g") @@ ("b2" :> "b1")
Minters == ("b1" :> "b1") @@ ("b2" :> "b2")
Vtxs == ("b1" :> <<>>) @@ ("b2" :> <<>>)
Haves == ("q1" :> {"b1", "b2"}) @@ ("q2" :> {"b2"})
Blocks == 0..7 \cup 13..19
Parents == [b \in Blocks \ {0} |-> IF b = 13 THEN 2 ELSE b - 1]
Chains == [b \in Blocks |-> IF b < 13 THEN 0..b ELSE 0..2 \cup 13..b]
Kinds == <<"io", "event", "stat", "plain">>
Ios == 2 :> 1

Channel == INSTANCE NetChannel WITH Peer <- {"q1", "q2"}, Block <- {"b1", "b2"}, Tx <- {}, Height <- Heights, MaxInv <- 4,
    MaxPeerInv <- Limits, MaxReget <- 2, MaxRepeat <- 2, Prev <- Prevs, Genesis <- {"g"},
    Foreign <- {}, Minter <- Minters, Vtx <- Vtxs, TxPrev <- <<>>, Mint <- {}, Bad <- {},
    Has <- Haves, Local <- {}, CanFail <- FALSE, MaxSched <- 2, MaxGetBlocks <- 2,
    MaxAge <- 2, Clocks <- {"due"}, MaxQueue <- 1, MaxReset <- 0, queue <- inbox
Push == INSTANCE PushTx WITH Peer <- {"q1"}, Tx <- {"t1", "t2"}, MinInv <- 1, MaxInv <- 2, Slow <- {},
    MaxCalls <- 1, peers <- watched, timer <- pushTimer, armed <- pushArmed
Sync == INSTANCE BlockSync WITH Block <- Blocks, Parent <- Parents, Chain <- Chains, Genesis <- 0, IncStep <- 3,
    Start <- {0, 4, 7}, Tips <- {2, 5, 7, 18, 19}, MaxReorg <- 2
Node == INSTANCE Docker WITH CanFail <- {1, 2, 3}, BadHandler <- FALSE, EarlyStop <- FALSE

ASSUME Channel!NetChannelConstants /\ Push!PushTxConstants /\ Sync!SyncConstants /\
    DockerConstants

netChannelVars == <<conn, asked, locate, inbox, sched, peers, unsync, work, chain, txs, punished, resets>>
NetChannelIdle == conn = 0 /\ asked = 0 /\ locate = 0 /\ inbox = 0 /\ sched = 0 /\ peers = 0 /\
    unsync = 0 /\ work = 0 /\ chain = 0 /\ txs = 0 /\ punished = 0 /\ resets = 0
pushTxVars == <<pool, link, watched, calls, push, pushSet, pushTimer, idle, pushArmed, firing, out, owes, rsp>>
PushTxIdle == pool = 0 /\ link = 0 /\ watched = 0 /\ calls = 0 /\ push = 0 /\ pushSet = 0 /\
    pushTimer = 0 /\ idle = 0 /\ pushArmed = 0 /\ firing = 0 /\ out = 0 /\ owes = 0 /\ rsp = 0
blockSyncVars == <<has, last, tip, depth, invHeight, invBlock, due, request, answers, fetch, reorgs>>
BlockSyncIdle == has = 0 /\ last = 0 /\ tip = 0 /\ depth = 0 /\ invHeight = 0 /\ invBlock = 0 /\
    due = 0 /\ request = 0 /\ answers = 0 /\ fetch = 0 /\ reorgs = 0
vars == <<part, netChannelVars, pushTxVars, blockSyncVars, dockVars>>

Init ==
    /\ part \in Parts
    /\ \/ part = "catchUp" /\ Channel!Init /\ PushTxIdle /\ BlockSyncIdle /\ DockInit
       \/ part = "announce" /\ Push!PushInit /\ NetChannelIdle /\ BlockSyncIdle /\ DockInit
       \/ part = "locate" /\ Sync!Init /\ NetChannelIdle /\ PushTxIdle /\ DockInit
       \/ part = "stop" /\ Node!DockInit /\ NetChannelIdle /\ PushTxIdle /\ BlockSyncIdle
       \/ part = "start" /\ DockInit /\ NetChannelIdle /\ PushTxIdle /\ BlockSyncIdle

Next ==
    /\ UNCHANGED part
    /\ \/ part = "catchUp" /\ Channel!Next /\ UNCHANGED <<pushTxVars, blockSyncVars, dockVars>>
       \/ part = "announce" /\ Push!PushNext /\ UNCHANGED <<netChannelVars, blockSyncVars, dockVars>>
       \/ part = "locate" /\ Sync!Next /\ UNCHANGED <<netChannelVars, pushTxVars, dockVars>>
       \/ part = "stop" /\ Node!DockNext /\ UNCHANGED <<netChannelVars, pushTxVars, blockSyncVars>>
       \/ part = "start" /\ DockNext /\ UNCHANGED <<netChannelVars, pushTxVars, blockSyncVars>>

Spec == Init /\ [][Next]_vars
(* Threads run, timers fire, handlers come to an end, peers answer.  The   *)
(* parts do not change, so one strong fairness for a disjunction of        *)
(* actions of different parts is as good as one for each.                  *)
InChannel(A) == part = "catchUp" /\ A /\ UNCHANGED <<part, pushTxVars, blockSyncVars, dockVars>>
InPush(A) == part = "announce" /\ A /\ UNCHANGED <<part, netChannelVars, blockSyncVars, dockVars>>
InNode(A) == part = "stop" /\ A /\ UNCHANGED <<part, netChannelVars, pushTxVars, blockSyncVars>>
Answer(p) == Channel!RecvAnswer(p) \/ Channel!RecvLocated(p)
FairSpec ==
  /\ Spec
  /\ WF_netChannelVars(part = "catchUp" /\ (Channel!Step \/ Channel!Elapse \/ \E p \in {"q1", "q2"} : Channel!Handle(p)))
  /\ WF_pushTxVars(part = "announce" /\ Push!ExpirePush) /\ WF_pushTxVars(part = "announce" /\ Push!PushCheck)
  /\ WF_pushTxVars(part = "announce" /\ Push!PushMake)
  /\ WF_pushTxVars(part = "announce" /\ Push!RemoteReceive("q1"))
  /\ WF_pushTxVars(part = "announce" /\ Push!RemoteComplete("q1"))
  /\ WF_blockSyncVars(part = "locate" /\ Sync!Sync) /\ WF_blockSyncVars(part = "locate" /\ Sync!Wait)
  /\ WF_blockSyncVars(part = "locate" /\ Sync!Fetched)
  /\ WF_dockVars(part = "stop" /\ Node!Main)
  /\ WF_dockVars(part = "stop" /\ (Node!Expire \/ Node!CalledBack \/ Node!EndTimer))
  /\ \A m \in 1..4 : WF_dockVars(part = "stop" /\ Node!ThreadStep(m))
  /\ SF_vars(InChannel(Answer("q1")) \/ InPush(Push!Broadcast) \/ InNode(Node!Handled(1)))
  /\ SF_vars(InChannel(Answer("q2")) \/ InPush(Push!PushTxTimerFunc) \/ InNode(Node!Handled(2)))
  /\ SF_vars(InPush(Push!Events("q1")) \/ InNode(Node!Handled(3)))

(* The node gets the blocks of a peer that stays connected and tells it    *)
(* the transactions that stay in the pool: whatever the others do, however *)
(* the two chains part and the peer reorganizes, however announcements,    *)
(* answers and timers interleave.  A locator starts from a block the node  *)
(* has.                                                                    *)
Exchanges ==
  /\ <>[](part = "catchUp" /\ conn["q1"] = "up") => []<>(part = "catchUp" /\ Channel!CaughtUp("q1"))
  /\ \A t \in {"t1", "t2"} :
       <>[](part = "announce" /\ Push!Stays("q1", t)) => []<>(part = "announce" /\ Push!Told("q1", t))
  /\ []<>(part = "locate" => tip \in has)
  /\ [](part = "locate" => Sync!TypeOK /\ Sync!LocatorKnown)

(* Whoever stops the node sees it end, whatever its threads are doing, and *)
(* so does who starts it when the start fails.                             *)
Stops == []<>(part = "stop" => ~Ending \/ phase = "done")
=============================================================================
