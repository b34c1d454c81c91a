----------------------------- MODULE NetChannel -----------------------------
(***************************************************************************)
(* CNetChannel: fetching the blocks and transactions of a fork from its    *)
(* peers.  The network thread (CBbPeerNet) owns the connections and posts  *)
(* events; one event thread handles them, in order, and orders the network *)
(* thread about; blocks and transactions go to CDispatcher.                *)
(* (src/src/minemon/netchn.h and .cpp, src/src/network/peernet.cpp,        *)
(* src/src/network/peer.cpp, src/src/xengine/peernet/peernet.cpp,          *)
(* src/src/xengine/event/eventproc.cpp)                                    *)
(*                                                                         *)
(* A Peer is a connection: its nonce is random and used once.  A handler   *)
(* that loops is a step per iteration, because the network thread and the  *)
(* other users of the chain run meanwhile; mtxSched keeps the schedule to  *)
(* the handler.  Announcing our own transactions is left to PushTx.        *)
(***************************************************************************)
EXTENDS Schedule

CONSTANTS Prev,            \* hashPrev of a block
          Genesis,         \* the blocks the chain starts with
          Foreign,         \* parents on another fork
          Minter,          \* destMint of a block
          Vtx,             \* the transactions of a block, txMint first
          TxPrev,          \* the transactions a transaction spends from
          Mint,            \* transactions with IsMintTx
          Bad,             \* objects CDispatcher refuses
          Has,             \* what a peer has, and may announce
          Local,           \* blocks CRecovery may add to the chain
          CanFail,         \* peers may have lost what they announced
          MaxSched,        \* MAX_PEER_SCHED_COUNT
          MaxGetBlocks,    \* MAX_GETBLOCKS_COUNT
          MaxAge,          \* bound: how old an inv gets
          Clocks,          \* bound: what passes, of "age", "stale" and "due"
          MaxQueue,        \* bound: events the network thread leaves queued
          MaxReset         \* bound: GetBlocks for a fork the node does not have

NetChannelConstants ==
  /\ ScheduleConstants
  /\ \A b \in Block : Prev[b] \in Block \cup Genesis \cup Foreign /\ Vtx[b] \in Seq(Tx)
  /\ Genesis \cap Inv = {} /\ Foreign \cap (Inv \cup Genesis) = {}
  /\ \A t \in Tx : TxPrev[t] \subseteq Tx
  /\ Mint \subseteq Tx /\ Bad \subseteq Inv /\ \A p \in Peer : Has[p] \subseteq Inv
  /\ Local \subseteq Block /\ CanFail \in BOOLEAN
  /\ Clocks \subseteq {"age", "stale", "due"}
  /\ {MaxSched, MaxGetBlocks, MaxAge, MaxQueue, MaxReset} \subseteq Nat

VARIABLES
  conn,                    \* CPeerNet::mapPeer: a peer is "new", "up" or "closed"
  asked,                   \* CBbPeer::mapRequest: invs whose timer runs
  locate,                  \* peers with a GetBlocks to answer
  queue,                   \* CEventQueue
  sched,                   \* mapSched of the fork
  peers,                   \* CNetChannel::mapPeer
  unsync,                  \* mapUnsync of the fork
  work,                    \* the handler that runs
  chain, txs,              \* blocks; transactions of the chain and the pool
  punished,                \* history: peers closed as DDOS_ATTACK
  resets                   \* history: how often the queue was emptied

netVars == <<conn, asked, locate>>
peerVars == <<peers, unsync>>
dataVars == <<chain, txs>>
vars == <<netVars, queue, sched, peerVars, work, dataVars, punished, resets>>

Event == [type: {"active", "deactive", "inv", "data", "getfail", "empty", "equal", "getblocks"},
          peer: Peer, inv: Seq(Inv)]
Ev(y, p, i) == [type |-> y, peer |-> p, inv |-> i]

(* The locals of the running handler.                                      *)
NoWork == [busy |-> FALSE,
           todo |-> <<>>,              \* vBlockHash from position i on
           pass |-> FALSE,             \* its first block is past VerifyRepeatBlock
           block |-> None,             \* the block whose transactions are visited
           calls |-> <<>>,             \* what is left to do for them
           vtx |-> <<>>, seen |-> {},  \* AddNewTx: vtx from position i on, setTx
           inner |-> {},               \* setPrevSchedPeer
           sched |-> {}, bad |-> {},   \* setSchedPeer, setMisbehavePeer
           gone |-> None]              \* the peer a Deactive removes
Busy == [NoWork EXCEPT !.busy = TRUE]
AtPost == /\ work.busy /\ work.vtx = <<>> /\ work.calls = <<>>
          /\ work.block = None /\ work.todo = <<>>

Init ==
  /\ conn = [p \in Peer |-> "new"] /\ asked = [p \in Peer |-> {}] /\ locate = {}
  /\ queue = <<>> /\ sched = NewSchedule /\ peers = <<>> /\ unsync = {}
  /\ work = NoWork /\ chain = Genesis /\ txs = {} /\ punished = {} /\ resets = 0

-----------------------------------------------------------------------------
(* The network thread.  It is kept from a handler between its first step   *)
(* and PostAddNew, where its steps commute with those of the handler.      *)
Quiet == ~work.busy \/ AtPost
Room == Quiet /\ Len(queue) < MaxQueue

(* HandlePeerHandshaked                                                    *)
Connect(p) ==
  /\ conn[p] = "new" /\ Room
  /\ conn' = [conn EXCEPT ![p] = "up"]
  /\ queue' = Append(queue, Ev("active", p, <<>>))
  /\ UNCHANGED <<asked, locate, sched, peerVars, work, dataVars, punished, resets>>

(* RemovePeer and DestroyPeer: the timers go, Deactive is posted.          *)
CloseNet(p) ==
  /\ conn' = [conn EXCEPT ![p] = "closed"]
  /\ asked' = [asked EXCEPT ![p] = {}]
  /\ locate' = locate \ {p}
ClosePeer(p) ==
  /\ conn[p] = "up" /\ Quiet
  /\ CloseNet(p)
  /\ queue' = Append(queue, Ev("deactive", p, <<>>))
  /\ UNCHANGED <<sched, peerVars, work, dataVars, punished, resets>>

(* HandlePeerRecvMessage: an announcement, an answer to GetData that stops *)
(* its timer, an answer to GetBlocks.                                      *)
RecvInv(p) ==
  /\ conn[p] = "up" /\ Room
  /\ \E i \in Has[p] : queue' = Append(queue, Ev("inv", p, <<i>>))
  /\ UNCHANGED <<netVars, sched, peerVars, work, dataVars, punished, resets>>

RecvAnswer(p) ==
  /\ conn[p] = "up" /\ Room
  /\ \E i \in asked[p] :
       /\ asked' = [asked EXCEPT ![p] = @ \ {i}]
       /\ \E y \in {"data"} \cup (IF CanFail THEN {"getfail"} ELSE {}) :
            queue' = Append(queue, Ev(y, p, <<i>>))
  /\ UNCHANGED <<conn, locate, sched, peerVars, work, dataVars, punished, resets>>

ByHeight(S) == SetToSortSeq(S, LAMBDA a, b : Height[a] < Height[b])
RecvLocated(p) ==
  /\ conn[p] = "up" /\ Room /\ p \in locate
  /\ locate' = locate \ {p}
  /\ LET new == (Has[p] \cap Block) \ chain IN
     \/ /\ new # {}
        /\ queue' = Append(queue, Ev("inv", p,
                             SubSeq(ByHeight(new), 1, IF Cardinality(new) < MaxGetBlocks
                                                      THEN Cardinality(new) ELSE MaxGetBlocks)))
     \/ /\ new = {}
        /\ \E y \in {"empty", "equal"} : queue' = Append(queue, Ev(y, p, <<>>))
  /\ UNCHANGED <<conn, asked, sched, peerVars, work, dataVars, punished, resets>>

(* GetBlocks for a fork GetBlockInv does not know, as SubscribeFork sends. *)
RecvGetBlocks(p) ==
  /\ conn[p] = "up" /\ Room /\ resets < MaxReset
  /\ queue' = Append(queue, Ev("getblocks", p, <<>>))
  /\ UNCHANGED <<netVars, sched, peerVars, work, dataVars, punished, resets>>

-----------------------------------------------------------------------------
(* Calls of the event thread into the network thread, which wait for it.   *)
(* GetData: a peer that is gone fails at once.                             *)
SendGetData(q, p, inv) ==
  IF inv = <<>> THEN UNCHANGED asked /\ queue' = q
  ELSE IF conn[p] = "up"
  THEN asked' = [asked EXCEPT ![p] = @ \cup ToSet(inv)] /\ queue' = q
  ELSE UNCHANGED asked /\ queue' = Append(q, Ev("getfail", p, inv))

(* DispatchMisbehaveEvent                                                  *)
Misbehave(p) ==
  IF conn[p] = "up"
  THEN /\ CloseNet(p) /\ punished' = punished \cup {p}
       /\ queue' = Append(queue, Ev("deactive", p, <<>>))
  ELSE UNCHANGED <<netVars, punished, queue>>

(* DispatchGetBlocksEvent: whether there is room or not, the next time is  *)
(* set; only a connected peer gets to see the request.                     *)
Locating(s, p) ==
  locate \cup (IF CheckAddInvIdleLocation(s, p, "block") /\ conn[p] = "up" THEN {p} ELSE {})

-----------------------------------------------------------------------------
(* EventThreadFunc hands the first event to its handler.                   *)
Take(y, p) ==
  /\ ~work.busy /\ queue # <<>>
  /\ Head(queue).type = y /\ Head(queue).peer = p

NewNetPeer(sub) == [sub |-> sub, sync |-> FALSE, wait |-> FALSE]

HandleActive(p) ==
  /\ Take("active", p)
  /\ queue' = Tail(queue)
  /\ peers' = Put(peers, p, NewNetPeer(TRUE)) /\ unsync' = unsync \cup {p}
  /\ locate' = Locating(sched, p) /\ sched' = SetDue(sched, p, FALSE)
  /\ UNCHANGED <<conn, asked, work, dataVars, punished, resets>>

HandleDeactive(p) ==
  /\ Take("deactive", p)
  /\ queue' = Tail(queue)
  /\ LET r == RemovePeer(sched, p) IN
     sched' = r.s /\ work' = [Busy EXCEPT !.sched = r.sched, !.gone = p]
  /\ UNCHANGED <<netVars, peerVars, dataVars, punished, resets>>

(* The invs of an announcement one after the other, counting the blocks    *)
(* that are there and those that are added.                                *)
LastHeight == Max({0} \cup {Height[b] : b \in chain \cap Block})
AddInv(p, a, i) ==
  IF i \in Tx
  THEN IF i \in txs THEN a ELSE [a EXCEPT !.s = AddNewInv(@, i, p)]
  ELSE IF i \in chain
  THEN [a EXCEPT !.have = @ + 1, !.s.peer = Put(@, p, PeerOf(a.s, p))]   \* SetLocatorInvBlockHash
  ELSE IF Height[i] > LastHeight + MaxPeerInv["block"] \div 2 THEN a
  ELSE [a EXCEPT !.s = AddNewInv(@, i, p),
                 !.new = IF CheckAddInvIdleLocation(a.s, p, "block") THEN @ + 1 ELSE @]
HandleInv(p) ==
  /\ Take("inv", p)
  /\ queue' = Tail(queue)
  /\ LET inv == Head(queue).inv
         a == FoldLeft(LAMBDA x, i : AddInv(p, x, i), [s |-> sched, have |-> 0, new |-> 0], inv)
     IN /\ sched' = IF a.have = MaxGetBlocks THEN SetDue(a.s, p, TRUE)
                    ELSE IF a.new = MaxGetBlocks THEN SetDue(a.s, p, FALSE) ELSE a.s
        /\ peers' = IF ToSet(inv) \cap Tx = {} THEN peers
                    ELSE Put(peers, p, [At(peers, p, NewNetPeer(FALSE)) EXCEPT
                                          !.wait = @ \/ At(peers, p, NewNetPeer(FALSE)).sub])
  /\ work' = [Busy EXCEPT !.sched = {p}]
  /\ UNCHANGED <<netVars, unsync, dataVars, punished, resets>>

(* A block or transaction that was not asked of the peer is ignored.       *)
IgnoreData(p) ==
  /\ Take("data", p)
  /\ ~Accepts(sched, p, Head(queue).inv[1])
  /\ queue' = Tail(queue)
  /\ UNCHANGED <<netVars, sched, peerVars, work, dataVars, punished, resets>>

(* CheckPrevBlock: the first of the received blocks the new one hangs on.  *)
FirstReceived(s, b) ==
  LET F[n \in 0..Cardinality(Block)] ==
        IF n = 0 THEN b
        ELSE LET c == F[n - 1] IN
             IF <<Prev[c], c>> \in s.orphan /\ Received(s, Prev[c]) THEN Prev[c] ELSE c
  IN F[Cardinality(Block)]
HandleBlock(p) ==
  /\ Take("data", p)
  /\ LET b == Head(queue).inv[1]
         r == Receive(sched, p, b)
         s == IF Prev[b] \in chain \cup Foreign THEN r ELSE AddOrphanPrev(r, b, Prev[b])
         f == IF Prev[b] \in chain \cup Foreign THEN b ELSE FirstReceived(s, b)
         w == [Busy EXCEPT !.sched = Known(r, b)]
     IN /\ b \in Block /\ Accepts(sched, p, b)
        /\ \/ /\ Prev[f] \in chain
              /\ sched' = s /\ work' = [w EXCEPT !.todo = <<f>>]
           \/ /\ Prev[f] \in Foreign
              /\ sched' = Invalidate(s, f) /\ work' = [w EXCEPT !.bad = Blamed(s, f)]
           \/ /\ Prev[f] \notin chain \cup Foreign
              /\ sched' = s /\ work' = w
  /\ queue' = Tail(queue)
  /\ UNCHANGED <<netVars, peerVars, dataVars, punished, resets>>

(* A mint transaction is only kept, for a while.                           *)
HandleTx(p) ==
  /\ Take("data", p)
  /\ LET t == Head(queue).inv[1]
         s == Receive(sched, p, t)
     IN /\ t \in Tx /\ Accepts(sched, p, t)
        /\ sched' = s
        /\ work' = IF t \in Mint THEN work
                   ELSE [Busy EXCEPT !.vtx = <<t>>, !.sched = Known(s, t)]
  /\ queue' = Tail(queue)
  /\ UNCHANGED <<netVars, peerVars, dataVars, punished, resets>>

HandleGetFail(p) ==
  /\ Take("getfail", p)
  /\ sched' = FoldLeft(LAMBDA s, i : CancelAssignedInv(s, p, i), sched, Head(queue).inv)
  /\ queue' = Tail(queue)
  /\ UNCHANGED <<netVars, peerVars, work, dataVars, punished, resets>>

(* MsgRsp to a GetBlocks                                                   *)
HandleRspEmpty(p) ==
  /\ Take("empty", p)
  /\ queue' = Tail(queue)
  /\ locate' = Locating(sched, p) /\ sched' = SetDue(sched, p, FALSE)
  /\ UNCHANGED <<conn, asked, peerVars, work, dataVars, punished, resets>>

HandleRspEqual(p) ==
  /\ Take("equal", p)
  /\ queue' = Tail(queue)
  /\ sched' = SetDue(sched, p, FALSE) /\ work' = [Busy EXCEPT !.sched = {p}]
  /\ UNCHANGED <<netVars, peerVars, dataVars, punished, resets>>

(* A handler that returns false has EventThreadFunc reset the queue.       *)
HandleGetBlocks(p) ==
  /\ Take("getblocks", p)
  /\ queue' = <<>> /\ resets' = resets + 1
  /\ UNCHANGED <<netVars, sched, peerVars, work, dataVars, punished>>

-----------------------------------------------------------------------------
(* AddNewTx, one transaction of its list.  Called for the orphans of a     *)
(* block's transactions it has sets of its own, which nobody reads.        *)
Inner == work.block # None
Wake(w, P) == IF Inner THEN [w EXCEPT !.inner = @ \cup P] ELSE [w EXCEPT !.sched = @ \cup P]
Children(w, t, s) ==
  LET new == GetNext(s, t) \ w.seen IN
  [w EXCEPT !.vtx = Tail(@) \o SetToSeq(new), !.seen = @ \cup new]
AtTx == work.busy /\ work.vtx # <<>>
TxOnly == UNCHANGED <<netVars, queue, peerVars, chain, punished, resets>>

SkipTx ==
  /\ AtTx /\ ~Received(sched, Head(work.vtx))
  /\ work' = [work EXCEPT !.vtx = Tail(@)]
  /\ UNCHANGED <<sched, txs>> /\ TxOnly

(* CheckPrevTx: the missing parents are asked of the peers that know it.   *)
MissPrev(P, t, s, q) ==
  LET o == CheckPrevTxInv(AddOrphanPrev(s, t, q), q) IN
  IF q \in DOMAIN s.state THEN o ELSE FoldSet(LAMBDA p, r : AddNewInv(r, q, p), o, P)
MissingPrevTx ==
  /\ AtTx /\ Received(sched, Head(work.vtx))
  /\ LET t == Head(work.vtx)
         missing == TxPrev[t] \ txs
         P == IF Inner THEN work.inner ELSE work.sched
     IN /\ missing # {}
        /\ sched' = FoldSet(LAMBDA q, s : MissPrev(P, t, s, q), sched, missing)
  /\ work' = [work EXCEPT !.vtx = Tail(@)]
  /\ UNCHANGED txs /\ TxOnly

Complete(t) == t \in Tx /\ Received(sched, t) /\ TxPrev[t] \subseteq txs
AddTx ==
  /\ AtTx /\ Complete(Head(work.vtx))
  /\ LET t == Head(work.vtx) IN
     /\ t \in txs \/ t \notin Bad
     /\ txs' = txs \cup {t}
     /\ work' = Wake(Children(work, t, sched), Known(sched, t))
     /\ sched' = RemoveInv(sched, t)
  /\ TxOnly

(* CTxPool refuses it for what else is in the pool: it is dropped, not     *)
(* invalid.  (No error of CDispatcher::AddNewTx keeps it in the schedule.) *)
RefuseTx ==
  /\ AtTx /\ Complete(Head(work.vtx))
  /\ LET t == Head(work.vtx) IN
     /\ t \notin txs \cup Bad
     /\ sched' = RemoveInv(sched, t)
     /\ work' = Wake([work EXCEPT !.vtx = Tail(@)], Known(sched, t))
  /\ UNCHANGED txs /\ TxOnly

InvalidTx ==
  /\ AtTx /\ Complete(Head(work.vtx))
  /\ LET t == Head(work.vtx)
         w == [work EXCEPT !.vtx = Tail(@)]
     IN /\ t \in Bad \ txs
        /\ sched' = Invalidate(sched, t)
        /\ work' = IF Inner THEN w ELSE [w EXCEPT !.bad = @ \cup Blamed(sched, t)]
  /\ UNCHANGED txs /\ TxOnly

-----------------------------------------------------------------------------
(* AddNewBlock, one block of its list.                                     *)
AtBlock == /\ work.busy /\ work.vtx = <<>> /\ work.calls = <<>>
           /\ work.block = None /\ work.todo # <<>>
BlockOnly == UNCHANGED <<netVars, queue, peerVars, punished, resets>>

SkipBlock ==
  /\ AtBlock /\ ~Received(sched, Head(work.todo))
  /\ work' = [work EXCEPT !.todo = Tail(@)]
  /\ UNCHANGED <<sched, dataVars>> /\ BlockOnly

(* VerifyRepeatBlock: the minter has a block at this height already, which *)
(* may be this one, when another thread has added it.                      *)
Repeats(b) == \E c \in chain \cap Block : Height[c] = Height[b] /\ Minter[c] = Minter[b]
RepeatBlock ==
  /\ AtBlock /\ ~work.pass /\ Received(sched, Head(work.todo))
  /\ LET b == Head(work.todo)
         p == sched.state[b].assigned
     IN /\ Repeats(b) /\ ~sched.state[b].repeat
        /\ sched' = SetRepeatBlock(sched, p, b)
        /\ work' = [work EXCEPT !.todo = <<>>,
                                !.bad = IF RepeatsTooOften(sched, p, b) THEN @ \cup {p} ELSE @]
  /\ UNCHANGED dataVars /\ BlockOnly

PassBlock ==
  /\ AtBlock /\ ~work.pass /\ Received(sched, Head(work.todo))
  /\ sched.state[Head(work.todo)].repeat \/ ~Repeats(Head(work.todo))
  /\ work' = [work EXCEPT !.pass = TRUE]
  /\ UNCHANGED <<sched, dataVars>> /\ BlockOnly

(* The children come next, the block leaves the schedule.                  *)
DoneBlockAlone(b) ==
  /\ sched' = RemoveInv(sched, b)
  /\ work' = [work EXCEPT !.todo = Tail(@), !.block = None, !.pass = FALSE,
                          !.sched = @ \cup Known(sched, b)]
DoneBlock(b) ==
  /\ sched' = RemoveInv(sched, b)
  /\ work' = [work EXCEPT !.todo = Tail(@) \o SetToSeq(GetNext(sched, b)), !.block = None, !.pass = FALSE,
                          !.sched = @ \cup Known(sched, b)]

HaveBlock ==
  /\ AtBlock /\ work.pass /\ Head(work.todo) \in chain
  /\ DoneBlock(Head(work.todo))
  /\ UNCHANGED dataVars /\ BlockOnly

AddBlock ==
  /\ AtBlock /\ work.pass
  /\ LET b == Head(work.todo) IN
     /\ b \notin chain \cup Bad /\ Prev[b] \in chain
     /\ chain' = chain \cup {b} /\ txs' = txs \cup ToSet(Vtx[b])
     /\ work' = [work EXCEPT !.block = b,
                             !.calls = [k \in 1..Len(Vtx[b]) |-> [op |-> "next", tx |-> Vtx[b][k]]]]
  /\ UNCHANGED sched /\ BlockOnly

RejectBlock ==
  /\ AtBlock /\ work.pass
  /\ LET b == Head(work.todo) IN
     /\ b \notin chain /\ (b \in Bad \/ Prev[b] \notin chain)
     /\ sched' = Invalidate(sched, b)
     /\ work' = [work EXCEPT !.todo = Tail(@), !.pass = FALSE, !.bad = @ \cup Blamed(sched, b)]
  /\ UNCHANGED dataVars /\ BlockOnly

(* The orphans of each transaction of the block, then its own inv.         *)
NextCall ==
  /\ work.busy /\ work.vtx = <<>> /\ work.calls # <<>>
  /\ LET c == Head(work.calls)
         kids == SetToSeq(GetNext(sched, c.tx))
         w == [work EXCEPT !.calls = Tail(@)]
     IN \/ /\ c.op = "next"
           /\ work' = [w EXCEPT !.calls = [k \in 1..Len(kids) |-> [op |-> "add", tx |-> kids[k]]]
                                             \o <<[op |-> "drop", tx |-> c.tx]>> \o @,
                                !.inner = {}]
           /\ UNCHANGED sched
        \/ /\ c.op = "add"
           /\ work' = [w EXCEPT !.vtx = <<c.tx>>, !.seen = {}]
           /\ UNCHANGED sched
        \/ /\ c.op = "drop"
           /\ work' = [w EXCEPT !.sched = @ \cup Known(sched, c.tx)]
           /\ sched' = RemoveInv(sched, c.tx)
  /\ UNCHANGED dataVars /\ BlockOnly

FinishBlock ==
  /\ work.busy /\ work.vtx = <<>> /\ work.calls = <<>> /\ work.block # None
  /\ DoneBlock(work.block)
  /\ UNCHANGED dataVars /\ BlockOnly

-----------------------------------------------------------------------------
(* PostAddNew, and the end of the handlers that schedule peers.            *)

(* SetPeerSyncStatus; mapPeer makes an entry for a peer it does not have.  *)
SetSync(p, sync, wait) ==
  LET r == At(peers, p, NewNetPeer(FALSE)) IN
  /\ peers' = Put(peers, p, [r EXCEPT !.sync = IF r.sub THEN sync ELSE @, !.wait = wait])
  /\ unsync' = IF ~r.sub \/ r.sync = sync THEN unsync
               ELSE IF sync THEN unsync \ {p} ELSE unsync \cup {p}

SchedulePeerInv(p) ==
  \E b \in {ScheduleBlockInv(sched, p)} :
  \E x \in {ScheduleTxInv(b.s, p, MaxSched)} :
  LET wait == At(peers, p, NewNetPeer(FALSE)).wait
      sync == PeerOf(sched, p).list["block"] = <<>>
  IN \/ /\ ~b.ok
        /\ sched' = b.s /\ Misbehave(p) /\ UNCHANGED peerVars
     \/ /\ b.ok /\ b.missing
        /\ sched' = SetDue(b.s, p, FALSE) /\ locate' = Locating(b.s, p)
        /\ SetSync(p, sync, wait)
        /\ UNCHANGED <<conn, asked, queue, punished>>
     \/ /\ b.ok /\ b.inv # <<>>
        /\ sched' = SetDue(b.s, p, TRUE) /\ SendGetData(queue, p, b.inv)
        /\ SetSync(p, sync, wait)
        /\ UNCHANGED <<conn, locate, punished>>
     \/ /\ b.ok /\ ~b.missing /\ b.inv = <<>> /\ x.ok
        /\ sched' = x.s /\ SendGetData(queue, p, x.inv)
        /\ SetSync(p, sync, wait /\ ~x.all)
        /\ UNCHANGED <<conn, locate, punished>>
     \/ /\ b.ok /\ ~b.missing /\ b.inv = <<>> /\ ~x.ok
        /\ sched' = x.s /\ Misbehave(p) /\ SetSync(p, sync, wait)

PostSchedule(p) ==
  /\ AtPost /\ p \in work.sched \ work.bad
  /\ SchedulePeerInv(p)
  /\ work' = [work EXCEPT !.sched = @ \ {p}]
  /\ UNCHANGED <<dataVars, resets>>

PostMisbehave(p) ==
  /\ AtPost /\ work.sched \subseteq work.bad /\ p \in work.bad
  /\ Misbehave(p)
  /\ work' = [work EXCEPT !.sched = @ \ {p}, !.bad = @ \ {p}]
  /\ UNCHANGED <<sched, peerVars, dataVars, resets>>

(* Mutant: the peer that left stays in mapUnsync.                          *)
FinishKeepsUnsync ==
  /\ AtPost /\ work.sched = {} /\ work.bad = {}
  /\ work' = NoWork
  /\ peers' = Drop(peers, {work.gone})
  /\ UNCHANGED <<unsync, netVars, queue, sched, dataVars, punished, resets>>
Finish ==
  /\ AtPost /\ work.sched = {} /\ work.bad = {}
  /\ work' = NoWork
  /\ peers' = Drop(peers, {work.gone})
  /\ unsync' = IF work.gone \in DOMAIN peers /\ peers[work.gone].sub
               THEN unsync \ {work.gone} ELSE unsync
  /\ UNCHANGED <<netVars, queue, sched, dataVars, punished, resets>>

-----------------------------------------------------------------------------
(* Time passes; CRecovery adds blocks of its own.                          *)
Elapse ==
  /\ Quiet
  /\ \/ \E i \in DOMAIN sched.state :
          \/ /\ sched.state[i].age < MaxAge /\ "age" \in Clocks
             /\ sched' = [sched EXCEPT !.state[i].age = @ + 1]
          \/ /\ sched.state[i].received /\ ~sched.state[i].stale /\ "stale" \in Clocks
             /\ sched' = [sched EXCEPT !.state[i].stale = TRUE]
     \/ \E p \in DOMAIN sched.peer :
          /\ ~sched.peer[p].due /\ "due" \in Clocks
          /\ sched' = [sched EXCEPT !.peer[p].due = TRUE]
  /\ UNCHANGED <<netVars, queue, peerVars, work, dataVars, punished, resets>>

RecoverBlock ==
  /\ \E b \in Local \ chain :
       /\ Prev[b] \in chain
       /\ chain' = chain \cup {b} /\ txs' = txs \cup ToSet(Vtx[b])
  /\ UNCHANGED <<netVars, queue, sched, peerVars, work, punished, resets>>

Net(p) == RecvInv(p) \/ RecvAnswer(p) \/ RecvLocated(p) \/ RecvGetBlocks(p)
Handle(p) == \/ HandleActive(p) \/ HandleDeactive(p) \/ HandleInv(p) \/ IgnoreData(p)
             \/ HandleBlock(p) \/ HandleTx(p) \/ HandleGetFail(p) \/ HandleRspEmpty(p)
             \/ HandleRspEqual(p) \/ HandleGetBlocks(p)
Step == \/ SkipTx \/ MissingPrevTx \/ AddTx \/ RefuseTx \/ InvalidTx
        \/ SkipBlock \/ RepeatBlock \/ PassBlock \/ HaveBlock \/ AddBlock \/ RejectBlock
        \/ NextCall \/ FinishBlock \/ Finish
        \/ \E p \in Peer : PostSchedule(p) \/ PostMisbehave(p)
Next == \/ \E p \in Peer : Connect(p) \/ ClosePeer(p) \/ Net(p) \/ Handle(p)
        \/ Step \/ Elapse \/ RecoverBlock

Spec == Init /\ [][Next]_vars

-----------------------------------------------------------------------------
(* Properties *)

(* Type invariant of the variables.                                        *)
TypeOK ==
  /\ conn \in [Peer -> {"new", "up", "closed"}]
  /\ asked \in [Peer -> SUBSET Inv] /\ locate \subseteq Peer
  /\ queue \in Seq(Event)
  /\ \A i \in DOMAIN sched.state : i \in Inv /\ sched.state[i] \in State
  /\ \A p \in DOMAIN sched.peer : p \in Peer /\ sched.peer[p] \in PeerInv
  /\ sched.orphan \subseteq (Block \X Block) \cup (Tx \X Tx) /\ sched.miss \subseteq Tx
  /\ DOMAIN peers \subseteq Peer /\ unsync \subseteq Peer
  /\ chain \subseteq Block \cup Genesis /\ txs \subseteq Tx
  /\ punished \subseteq Peer /\ resets \in 0..MaxReset

Listed(p) == ToSet(sched.peer[p].list["block"]) \cup ToSet(sched.peer[p].list["tx"])

(* mapState and the lists of the peers agree: an inv is listed for a peer  *)
(* exactly when the peer is in its setKnownPeer, and never twice.  So      *)
(* RemovePeer, which goes by the lists, leaves no trace of the peer, and   *)
(* no inv stays in mapState after the last peer that has it.               *)
ListsAgree ==
  /\ \A p \in DOMAIN sched.peer : \A i \in Inv :
       i \in Listed(p) <=> p \in Known(sched, i)
  /\ \A i \in DOMAIN sched.state : sched.state[i].known # {} /\ sched.state[i].known \subseteq DOMAIN sched.peer
  /\ \A p \in DOMAIN sched.peer, y \in {"block", "tx"} :
       Cardinality(ToSet(sched.peer[p].list[y])) = Len(sched.peer[p].list[y])

(* An inv that is asked for is asked of one peer: nAssigned and the        *)
(* setAssigned of the peers say the same until it is received.             *)
AssignedOnce ==
  \A i \in Inv, p \in Peer :
    (p \in DOMAIN sched.peer /\ i \in sched.peer[p].assigned)
      <=> (i \in DOMAIN sched.state /\ sched.state[i].assigned = p /\ ~sched.state[i].received)

Queued(y, p, i) == \E k \in 1..Len(queue) :
  queue[k].type = y /\ queue[k].peer = p /\ (i = None \/ i \in ToSet(queue[k].inv))

(* No request is forgotten: as long as an inv is assigned to a peer, which *)
(* keeps it from all others and the peer from all other work, its timer    *)
(* runs, or the answer, the failure or the end of the peer is queued.  The *)
(* event thread breaks this when it resets the queue.                      *)
NoLostRequest ==
  resets = 0 =>
    \A p \in DOMAIN sched.peer : \A i \in sched.peer[p].assigned :
      \/ i \in asked[p]
      \/ Queued("data", p, i) \/ Queued("getfail", p, i) \/ Queued("deactive", p, None)

(* A block received before its parent can be found from the parent.        *)
OrphanLinked ==
  \A b \in Block : Received(sched, b) /\ Prev[b] \notin chain \cup Foreign
                     => <<Prev[b], b>> \in sched.orphan

(* When the event thread is idle no received block waits although its      *)
(* parent is in the chain, unless a minter's second block at a height, or  *)
(* a block of CRecovery, was met on the way.                               *)
NoStrandedBlock ==
  ~work.busy =>
    \A b \in Block : Received(sched, b) /\ Prev[b] \in chain
      => Prev[b] \in Local \/ \E c \in Block : Received(sched, c) /\ sched.state[c].repeat

(* The same of transactions: when the event thread is idle no received      *)
(* transaction waits although all it spends from is in the chain or pool,  *)
(* whether its parents came alone, one after the other, or in a block.     *)
NoStrandedTx ==
  ~work.busy => \A t \in Tx \ Mint :
    Received(sched, t) => \E q \in TxPrev[t] : q \notin txs \/ \E b \in Local : q \in ToSet(Vtx[b])

(* Descendants of a block that CDispatcher refuses, or of another fork.    *)
Tainted[b \in Block] == b \in Bad \/ Prev[b] \in Foreign \/ (Prev[b] \in Block /\ Tainted[Prev[b]])
Dishonest(p) == \/ \E b \in Has[p] \cap Block : Tainted[b]
                \/ Has[p] \cap (Mint \cup (Tx \cap Bad)) # {}
                \/ \E b, c \in Has[p] \cap Block : b # c /\ Height[b] = Height[c] /\ Minter[b] = Minter[c]

(* Only a peer that had something invalid is closed as DDOS_ATTACK:        *)
(* whatever the order in which blocks, transactions and answers come, no   *)
(* object is handed to CDispatcher before its parents, and a list never    *)
(* fills up with objects that wait.                                        *)
HonestKept == \A p \in punished : Dishonest(p)

(* mapUnsync has the subscribed peers that are not synchronized, and no    *)
(* map has an entry for a peer that is gone.                               *)
SyncAgrees ==
  /\ unsync = {p \in DOMAIN peers : peers[p].sub /\ ~peers[p].sync}
  /\ resets = 0 => \A p \in DOMAIN peers \cup DOMAIN sched.peer :
       peers[p].sub /\ (conn[p] = "up" \/ Queued("deactive", p, None) \/ work.gone = p)

(* The node has every block of a peer that has whole chains.               *)
CaughtUp(p) == (\A b \in Has[p] \cap Block : Prev[b] \in Has[p] \cup Genesis) => Has[p] \cap Block \subseteq chain
=============================================================================
