------------------------------- MODULE PushTx -------------------------------
(***************************************************************************)
(* CNetChannel announces the transactions of the pool to its peers: at     *)
(* once when there is a new one, else when the push timer fires, to a peer *)
(* that has fetched what it was told before.                               *)
(* (src/src/minemon/netchn.h and netchn.cpp)                               *)
(*                                                                         *)
(* Callers of BroadcastTxInv and the timer thread exclude each other by    *)
(* mtxPushTx, held here from Broadcast or PushTxTimerFunc to PushMake.     *)
(* Between PushCheck and PushMake it does not hold rwNetPeer: answers are  *)
(* handled meanwhile.  There is one fork.  A known transaction is kept:    *)
(* the pool is smaller than NETCHANNEL_KNOWNINV_MAXCOUNT.                  *)
(***************************************************************************)
EXTENDS Integers, FiniteSets, Sequences, Functions

CONSTANTS Peer, Tx, MinInv, MaxInv,      \* MIN_INV_COUNT, MAX_INV_COUNT
          Slow,                          \* peers that may be so slow that the node gives up
          MaxCalls                       \* bound: callers of BroadcastTxInv that wait

PushTxConstants == MinInv \in Nat \ {0} /\ MaxInv \in Nat /\ MinInv * 2 <= MaxInv

VARIABLES
  pool,                \* CTxPool::ListTx
  link,                \* the connection of a peer: "up" or "closed"
  peers,               \* mapPeer
  calls,               \* calls of BroadcastTxInv that wait for mtxPushTx
  push,                \* who is in PushTxInv, and how far
  pushSet,             \* the fork is in setPushTxFork
  timer, idle,         \* nTimerPushTx and fStartIdlePushTxTimer
  armed, firing,       \* timers of CDocker, and the one whose callback starts
  out,                 \* invs on their way to a peer
  owes,                \* the peer is still fetching what it was told
  rsp                  \* its answers on their way back

pushVars == <<push, pushSet, timer, idle, armed, firing>>
remoteVars == <<out, owes, rsp>>
channelVars == <<pool, link, peers, calls, pushVars, remoteVars>>

Status == {"init", "received", "complete"}    \* SYNTXINV_STATUS_: none, or what it waits for
PeerInv(status, known, count, late) ==
  [status |-> status, known |-> known, count |-> count, late |-> late]
NewPeer == PeerInv("init", {}, MaxInv \div 2, FALSE)

PushInit ==
  /\ pool = <<>> /\ link = [p \in Peer |-> "new"] /\ peers = <<>> /\ calls = 0
  /\ push = "none" /\ pushSet = FALSE /\ timer = 0 /\ idle = FALSE
  /\ armed = {} /\ firing = 0
  /\ out = [p \in Peer |-> <<>>] /\ owes = [p \in Peer |-> FALSE] /\ rsp = [p \in Peer |-> <<>>]

-----------------------------------------------------------------------------
(* SetTimer of CDocker: a new identifier.                                  *)
FreshTimer == CHOOSE i \in 1..3 : i # firing /\ i \notin armed
StartTimer(late) == /\ timer' = FreshTimer /\ armed' = armed \cup {FreshTimer}
                    /\ idle' = late

(* Mutant: a call while the timer runs is forgotten.                       *)
BroadcastForgets ==
  /\ calls > 0 /\ push = "none"
  /\ calls' = calls - 1
  /\ IF timer # 0 /\ ~idle
     THEN UNCHANGED <<push, pushSet, timer, idle, armed>>
     ELSE /\ armed' = armed \ {timer} /\ timer' = 0 /\ idle' = FALSE
          /\ push' = "broadcast" /\ UNCHANGED pushSet
  /\ UNCHANGED <<pool, link, peers, firing, remoteVars>>

(* A call of BroadcastTxInv gets mtxPushTx.  An idle timer is cancelled,   *)
(* which may come too late.                                                *)
Broadcast ==
  /\ calls > 0 /\ push = "none"
  /\ calls' = calls - 1
  /\ IF timer # 0 /\ ~idle
     THEN pushSet' = TRUE /\ UNCHANGED <<push, timer, idle, armed>>
     ELSE /\ armed' = armed \ {timer} /\ timer' = 0 /\ idle' = FALSE
          /\ push' = "broadcast" /\ UNCHANGED pushSet
  /\ UNCHANGED <<pool, link, peers, firing, remoteVars>>

(* TimerProc of CDocker takes the timer from its map, then calls.          *)
ExpirePush ==
  /\ firing = 0
  /\ \E i \in armed : firing' = i /\ armed' = armed \ {i}
  /\ UNCHANGED <<pool, link, peers, calls, push, pushSet, timer, idle, remoteVars>>

PushTxTimerFunc ==
  /\ firing # 0 /\ push = "none"
  /\ firing' = 0
  /\ \/ timer # firing /\ UNCHANGED <<push, timer, idle, armed>>
     \/ timer = firing /\ pushSet /\ push' = "timer" /\ timer' = 0 /\ UNCHANGED <<idle, armed>>
     \/ timer = firing /\ ~pushSet /\ StartTimer(TRUE) /\ UNCHANGED push
  /\ UNCHANGED <<pool, link, peers, calls, pushSet, remoteVars>>

-----------------------------------------------------------------------------
(* CheckTxInvSynStatus: a peer that has not even confirmed is late for     *)
(* good; one that does not come to an end is told the next ones.           *)
TimedOut(p) == peers[p].status = "received" /\ peers[p].late
Refresh(r) == IF r.status = "complete" /\ r.late
              THEN PeerInv("init", r.known, MinInv, FALSE) ELSE r
Allowed(p) == Refresh(peers[p]).status = "init"

(* DispatchMisbehaveEvent: the connections are closed.                     *)
Close(S) == link' = [p \in Peer |-> IF p \in S THEN "closed" ELSE link[p]]

(* The loop stops at the first peer that may be told something; the others *)
(* are looked at when the pool is not empty.                               *)
PushCheck ==
  /\ push \in {"broadcast", "timer"}
  /\ LET late == {p \in DOMAIN peers : TimedOut(p)}
         free == {p \in DOMAIN peers : Allowed(p)}
     IN \/ /\ free # {}
           /\ \E p \in free, S \in SUBSET late :
                /\ Close(S)
                /\ peers' = [peers EXCEPT ![p] = Refresh(@)]
           /\ push' = IF push = "timer" THEN "make timer" ELSE "make broadcast"
        \/ /\ free = {}
           /\ Close(late) /\ UNCHANGED peers
           /\ push' = IF push = "timer" THEN "done timer" ELSE "done broadcast"
  /\ UNCHANGED <<pool, calls, pushSet, timer, idle, armed, firing, remoteVars>>

(* MakeTxInv: what the peer is told.                                       *)
TxInv(r) == LET new == SelectSeq(pool, LAMBDA t : t \notin r.known) IN
            SubSeq(new, 1, IF Len(new) < r.count THEN Len(new) ELSE r.count)
MakeTxInv(r) ==
  IF Refresh(r).status # "init" \/ TxInv(Refresh(r)) = <<>> THEN Refresh(r)
  ELSE PeerInv("received", r.known \cup Range(TxInv(Refresh(r))), Refresh(r).count, FALSE)

(* Every message that is exactly full leaves the push incomplete.          *)
PushMake ==
  /\ push \in {"make broadcast", "make timer", "done broadcast", "done timer"}
  /\ LET make == push \in {"make broadcast", "make timer"} /\ pool # <<>>
         tell == {p \in DOMAIN peers : make /\ Allowed(p) /\ TxInv(Refresh(peers[p])) # <<>>}
         full == \E p \in tell : Len(TxInv(Refresh(peers[p]))) = MaxInv
     IN /\ peers' = IF make THEN [p \in DOMAIN peers |-> MakeTxInv(peers[p])] ELSE peers
        /\ out' = [p \in Peer |-> IF p \in tell /\ link[p] = "up"
                                  THEN Append(out[p], TxInv(Refresh(peers[p]))) ELSE out[p]]
        /\ Close({p \in DOMAIN peers : make /\ TimedOut(p)})
        /\ pushSet' = (pushSet \/ (push \in {"make broadcast", "done broadcast"} /\ full))
        /\ StartTimer(push \in {"make timer", "done timer"} /\ ~full)
  /\ push' = "none"
  /\ UNCHANGED <<pool, calls, firing, owes, rsp>>

-----------------------------------------------------------------------------
(* What calls BroadcastTxInv: a transaction has come to the pool, a peer   *)
(* has become synchronized (the first time: NetChannel has the others), a  *)
(* peer is done.                                                           *)
AddTx(t) ==
  /\ t \notin Range(pool) /\ calls < MaxCalls
  /\ pool' = Append(pool, t) /\ calls' = calls + 1
  /\ UNCHANGED <<link, peers, pushVars, remoteVars>>

(* A transaction is mined.                                                 *)
RemoveTx(t) ==
  /\ t \in Range(pool)
  /\ pool' = SelectSeq(pool, LAMBDA u : u # t)
  /\ UNCHANGED <<link, peers, calls, pushVars, remoteVars>>

Activate(p) ==
  /\ link[p] = "new" /\ calls < MaxCalls
  /\ link' = [link EXCEPT ![p] = "up"]
  /\ peers' = [q \in DOMAIN peers \cup {p} |-> IF q = p THEN NewPeer ELSE peers[q]]
  /\ calls' = calls + 1
  /\ UNCHANGED <<pool, pushVars, remoteVars>>

Disconnect(p) ==
  /\ link[p] = "up"
  /\ link' = [link EXCEPT ![p] = "closed"]
  /\ UNCHANGED <<pool, peers, calls, pushVars, remoteVars>>

Deactivate(p) ==
  /\ link[p] = "closed" /\ p \in DOMAIN peers
  /\ peers' = [q \in DOMAIN peers \ {p} |-> peers[q]]
  /\ UNCHANGED <<pool, link, calls, pushVars, remoteVars>>

(* ResetTxInvSynStatus: the more quickly the peer confirms, the more it is *)
(* told the next time.                                                     *)
Clamp(n) == IF n > MaxInv THEN MaxInv ELSE IF n < MinInv THEN MinInv ELSE n
Paced(n) == {Clamp(n * 2), Clamp(n + MinInv), Clamp(n), Clamp(n \div 2), Clamp(n - MinInv)}

(* Mutant: the first answer is taken for the end.                          *)
HandleReceivedEnds(p) ==
  /\ rsp[p] # <<>> /\ Head(rsp[p]) = "received"
  /\ rsp' = [rsp EXCEPT ![p] = Tail(@)]
  /\ \/ /\ p \in DOMAIN peers /\ peers[p].status = "received"
        /\ \E n \in Paced(peers[p].count) :
             peers' = [peers EXCEPT ![p] = PeerInv("init", @.known, n, FALSE)]
     \/ ~(p \in DOMAIN peers /\ peers[p].status = "received") /\ UNCHANGED peers
  /\ UNCHANGED <<pool, link, calls, pushVars, out, owes>>

(* The peer confirms.                                                      *)
HandleReceived(p) ==
  /\ rsp[p] # <<>> /\ Head(rsp[p]) = "received"
  /\ rsp' = [rsp EXCEPT ![p] = Tail(@)]
  /\ \/ /\ p \in DOMAIN peers /\ peers[p].status = "received"
        /\ \E n \in Paced(peers[p].count) :
             peers' = [peers EXCEPT ![p] = PeerInv("complete", @.known, n, FALSE)]
     \/ ~(p \in DOMAIN peers /\ peers[p].status = "received") /\ UNCHANGED peers
  /\ UNCHANGED <<pool, link, calls, pushVars, out, owes>>

HandleComplete(p) ==
  /\ rsp[p] # <<>> /\ Head(rsp[p]) = "complete" /\ calls < MaxCalls
  /\ rsp' = [rsp EXCEPT ![p] = Tail(@)]
  /\ \/ /\ p \in DOMAIN peers
        /\ peers' = [peers EXCEPT ![p] = PeerInv("init", @.known, @.count, FALSE)]
        /\ calls' = calls + 1
     \/ p \notin DOMAIN peers /\ UNCHANGED <<peers, calls>>
  /\ UNCHANGED <<pool, link, pushVars, out, owes>>

(* The node at the other end, which runs the same code: HandleEvent of an  *)
(* inv confirms and notes fWaitGetTxComplete, SchedulePeerInv reports the  *)
(* end when nothing is left to fetch.                                      *)
RemoteReceive(p) ==
  /\ link[p] = "up" /\ out[p] # <<>>
  /\ out' = [out EXCEPT ![p] = Tail(@)]
  /\ rsp' = [rsp EXCEPT ![p] = Append(@, "received")]
  /\ owes' = [owes EXCEPT ![p] = TRUE]
  /\ UNCHANGED <<pool, link, peers, calls, pushVars>>

RemoteComplete(p) ==
  /\ link[p] = "up" /\ owes[p]
  /\ owes' = [owes EXCEPT ![p] = FALSE]
  /\ rsp' = [rsp EXCEPT ![p] = Append(@, "complete")]
  /\ UNCHANGED <<pool, link, peers, calls, pushVars, out>>

(* SYNTXINV_RECEIVE_TIMEOUT, SYNTXINV_GETDATA_TIMEOUT or _COMPLETE_TIMEOUT *)
(* passes.                                                                 *)
Elapse(p) ==
  /\ p \in Slow \cap DOMAIN peers /\ peers[p].status # "init" /\ ~peers[p].late
  /\ Len(out[p]) + Len(rsp[p]) < 2
  /\ peers' = [peers EXCEPT ![p] = PeerInv(@.status, @.known, @.count, TRUE)]
  /\ UNCHANGED <<pool, link, calls, pushVars, remoteVars>>

Run == Broadcast \/ ExpirePush \/ PushTxTimerFunc \/ PushCheck \/ PushMake
Events(p) == Deactivate(p) \/ HandleReceived(p) \/ HandleComplete(p)
PushNext == \/ Run
        \/ \E t \in Tx : AddTx(t) \/ RemoveTx(t)
        \/ \E p \in Peer : \/ Activate(p) \/ Disconnect(p) \/ Events(p) \/ Elapse(p)
                           \/ RemoteReceive(p) \/ RemoteComplete(p)
PushSpec == PushInit /\ [][PushNext]_channelVars

-----------------------------------------------------------------------------
(* Type invariant; nSingleSynTxInvCount keeps to its bounds.               *)
PushOK ==
  /\ pool \in Seq(Tx) /\ link \in [Peer -> {"new", "up", "closed"}]
  /\ DOMAIN peers \subseteq Peer
  /\ \A p \in DOMAIN peers : peers[p] \in [status: Status, known: SUBSET Tx,
                                           count: MinInv..MaxInv, late: BOOLEAN]
  /\ calls \in 0..MaxCalls /\ pushSet \in BOOLEAN /\ idle \in BOOLEAN
  /\ timer \in 0..3 /\ armed \subseteq 1..3 /\ firing \in 0..3

(* The push timer never stops: from the first broadcast on somebody is in  *)
(* PushTxInv and will start it, or nTimerPushTx is a timer that is still   *)
(* to fire, however cancelling it and its firing cross.                    *)
TimerAlive == /\ timer # 0 => timer \in armed \cup {firing}
              /\ idle /\ push = "none" => timer # 0
              /\ timer = 0 /\ push = "none" => \A p \in DOMAIN peers : peers[p].known = {}

(* A peer is told more only after it has answered or been given up: unless *)
(* it was, one inv is under way to it, or it is fetching, never both, and  *)
(* no answer is left over.                                                 *)
Backpressure ==
  \A p \in DOMAIN peers \ Slow :
    /\ Len(out[p]) <= 1
    /\ out[p] # <<>> => ~owes[p] /\ rsp[p] = <<>> /\ peers[p].status = "received"
    /\ peers[p].status = "init" => out[p] = <<>> /\ ~owes[p] /\ rsp[p] = <<>>

(* Announcing neither stops nor overruns a peer: both of the above.        *)
PushOrderly == TimerAlive /\ Backpressure

(* A transaction in the pool and a peer that is connected; the peer was    *)
(* told the transaction, however many fit a message.                       *)
Stays(p, t) == t \in Range(pool) /\ link[p] = "up"
Told(p, t) == p \in DOMAIN peers /\ t \in peers[p].known
=============================================================================
