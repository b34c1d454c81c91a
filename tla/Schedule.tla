------------------------------ MODULE Schedule ------------------------------
(***************************************************************************)
(* CSchedule: what to fetch from which peer.  An inventory entry (inv) is  *)
(* a block or a transaction some peers have announced; it is asked of one  *)
(* of them at a time, and kept when it has come before its parents.        *)
(* (src/src/minemon/schedule.h and schedule.cpp)                           *)
(*                                                                         *)
(* The schedule of a fork is a record s that the operators below take and  *)
(* return; NetChannel holds it in a variable and calls them under mtxSched.*)
(* Time is abstract: an age counts the thresholds an inv has outlived, and *)
(* a flag says that nClearObjTime or nNextGetBlocksTime has passed.        *)
(***************************************************************************)
EXTENDS Integers, FiniteSets, SequencesExt

CONSTANTS Peer, Block, Tx,
          None,            \* nonce 0: nobody
          Height,          \* of a block, which its hash contains
          MaxInv,          \* MAX_INV_COUNT
          MaxPeerInv,      \* MAX_PEER_BLOCK_INV_COUNT, MAX_PEER_TX_INV_COUNT
          MaxReget,        \* MAX_REGETDATA_COUNT
          MaxRepeat        \* MAX_REPEAT_BLOCK_COUNT

Inv == Block \cup Tx
Type(i) == IF i \in Tx THEN "tx" ELSE "block"

ScheduleConstants ==
  /\ Block \cap Tx = {} /\ None \notin Peer
  /\ \A b \in Block : Height[b] \in Nat
  /\ MaxInv \in Nat /\ MaxPeerInv \in [{"block", "tx"} -> Nat]
  /\ MaxReget \in Nat /\ MaxRepeat \in Nat

State == [assigned: Peer \cup {None}, received: BOOLEAN, known: SUBSET Peer,
          age: 0..2,       \* since nRecvInvTime: below, past 1, past 12 MAX_INV_WAIT_TIME
          stale: BOOLEAN,  \* nClearObjTime has passed
          gets: 0..MaxReget, repeat: BOOLEAN]
NewState == [assigned |-> None, received |-> FALSE, known |-> {}, age |-> 0,
             stale |-> TRUE, gets |-> 0, repeat |-> FALSE]

PeerInv == [list: [{"block", "tx"} -> Seq(Inv)], assigned: SUBSET Inv,
            due: BOOLEAN,  \* nNextGetBlocksTime has passed
            repeat: SUBSET Block]
NewPeer == [list |-> [y \in {"block", "tx"} |-> <<>>], assigned |-> {},
            due |-> TRUE, repeat |-> {}]

(* orphan holds both multimaps, as pairs of a parent and a child; a second *)
(* copy of a pair only repeats a lookup that then finds nothing.           *)
NewSchedule == [state |-> <<>>, peer |-> <<>>, orphan |-> {}, miss |-> {}]

-----------------------------------------------------------------------------
(* The maps: mapPeer[p] and mapState[i] make an entry where there is none. *)
Drop(f, S) == [k \in DOMAIN f \ S |-> f[k]]
Put(f, k, v) == [j \in DOMAIN f \cup {k} |-> IF j = k THEN v ELSE f[j]]
At(f, k, new) == IF k \in DOMAIN f THEN f[k] ELSE new

PeerOf(s, p) == At(s.peer, p, NewPeer)
Received(s, i) == i \in DOMAIN s.state /\ s.state[i].received
Known(s, i) == IF i \in DOMAIN s.state THEN s.state[i].known ELSE {}

(* CInvPeer::AddNewInv and RemoveInv.                                      *)
ListInv(r, i) == [r EXCEPT !.list[Type(i)] = Append(Remove(@, i), i)]
UnlistInv(r, i) == [r EXCEPT !.list[Type(i)] = Remove(@, i), !.assigned = @ \ {i},
                             !.repeat = @ \ {i}]
UnlistFrom(s, P, i) ==
  [p \in DOMAIN s.peer \cup P |-> IF p \in P THEN UnlistInv(PeerOf(s, p), i) ELSE s.peer[p]]

-----------------------------------------------------------------------------
(* COrphan                                                                 *)
GetNext(s, i) == {j \in Inv : <<i, j>> \in s.orphan}
RemoveOrphan(s, i) == {e \in s.orphan : e[2] # i}
Branch(s, root) ==
  LET B[n \in 0..Cardinality(Inv)] ==
        IF n = 0 THEN GetNext(s, root)
                 ELSE B[n - 1] \cup UNION {GetNext(s, j) : j \in B[n - 1]}
  IN B[Cardinality(Inv)]

-----------------------------------------------------------------------------
(* CSchedule::RemovePeer for the peer's invs at once: each touches its own *)
(* state.  Peers tells which peers are scheduled after it.                 *)
RemovePeer(s, p) ==
  LET r    == PeerOf(s, p)
      mine == ToSet(r.list["block"]) \cup ToSet(r.list["tx"])
      was  == [i \in mine |-> At(s.state, i, NewState)]
      lost == {i \in mine : was[i].known \subseteq {p}}
      free == {i \in mine \ lost : was[i].assigned = p}
      st   == [i \in DOMAIN s.state \cup mine |->
                 IF i \notin mine THEN s.state[i]
                 ELSE IF i \in free
                 THEN [was[i] EXCEPT !.known = @ \ {p}, !.assigned = None, !.received = FALSE]
                 ELSE [was[i] EXCEPT !.known = @ \ {p}]]
  IN [s     |-> IF p \notin DOMAIN s.peer THEN s
                ELSE [state |-> Drop(st, lost), peer |-> Drop(s.peer, {p}),
                      orphan |-> {e \in s.orphan : e[2] \notin lost}, miss |-> s.miss \ lost],
      sched |-> UNION {st[i].known : i \in free}]

CheckAddInvIdleLocation(s, p, y) ==
  /\ Cardinality(DOMAIN s.state) < MaxInv
  /\ Len(PeerOf(s, p).list[y]) < MaxPeerInv[y]

(* CSchedule::AddNewInv; mapPeer gets its entry either way.                *)
AddNewInv(s, i, p) ==
  LET r == PeerOf(s, p) IN
  IF CheckAddInvIdleLocation(s, p, Type(i))
  THEN [s EXCEPT !.state = Put(@, i, [At(@, i, NewState) EXCEPT !.known = @ \cup {p}]),
                 !.peer = Put(@, p, ListInv(r, i))]
  ELSE [s EXCEPT !.peer = Put(@, p, r)]

RemoveInvKeepsLists(s, i) ==
  IF i \notin DOMAIN s.state THEN s
  ELSE [s EXCEPT !.state = Drop(@, {i}), !.orphan = RemoveOrphan(s, i), !.miss = @ \ {i}]
RemoveInv(s, i) ==
  IF i \notin DOMAIN s.state THEN s
  ELSE [state |-> Drop(s.state, {i}), peer |-> UnlistFrom(s, s.state[i].known, i),
        orphan |-> IF s.state[i].received THEN RemoveOrphan(s, i) ELSE s.orphan,
        miss |-> s.miss \ {i}]
RemoveInvs(s, S) == FoldSet(LAMBDA i, t : RemoveInv(t, i), s, S)

(* ReceiveBlock and ReceiveTx                                              *)
Accepts(s, p, i) == i \in DOMAIN s.state /\ s.state[i].assigned = p /\ ~s.state[i].received
Receive(s, p, i) ==
  [s EXCEPT !.state[i].received = TRUE, !.state[i].stale = FALSE,
            !.peer = Put(@, p, [PeerOf(s, p) EXCEPT !.assigned = @ \ {i}]),
            !.miss = @ \ {i}]

AddOrphanPrev(s, i, prev) == [s EXCEPT !.orphan = @ \cup {<<prev, i>>}]

(* CheckPrevTxInv: the parent is to be fetched first; it may have no state.*)
CheckPrevTxInv(s, i) == IF Received(s, i) THEN s ELSE [s EXCEPT !.miss = @ \cup {i}]

(* InvalidateBlock and InvalidateTx drop what hangs on an invalid object;  *)
(* Blamed are the peers that announced any of it.                          *)
Invalidate(s, i) ==
  LET branch == Branch(s, i)
      cut    == {e \in s.orphan : e[1] \notin branch \cup {i}}
      gone   == branch \cap DOMAIN s.state
      t == [s EXCEPT !.orphan = cut, !.state = Drop(@, gone), !.miss = @ \ gone,
                     !.peer = FoldSet(LAMBDA j, q : UnlistFrom([s EXCEPT !.peer = q],
                                                               s.state[j].known, j), @, gone)]
  IN RemoveInv(t, i)
Blamed(s, i) == UNION {Known(s, j) : j \in Branch(s, i) \cup {i}}

-----------------------------------------------------------------------------
(* ScheduleKnownInv: one look at an inv of the peer's list, in the order   *)
(* of the list, until nMaxCount are asked for.                             *)
Expired(st) == \/ st.gets >= MaxReget
               \/ st.gets >= 1 /\ st.age >= 1
               \/ st.age = 2
Assign(s, p, i) == [s EXCEPT !.state[i].assigned = p, !.state[i].gets = @ + 1,
                             !.peer[p].assigned = @ \cup {i}]
Look(p, max, a, i) ==
  LET st == a.s.state[i] IN
  IF Len(a.inv) >= max THEN a
  ELSE IF i \notin DOMAIN a.s.state THEN [a EXCEPT !.s.peer[p] = UnlistInv(@, i)]
  ELSE IF st.assigned = None
       THEN IF Expired(st) THEN [a EXCEPT !.out = @ \cup {i}]
            ELSE [a EXCEPT !.s = Assign(a.s, p, i), !.inv = Append(@, i)]
       ELSE IF st.received
            THEN IF st.stale THEN [a EXCEPT !.out = @ \cup {i}] ELSE [a EXCEPT !.n = @ + 1]
            ELSE a
(* The parents that are missed come first; one without a state is forgotten.*)
LookMiss(p, max, a, i) ==
  IF Len(a.inv) >= max THEN a
  ELSE IF i \notin DOMAIN a.s.state THEN [a EXCEPT !.s.miss = @ \ {i}]
  ELSE IF a.s.state[i].assigned = None /\ i \in ToSet(a.s.peer[p].list["tx"])
       THEN Look(p, max, a, i)
       ELSE a
LookAll(s, p, y, max) ==
  LET new  == [s |-> s, inv |-> <<>>, out |-> {}, n |-> 0]
      miss == IF y = "tx" THEN SetToSeq(s.miss) ELSE <<>>
  IN FoldLeft(LAMBDA x, i : Look(p, max, x, i),
              FoldLeft(LAMBDA x, i : LookMiss(p, max, x, i), new, miss), s.peer[p].list[y])
Looked(a, s, list) == [s |-> s, inv |-> a.inv, list |-> list,
                       all |-> a.n = Len(list) /\ a.n # 0,     \* fReceivedAll
                       ok  |-> a.inv # <<>> \/ list = <<>>]
ScheduleKnownInv(s, p, y, max) ==
  LET Left(a, t) == Looked(a, t, t.peer[p].list[y])
      Out(a)     == Left(a, RemoveInvs(a.s, a.out))
  IN Out(LookAll(s, p, y, max))

NoneAsked(s) == [s |-> s, inv |-> <<>>, missing |-> FALSE, ok |-> TRUE, all |-> FALSE]

ScheduleBlockInv(s, p) ==
  LET Result(r) ==
        [s |-> r.s, inv |-> r.inv, all |-> r.all,
         missing |-> /\ s.peer[p].due
                     /\ IF r.ok THEN s.peer[p].list["block"] = <<>>
                        ELSE r.all /\ CheckAddInvIdleLocation(r.s, p, "block"),
         ok |-> r.ok \/ ~r.all \/ Len(r.list) < MaxPeerInv["block"]]
  IN IF p \notin DOMAIN s.peer \/ s.peer[p].assigned # {} THEN NoneAsked(s)
     ELSE Result(ScheduleKnownInv(s, p, "block", 1))

ScheduleTxInv(s, p, max) ==
  LET Result(r) ==
        [s |-> r.s, inv |-> r.inv, missing |-> FALSE, all |-> r.all \/ r.list = <<>>,
         ok |-> r.ok \/ ~r.all \/ Len(r.list) < MaxPeerInv["tx"]]
  IN IF p \notin DOMAIN s.peer \/ s.peer[p].assigned # {} THEN NoneAsked(s)
     ELSE Result(ScheduleKnownInv(s, p, "tx", max))

(* CancelAssignedInv: the peer cannot deliver what it was asked for.       *)
CancelAssignedInv(s, p, i) ==
  LET st   == s.state[i]
      left == st.known \ {p}
      t    == IF st.received THEN s
              ELSE IF left = {}
              THEN [s EXCEPT !.state = Drop(@, {i}), !.orphan = RemoveOrphan(s, i),
                             !.miss = @ \ {i}]
              ELSE [s EXCEPT !.state[i].assigned = None, !.state[i].known = left]
  IN IF i \notin DOMAIN s.state \/ st.assigned # p THEN s
     ELSE IF p \notin DOMAIN s.peer THEN t
     ELSE [t EXCEPT !.peer[p] = UnlistInv(@, i)]

SetDue(s, p, d) == [s EXCEPT !.peer = Put(@, p, [PeerOf(s, p) EXCEPT !.due = d])]

(* SetRepeatBlock; the peer is to blame for the MaxRepeat-th at a height.  *)
SetRepeatBlock(s, p, b) ==
  LET r == PeerOf(s, p) IN
  [s EXCEPT !.state[b].repeat = TRUE, !.state[b].stale = FALSE,
            !.peer = Put(@, p, IF b \in ToSet(r.list["block"])
                               THEN [r EXCEPT !.repeat = @ \cup {b}] ELSE r)]
RepeatsTooOften(s, p, b) ==
  /\ b \in ToSet(PeerOf(s, p).list["block"])
  /\ Cardinality({c \in PeerOf(s, p).repeat \cup {b} : Height[c] = Height[b]}) >= MaxRepeat
=============================================================================
