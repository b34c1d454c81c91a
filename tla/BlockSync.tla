------------------------------ MODULE BlockSync ------------------------------
(***************************************************************************)
(* How a node finds out where its chain and that of a peer part, and asks  *)
(* for what it lacks, MAX_GETBLOCKS_COUNT blocks at a time: GetBlocks with *)
(* a locator, answered by an inv or a MsgRsp.  (src/src/minemon/netchn.cpp,*)
(* src/src/minemon/schedule.h, src/src/storage/blockbase.cpp)              *)
(*                                                                         *)
(* NetChannel has the scheduling of the blocks the inv names; here they    *)
(* are fetched in some order and added as soon as their parent is there.   *)
(***************************************************************************)
EXTENDS Integers, FiniteSets, SequencesExt

CONSTANTS Block, Genesis, Parent,
          Chain,               \* a block and its ancestors
          None,                \* the hash 0
          IncStep,             \* MAX_GETBLOCKS_COUNT - 1
          Start, Tips,         \* blocks the node may begin with; tips the peer may have
          MaxReorg             \* bound: changes of the chain of the peer

SyncConstants ==
  /\ IncStep \in Nat /\ IncStep >= 2 /\ Tips \cup Start \subseteq Block
  /\ Chain[Genesis] = {Genesis}
  /\ \A b \in Block \ {Genesis} : Chain[b] = Chain[Parent[b]] \cup {b}

Height == [b \in Block |-> Cardinality(Chain[b]) - 1]

VARIABLES
  has, last,                   \* blocks of the node, and the last of its chain
  tip,                         \* the last block of the chain of the peer
  depth,                       \* hashGetBlockLocatorDepth
  invHeight, invBlock,         \* nInvHeight, hashInvBlock
  due,                         \* CheckNextGetBlocksTime
  request, answers,            \* GetBlocks under way, invs and MsgRsps under way
  fetch,                       \* blocks announced that the node does not have
  reorgs

locator == <<depth, invHeight, invBlock>>
vars == <<has, last, tip, locator, due, request, answers, fetch, reorgs>>

Init ==
  /\ last \in Start /\ has = Chain[last] /\ tip \in Tips
  /\ depth = None /\ invHeight = 0 /\ invBlock = None
  /\ due = TRUE /\ request = <<>> /\ answers = <<>> /\ fetch = {} /\ reorgs = 0

(* pNext: the next block of the chain that ends in l.                      *)
NextIn(l, b) == IF \E x \in Chain[l] : x # Genesis /\ Parent[x] = b
                THEN CHOOSE x \in Chain[l] : x # Genesis /\ Parent[x] = b ELSE None
At(l, h) == CHOOSE x \in Chain[l] : Height[x] = h

-----------------------------------------------------------------------------
(* GetForkBlockLocator: every IncStep-th block back from the last one, or  *)
(* from where the previous locator ended, IncStep \div 2 blocks at most.   *)
LocatorStart == IF depth # None /\ NextIn(last, depth) # None THEN depth ELSE last
StepBack(b, i) == IF Height[b] < i * IncStep THEN 0 ELSE Height[b] - i * IncStep
GetForkBlockLocator(b) ==
  LET all == 1 + (Height[b] + IncStep - 1) \div IncStep         \* down to the genesis block
      n == IF all < IncStep \div 2 THEN all ELSE IncStep \div 2
      end == StepBack(b, n - 1)
  IN [hashes |-> [i \in 1..n |-> At(b, StepBack(b, i - 1))],
      depth  |-> IF end = 0 THEN None ELSE At(b, end - 1)]

(* DispatchGetBlocksEvent                                                  *)
Send(l, d) == request' = l /\ depth' = d /\ due' = FALSE
DispatchGetBlocks(h, b) ==
  IF h > 0 /\ b # None THEN Send(<<b>>, None)
  ELSE LET l == GetForkBlockLocator(LocatorStart) IN Send(l.hashes, l.depth)

(* SchedulePeerInv when nothing is left to fetch.  One request at a time:  *)
(* its answer comes long before the next time is due.                      *)
AskBlocks ==
  /\ due /\ fetch = {} /\ request = <<>> /\ answers = <<>>
  /\ DispatchGetBlocks(invHeight, invBlock)
  /\ UNCHANGED <<has, last, tip, invHeight, invBlock, answers, fetch, reorgs>>

Wait ==
  /\ ~due /\ due' = TRUE
  /\ UNCHANGED <<has, last, tip, locator, request, answers, fetch, reorgs>>

-----------------------------------------------------------------------------
(* The peer: GetForkBlockInv finds the first hash of the locator on its    *)
(* chain and answers with what follows.                                    *)
MaxGetBlocks == IncStep + 1
After(l, b) == LET more == Height[l] - Height[b]
               IN [i \in 1..(IF more < MaxGetBlocks THEN more ELSE MaxGetBlocks) |-> At(l, Height[b] + i)]
GetForkBlockInv(l, hashes) ==
  LET on == {i \in DOMAIN hashes : hashes[i] \in Chain[l]}
  IN IF on = {} THEN <<>> ELSE After(l, hashes[Min(on)])

HandleGetBlocks ==
  /\ request # <<>> /\ Len(answers) < 2
  /\ LET inv == GetForkBlockInv(tip, request)
     IN answers' = Append(answers, IF inv # <<>> THEN [inv |-> inv]
                                   ELSE [rsp |-> IF tip \in ToSet(request) THEN "equal" ELSE "empty"])
  /\ request' = <<>>
  /\ UNCHANGED <<has, last, tip, locator, due, fetch, reorgs>>

(* Another chain wins at the peer, or its chain grows, and it announces    *)
(* its new last block.                                                     *)
Reorganize ==
  /\ reorgs < MaxReorg /\ Len(answers) < 2
  /\ \E t \in Tips : Height[t] > Height[tip] /\ tip' = t /\ answers' = Append(answers, [inv |-> <<t>>])
  /\ reorgs' = reorgs + 1
  /\ UNCHANGED <<has, last, locator, due, request, fetch>>

-----------------------------------------------------------------------------
(* SetLocatorInvBlockHash: [h, b] are nInvHeight and hashInvBlock.         *)
SetLocatorInv(at, height, block, next) ==
  IF height >= at.h \/ (next = None /\ at.b = None) THEN [h |-> height, b |-> block]
  ELSE [h |-> at.h - 1, b |-> None]

Located(at, inv) ==
  FoldLeft(LAMBDA a, x : IF x \in has THEN SetLocatorInv(a, Height[x], x, NextIn(last, x)) ELSE a,
           at, inv)

(* An inv: what the node has moves the locator, the rest is to be fetched. *)
(* An answer without news is followed by the next request at once.         *)
HandleInv ==
  /\ answers # <<>> /\ "inv" \in DOMAIN Head(answers)
  /\ LET inv == Head(answers).inv
         at == Located([h |-> invHeight, b |-> invBlock], inv)
         old == Cardinality({i \in DOMAIN inv : inv[i] \in has})
     IN /\ invHeight' = at.h /\ invBlock' = at.b
        /\ fetch' = fetch \cup (ToSet(inv) \ has)
        /\ due' = (due \/ old = MaxGetBlocks)
  /\ answers' = Tail(answers)
  /\ UNCHANGED <<has, last, tip, depth, request, reorgs>>

(* The block is there and valid, CNetChannel::AddNewBlock adds it.         *)
AddNewBlock(b) ==
  /\ b \in fetch /\ Parent[b] \in has
  /\ has' = has \cup {b} /\ fetch' = fetch \ {b}
  /\ last' = IF Height[b] > Height[last] THEN b ELSE last
  /\ LET at == SetLocatorInv([h |-> invHeight, b |-> invBlock], Height[b], b, NextIn(last', b))
     IN invHeight' = at.h /\ invBlock' = at.b
  /\ UNCHANGED <<tip, depth, due, request, answers, reorgs>>

(* The parent of what is to be fetched is missing: fMissingPrev.           *)
AskMissing ==
  /\ due /\ fetch # {} /\ \A b \in fetch : Parent[b] \notin has
  /\ request = <<>> /\ answers = <<>>
  /\ DispatchGetBlocks(invHeight, invBlock)
  /\ UNCHANGED <<has, last, tip, invHeight, invBlock, answers, fetch, reorgs>>

(* The answer that no block of the locator is on the chain of the peer.    *)
HandleEmpty ==
  /\ answers # <<>> /\ "rsp" \in DOMAIN Head(answers) /\ Head(answers).rsp = "empty"
  /\ answers' = Tail(answers) /\ request = <<>>
  /\ LET at == IF invHeight > 0 /\ invBlock # None
               THEN SetLocatorInv([h |-> invHeight, b |-> invBlock], 0, None, Genesis)
               ELSE [h |-> invHeight, b |-> invBlock]
     IN /\ invHeight' = at.h /\ invBlock' = at.b
        /\ DispatchGetBlocks(at.h, at.b)
  /\ UNCHANGED <<has, last, tip, fetch, reorgs>>

HandleEqual ==
  /\ answers # <<>> /\ "rsp" \in DOMAIN Head(answers) /\ Head(answers).rsp = "equal"
  /\ answers' = Tail(answers) /\ due' = FALSE
  /\ UNCHANGED <<has, last, tip, locator, request, fetch, reorgs>>

(* The node gets a block from elsewhere: mined, or of another peer.        *)
AddOwnBlock(b) ==
  /\ b \in Block \ has /\ b # Genesis /\ Parent[b] \in has /\ b \notin fetch
  /\ reorgs < MaxReorg
  /\ has' = has \cup {b} /\ reorgs' = reorgs + 1
  /\ last' = IF Height[b] > Height[last] THEN b ELSE last
  /\ UNCHANGED <<tip, locator, due, request, answers, fetch>>

Sync == AskBlocks \/ AskMissing \/ HandleGetBlocks \/ HandleInv \/ HandleEmpty \/ HandleEqual
Next == Sync \/ Wait \/ Reorganize \/ \E b \in Block : AddNewBlock(b) \/ AddOwnBlock(b)
Spec == Init /\ [][Next]_vars
Fetched == \E b \in Block : AddNewBlock(b)

-----------------------------------------------------------------------------
(* Type invariant; nInvHeight does not become negative however often it is *)
(* lowered.                                                                *)
TypeOK ==
  /\ has \subseteq Block /\ last \in has /\ tip \in Tips /\ fetch \subseteq Block
  /\ depth \in Block \cup {None} /\ invHeight \in Nat /\ invBlock \in Block \cup {None}
  /\ ToSet(request) \subseteq Block

(* The block the node continues from is one it has, and never above the    *)
(* height it has noted; where a locator is to continue is a block it has.  *)
LocatorKnown == /\ invBlock # None => invBlock \in has /\ Height[invBlock] = invHeight
                /\ depth # None => depth \in has
=============================================================================
