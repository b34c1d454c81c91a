------------------------ MODULE ForkUnspentDBProofs ------------------------
(***************************************************************************)
(* Proofs about ForkUnspentDB for any outputs, values, readers and number  *)
(* of commits.                                                             *)
(***************************************************************************)
EXTENDS ForkUnspentDB, TLAPS

(* What a cache over a map looks like; caching twice is caching once.      *)
LEMMA OverlayFacts ==
  ASSUME NEW d \in Disk, NEW c \in Cache
  PROVE  /\ Overlay(d, c) \in Disk
         /\ Overlay(Overlay(d, c), c) = Overlay(d, c)
         /\ Overlay(d, Empty) = d
BY MarkersDistinct DEF Overlay, Disk, Cache, Empty

LEMMA EmptyType == Empty \in Cache /\ Empty \in Disk
BY DEF Empty, Cache, Disk

LEMMA LayerTypes ==
  ASSUME TypeOK
  PROVE  Frozen \in Disk /\ Current \in Disk
BY OverlayFacts DEF TypeOK, Frozen, Current

-----------------------------------------------------------------------------
(* The parts of the inductive invariant.                                   *)

(* The flush works on the lower map it gathered, and once it has committed *)
(* the table already holds what the lower map says.                        *)
FlushInv ==
  /\ flush = "gathered" => batch = lower
  /\ flush = "committed" => disk = Frozen

(* Nothing runs while the database halts or is down, and the flushes of    *)
(* Deinitialize empty the caches one after the other.                      *)
ModeInv ==
  /\ mode # "up" => /\ flush = "idle" /\ walk = "idle"
                    /\ \A r \in Reader : rpc[r] \in {"idle", "done"}
  /\ mode = "halt1" /\ haltOK => upper = Empty
  /\ mode = "closing" /\ haltOK => upper = Empty /\ lower = Empty

(* Whatever layer a reader looks at next holds a value it may return.      *)
ReadInv ==
  \A r \in Reader :
    /\ rpc[r] \in {"lower", "disk"} =>
         Current[rkey[r]] \in seen[r] /\ Frozen[rkey[r]] \in seen[r]
    /\ rpc[r] = "disk" => disk[rkey[r]] \in seen[r]
    /\ rpc[r] = "done" => rval[r] \in seen[r]

(* The walker has exactly the table entries that no cache covers.          *)
WalkInv ==
  /\ walk = "disk" =>
       found = [o \in Out |->
                  IF upper[o] = Absent /\ lower[o] = Absent THEN disk[o] ELSE Absent]
  /\ walk = "caches" => found = Current

IInv == TypeOK /\ FlushInv /\ ModeInv /\ ReadInv /\ WalkInv

LEMMA InitIInv == Init => IInv
<1> SUFFICES ASSUME Init PROVE IInv
  OBVIOUS
<1>1. TypeOK
  BY EmptyType DEF Init, TypeOK, Disk
<1>2. FlushInv /\ ModeInv /\ ReadInv /\ WalkInv
  BY DEF Init, FlushInv, ModeInv, ReadInv, WalkInv
<1> QED BY <1>1, <1>2 DEF IInv

-----------------------------------------------------------------------------
(* A step that leaves the three layers alone leaves what they mean alone.  *)
LEMMA SameLayers ==
  ASSUME UNCHANGED layers
  PROVE  Frozen' = Frozen /\ Current' = Current
BY DEF layers, Frozen, Current

LEMMA UpdateStep ==
  ASSUME IInv, NEW add \in Disk, NEW rem \in SUBSET Out, UpdateUnspent(add, rem)
  PROVE  IInv'
<1> USE DEF IInv
<1>1. upper' \in Cache
  BY DEF UpdateUnspent, TypeOK, Cache, Disk
<1>2. Frozen' = Frozen /\ Current' = Overlay(Frozen, upper') /\ Current' \in Disk
  <2>1. Frozen' = Frozen /\ Frozen \in Disk
    BY LayerTypes DEF UpdateUnspent, Frozen
  <2> QED BY <1>1, <2>1, OverlayFacts DEF Current
<1>3. seen' = [r \in Reader |-> IF rpc[r] \in {"lower", "disk"}
                                THEN seen[r] \cup {Current'[rkey[r]]} ELSE seen[r]]
  BY <1>2 DEF UpdateUnspent
<1>4. TypeOK'
  <2>1. seen' \in [Reader -> SUBSET (Value \cup {Absent})]
    BY <1>2, <1>3 DEF TypeOK, Disk
  <2> QED BY <1>1, <2>1 DEF TypeOK, UpdateUnspent, flushVars, walkVars, modeVars
<1>5. FlushInv' /\ ModeInv' /\ WalkInv'
  BY <1>2 DEF FlushInv, ModeInv, WalkInv, UpdateUnspent, UpperFree, flushVars, walkVars, modeVars
<1>6. ReadInv'
  BY <1>2, <1>3 DEF ReadInv, UpdateUnspent, TypeOK
<1> QED BY <1>4, <1>5, <1>6

LEMMA FlushBeginStep == IInv /\ FlushBegin => IInv'
<1> SUFFICES ASSUME IInv, FlushBegin PROVE IInv'
  OBVIOUS
<1>1. Frozen' = Frozen /\ Current' = Current
  BY SameLayers DEF FlushBegin
<1> QED BY <1>1 DEF IInv, TypeOK, FlushInv, ModeInv, ReadInv, WalkInv, FlushBegin,
           layers, readVars, walkVars, modeVars

LEMMA FlushCommitStep == IInv /\ FlushCommit => IInv'
<1> SUFFICES ASSUME IInv, FlushCommit PROVE IInv'
  OBVIOUS
<1> USE DEF IInv
<1>1. disk' = Frozen /\ Frozen \in Disk
  BY LayerTypes DEF FlushCommit, FlushInv, Frozen
<1>2. Frozen' = Frozen /\ Current' = Current
  <2>1. Frozen' = Overlay(Overlay(disk, lower), lower)
    BY <1>1 DEF Frozen, FlushCommit
  <2>2. Frozen' = Frozen
    BY <2>1, OverlayFacts DEF TypeOK, Frozen
  <2> QED BY <2>2 DEF Current, FlushCommit
<1>3. TypeOK'
  BY <1>1 DEF TypeOK, FlushCommit, readVars, walkVars, modeVars
<1>4. FlushInv' /\ ModeInv'
  BY <1>1, <1>2 DEF FlushInv, ModeInv, FlushCommit, readVars, walkVars, modeVars
<1>5. ReadInv'
  BY <1>1, <1>2 DEF ReadInv, FlushCommit, readVars
<1>6. WalkInv'
  <2>1. \A o \in Out : lower[o] = Absent => disk'[o] = disk[o]
    BY <1>1 DEF Frozen, Overlay
  <2> QED BY <1>2, <2>1 DEF WalkInv, FlushCommit, walkVars
<1> QED BY <1>3, <1>4, <1>5, <1>6

LEMMA FlushFailStep == IInv /\ FlushFail => IInv'
<1> SUFFICES ASSUME IInv, FlushFail PROVE IInv'
  OBVIOUS
<1>1. Frozen' = Frozen /\ Current' = Current
  BY SameLayers DEF FlushFail
<1> QED BY <1>1 DEF IInv, TypeOK, FlushInv, ModeInv, ReadInv, WalkInv, FlushFail,
           layers, readVars, walkVars, modeVars

(* Once the lower map is on disk, replacing it by the upper map changes    *)
(* nothing a reader can see.                                               *)
LEMMA FlipMeaning ==
  ASSUME TypeOK, disk = Frozen, lower' = upper, upper' = Empty, disk' = disk
  PROVE  Frozen' = Current /\ Current' = Current
<1>1. Frozen' = Current
  BY DEF Frozen, Current
<1>2. Current' = Overlay(Current, Empty)
  BY <1>1 DEF Current
<1> QED BY <1>1, <1>2, LayerTypes, OverlayFacts, EmptyType

LEMMA FlipStep == IInv /\ Flip => IInv'
<1> SUFFICES ASSUME IInv, Flip PROVE IInv'
  OBVIOUS
<1> USE DEF IInv
<1>1. Frozen' = Current /\ Current' = Current
  BY FlipMeaning DEF Flip, FlushInv
<1>2. TypeOK'
  BY EmptyType DEF TypeOK, Flip, readVars, walkVars, modeVars
<1>3. FlushInv' /\ ModeInv' /\ WalkInv'
  BY <1>1 DEF FlushInv, ModeInv, WalkInv, Flip, LowerFree, readVars, walkVars, modeVars
<1>4. ReadInv'
  BY <1>1 DEF ReadInv, Flip, readVars
<1> QED BY <1>2, <1>3, <1>4

LEMMA ReadUpperStep ==
  ASSUME IInv, NEW r \in Reader, NEW o \in Out, ReadUpper(r, o)
  PROVE  IInv'
<1> USE DEF IInv
<1>1. Frozen' = Frozen /\ Current' = Current /\ Frozen \in Disk /\ Current \in Disk
  BY SameLayers, LayerTypes DEF ReadUpper
<1>2. /\ upper[o] = Absent => Current[o] = Frozen[o]
      /\ upper[o] # Absent => Current[o] = Content(upper[o])
      /\ Content(upper[o]) \in Value \cup {Absent}
  BY MarkersDistinct DEF Current, Overlay, Content, TypeOK, Cache
<1>3. TypeOK'
  BY <1>1, <1>2 DEF TypeOK, ReadUpper, Disk, layers, flushVars, walkVars, modeVars
<1>4. FlushInv' /\ ModeInv' /\ WalkInv'
  BY <1>1 DEF FlushInv, ModeInv, WalkInv, ReadUpper, TypeOK, layers, flushVars, walkVars, modeVars
<1>5. ReadInv'
  BY <1>1, <1>2 DEF ReadInv, ReadUpper, TypeOK, layers
<1> QED BY <1>3, <1>4, <1>5

LEMMA ReadLowerStep ==
  ASSUME IInv, NEW r \in Reader, ReadLower(r)
  PROVE  IInv'
<1> USE DEF IInv
<1> DEFINE o == rkey[r]
<1>1. Frozen' = Frozen /\ Current' = Current
  BY SameLayers DEF ReadLower
<1>2. /\ o \in Out
      /\ lower[o] = Absent => Frozen[o] = disk[o]
      /\ lower[o] # Absent => Frozen[o] = Content(lower[o])
      /\ Content(lower[o]) \in Value \cup {Absent}
  BY MarkersDistinct DEF Frozen, Overlay, Content, TypeOK, Cache
<1>3. TypeOK'
  BY <1>2 DEF TypeOK, ReadLower, layers, flushVars, walkVars, modeVars
<1>4. FlushInv' /\ ModeInv' /\ WalkInv'
  BY <1>1 DEF FlushInv, ModeInv, WalkInv, ReadLower, TypeOK, layers, flushVars, walkVars, modeVars
<1>5. ReadInv'
  BY <1>1, <1>2 DEF ReadInv, ReadLower, TypeOK, layers
<1> QED BY <1>3, <1>4, <1>5

LEMMA ReadDiskStep ==
  ASSUME IInv, NEW r \in Reader, ReadDisk(r)
  PROVE  IInv'
<1> USE DEF IInv
<1>1. Frozen' = Frozen /\ Current' = Current
  BY SameLayers DEF ReadDisk
<1>2. disk[rkey[r]] \in Value \cup {Absent}
  BY DEF TypeOK, Disk
<1>3. TypeOK'
  BY <1>2 DEF TypeOK, ReadDisk, layers, flushVars, walkVars, modeVars
<1>4. FlushInv' /\ ModeInv' /\ WalkInv'
  BY <1>1 DEF FlushInv, ModeInv, WalkInv, ReadDisk, TypeOK, layers, flushVars, walkVars, modeVars
<1>5. ReadInv'
  BY <1>1 DEF ReadInv, ReadDisk, TypeOK, layers
<1> QED BY <1>3, <1>4, <1>5

LEMMA WalkStep ==
  IInv /\ (WalkLock \/ LoadWalker \/ WalkCaches \/ WalkUnlock) => IInv'
<1> SUFFICES ASSUME IInv, WalkLock \/ LoadWalker \/ WalkCaches \/ WalkUnlock
             PROVE  IInv'
  OBVIOUS
<1> USE DEF IInv
<1>1. UNCHANGED <<layers, flushVars, readVars, modeVars, nCommit>>
  BY DEF WalkLock, LoadWalker, WalkCaches, WalkUnlock
<1>2. Frozen' = Frozen /\ Current' = Current
  BY <1>1, SameLayers
<1>3. TypeOK'
  <2>1. found' \in Disk
    BY EmptyType DEF WalkLock, LoadWalker, WalkCaches, WalkUnlock, TypeOK, Disk
  <2>2. walk' \in {"idle", "locked", "disk", "caches"}
    BY DEF WalkLock, LoadWalker, WalkCaches, WalkUnlock
  <2> QED BY <1>1, <2>1, <2>2 DEF TypeOK, layers, flushVars, readVars, modeVars
<1>4. FlushInv' /\ ReadInv'
  BY <1>1, <1>2 DEF FlushInv, ReadInv, layers, flushVars, readVars
<1>5. ModeInv'
  BY <1>1 DEF ModeInv, WalkLock, LoadWalker, WalkCaches, WalkUnlock, layers, flushVars, readVars, modeVars
<1>6. WalkInv'
  <2>1. CASE WalkLock \/ LoadWalker \/ WalkUnlock
    BY <1>1, <2>1 DEF WalkLock, LoadWalker, WalkUnlock, WalkInv, layers
  <2>2. CASE WalkCaches
    <3>1. \A o \in Out : found'[o] = Current[o]
      BY <2>2, MarkersDistinct DEF WalkCaches, WalkInv, TypeOK, Cache, Disk, Current, Frozen, Overlay
    <3>2. found' = Current
      BY <2>2, <3>1 DEF WalkCaches, Current, Overlay
    <3> QED BY <1>2, <2>2, <3>2 DEF WalkCaches, WalkInv
  <2> QED BY <2>1, <2>2
<1> QED BY <1>3, <1>4, <1>5, <1>6

LEMMA HaltBeginStep == IInv /\ HaltBegin => IInv'
<1> SUFFICES ASSUME IInv, HaltBegin PROVE IInv'
  OBVIOUS
<1>1. Frozen' = Frozen /\ Current' = Current
  BY SameLayers DEF HaltBegin
<1> QED BY <1>1 DEF IInv, TypeOK, FlushInv, ModeInv, ReadInv, WalkInv, HaltBegin,
           layers, flushVars, readVars, walkVars

(* A flush of Deinitialize, or its failure, changes nothing anybody reads. *)
LEMMA HaltFlushMeaning ==
  ASSUME IInv, NEW ok \in BOOLEAN, HaltFlush(ok)
  PROVE  /\ Current' = Current /\ layers' \in Cache \X Cache \X Disk
         /\ \/ UNCHANGED layers
            \/ disk' = Frozen /\ Frozen' = Current
<1> USE DEF IInv
<1>1. CASE ok
  <2>1. disk' = Frozen /\ lower' = upper /\ upper' = Empty /\ Frozen \in Disk
    BY <1>1, LayerTypes DEF HaltFlush, Frozen
  <2>2. Frozen' = Current
    BY <2>1 DEF Frozen, Current
  <2>3. Current' = Overlay(Current, Empty)
    BY <2>1, <2>2 DEF Current
  <2>4. Current' = Current
    BY <2>3, LayerTypes, OverlayFacts, EmptyType
  <2> QED BY <2>1, <2>2, <2>4, EmptyType DEF layers, TypeOK
<1>2. CASE ~ok
  <2>1. UNCHANGED layers
    BY <1>2 DEF HaltFlush
  <2> QED BY <2>1, SameLayers DEF layers, TypeOK
<1> QED BY <1>1, <1>2

LEMMA HaltFlushStep ==
  ASSUME IInv, NEW ok \in BOOLEAN, HaltFlush(ok)
  PROVE  IInv'
<1> USE DEF IInv
<1>1. TypeOK'
  BY HaltFlushMeaning DEF TypeOK, HaltFlush, layers, flushVars, readVars, walkVars
<1>2. FlushInv' /\ ReadInv' /\ WalkInv'
  BY DEF FlushInv, ReadInv, WalkInv, ModeInv, HaltFlush, flushVars, readVars, walkVars, TypeOK
<1>3. ModeInv'
  BY DEF ModeInv, HaltFlush, TypeOK, layers, flushVars, readVars, walkVars
<1> QED BY <1>1, <1>2, <1>3

LEMMA ForgetStep ==
  ASSUME IInv, Forget, mode' = "down", haltOK' \in BOOLEAN, nCommit' = nCommit
  PROVE  IInv'
<1> USE DEF IInv
<1>1. TypeOK'
  BY EmptyType DEF TypeOK, Forget
<1>2. FlushInv' /\ ReadInv' /\ WalkInv' /\ ModeInv'
  BY DEF FlushInv, ReadInv, WalkInv, ModeInv, Forget
<1> QED BY <1>1, <1>2

LEMMA RestartStep == IInv /\ Restart => IInv'
<1> SUFFICES ASSUME IInv, Restart PROVE IInv'
  OBVIOUS
<1>1. Frozen' = Frozen /\ Current' = Current
  BY SameLayers DEF Restart
<1> QED BY <1>1 DEF IInv, TypeOK, FlushInv, ModeInv, ReadInv, WalkInv, Restart,
           layers, flushVars, readVars, walkVars

LEMMA NextIInv == IInv /\ [Next]_vars => IInv'
<1> SUFFICES ASSUME IInv, [Next]_vars PROVE IInv'
  OBVIOUS
<1>1. CASE UNCHANGED vars
  <2>1. Frozen' = Frozen /\ Current' = Current
    BY <1>1, SameLayers DEF vars
  <2> QED BY <1>1, <2>1 DEF IInv, TypeOK, FlushInv, ModeInv, ReadInv, WalkInv, vars,
             layers, flushVars, readVars, walkVars, modeVars
<1>2. CASE Flush
  BY <1>2, FlushBeginStep, FlushCommitStep, FlushFailStep, FlipStep DEF Flush
<1>3. CASE HaltEnd \/ Crash
  BY <1>3, ForgetStep DEF HaltEnd, Crash, IInv, TypeOK
<1>4. CASE Next /\ ~Flush /\ ~HaltEnd /\ ~Crash
  BY <1>4, UpdateStep, ReadUpperStep, ReadLowerStep, ReadDiskStep, WalkStep,
     HaltBeginStep, HaltFlushStep, RestartStep DEF Next
<1> QED BY <1>1, <1>2, <1>3, <1>4

-----------------------------------------------------------------------------
(* The invariant holds for any number of readers, outputs and commits.     *)
THEOREM Invariance == Spec => []IInv
BY InitIInv, NextIInv, PTL DEF Spec

(* The layers keep their types; in particular no null entry reaches the    *)
(* table.                                                                  *)
THEOREM TypeCorrect == Spec => []TypeOK
BY Invariance, PTL DEF IInv

(* ReadUnspent returns a value the output had while it ran.                *)
THEOREM ReadsCorrect == Spec => []ReadsLinearizable
<1>1. IInv => ReadsLinearizable
  BY DEF IInv, ReadInv, ReadsLinearizable
<1> QED BY <1>1, Invariance, PTL

(* WalkThroughUnspent visits exactly the current outputs.                  *)
THEOREM WalkCorrect == Spec => []WalkComplete
<1>1. IInv => WalkComplete
  BY DEF IInv, WalkInv, WalkComplete
<1> QED BY <1>1, Invariance, PTL

(* Deinitialize loses nothing unless a flush fails.                        *)
THEOREM HaltCorrect == Spec => HaltLosesNothing
<1>1. IInv /\ [Next]_vars => [mode # "up" /\ haltOK' => Current' = Current]_vars
  <2> SUFFICES ASSUME IInv, Next, mode # "up", haltOK' PROVE Current' = Current
    OBVIOUS
  <2> USE DEF IInv
  <2>1. CASE \E ok \in BOOLEAN : HaltFlush(ok)
    BY <2>1, HaltFlushMeaning
  <2>2. CASE HaltEnd
    <3>1. upper = Empty /\ lower = Empty
      BY <2>2 DEF HaltEnd, ModeInv
    <3>2. UNCHANGED layers
      BY <2>2, <3>1 DEF HaltEnd, Forget, layers
    <3> QED BY <3>2, SameLayers
  <2>3. CASE Restart
    BY <2>3, SameLayers DEF Restart
  <2>4. ~Flush /\ ~WalkLock /\ ~LoadWalker /\ ~WalkCaches /\ ~WalkUnlock
        /\ ~HaltBegin /\ ~Crash
    BY DEF ModeInv, Flush, FlushBegin, FlushCommit, FlushFail, Flip, WalkLock,
       LoadWalker, WalkCaches, WalkUnlock, HaltBegin, Crash, TypeOK
  <2>5. \A r \in Reader : ~ReadLower(r) /\ ~ReadDisk(r) /\ \A o \in Out : ~ReadUpper(r, o)
    BY DEF ModeInv, ReadLower, ReadDisk, ReadUpper
  <2>6. \A add \in Disk, rem \in SUBSET Out : ~UpdateUnspent(add, rem)
    BY DEF UpdateUnspent
  <2> QED BY <2>1, <2>2, <2>3, <2>4, <2>5, <2>6 DEF Next
<1> QED BY <1>1, Invariance, PTL DEF Spec, HaltLosesNothing

-----------------------------------------------------------------------------
(* Each step of the layers is a step of the abstract store, or leaves it   *)
(* alone.                                                                  *)
LEMMA RefineCommit ==
  ASSUME IInv, NEW add \in Disk, NEW rem \in SUBSET Out, UpdateUnspent(add, rem)
  PROVE  Store!Commit
<1> USE DEF IInv
<1>1. Frozen' = Frozen /\ disk' = disk
  BY DEF UpdateUnspent, Frozen
<1>2. Current' = Overlay(Frozen, upper')
  BY <1>1 DEF Current
<1>3. Current' = Store!Apply(Current, add, rem)
  BY <1>2, MarkersDistinct DEF UpdateUnspent, Current, Overlay, Store!Apply, TypeOK, Cache, Disk
<1> QED BY <1>1, <1>3 DEF Store!Commit, Store!UtxoMap, Disk

LEMMA RefineFlush == IInv /\ Flush => [Store!StoreNext]_(Store!storeVars)
<1> SUFFICES ASSUME IInv, Flush PROVE [Store!StoreNext]_(Store!storeVars)
  OBVIOUS
<1> USE DEF IInv
<1>1. CASE FlushBegin \/ FlushFail
  <2>1. UNCHANGED layers
    BY <1>1 DEF FlushBegin, FlushFail
  <2> QED BY <2>1, SameLayers DEF Store!storeVars, layers
<1>2. CASE FlushCommit
  <2>1. disk' = Frozen /\ upper' = upper /\ lower' = lower
    BY <1>2 DEF FlushCommit, FlushInv, Frozen
  <2>2. Frozen' = Frozen
    BY <2>1, OverlayFacts DEF Frozen, TypeOK
  <2>3. Current' = Current
    BY <2>1, <2>2 DEF Current
  <2> QED BY <2>1, <2>2, <2>3 DEF Store!Persist, Store!StoreNext
<1>3. CASE Flip
  <2>1. disk = Frozen /\ disk' = disk
    BY <1>3 DEF Flip, FlushInv
  <2>2. Frozen' = Current /\ Current' = Current
    BY <1>3, <2>1, FlipMeaning DEF Flip
  <2> QED BY <2>1, <2>2 DEF Store!Freeze, Store!StoreNext
<1> QED BY <1>1, <1>2, <1>3 DEF Flush

LEMMA RefineForget == ASSUME IInv, Forget PROVE Store!Lose
<1>1. Frozen' = Overlay(disk, Empty) /\ disk' = disk
  BY DEF Forget, Frozen
<1>2. Frozen' = disk
  BY <1>1, OverlayFacts, EmptyType DEF IInv, TypeOK
<1>3. Current' = Overlay(disk, Empty)
  BY <1>2 DEF Forget, Current
<1>4. Current' = disk
  BY <1>3, OverlayFacts, EmptyType DEF IInv, TypeOK
<1> QED BY <1>1, <1>2, <1>4 DEF Store!Lose

LEMMA RefineNext == IInv /\ [Next]_vars => [Store!StoreNext]_(Store!storeVars)
<1> SUFFICES ASSUME IInv, [Next]_vars PROVE [Store!StoreNext]_(Store!storeVars)
  OBVIOUS
<1>1. CASE UNCHANGED layers
  BY <1>1, SameLayers DEF Store!storeVars, layers
<1>2. ASSUME NEW add \in Disk, NEW rem \in SUBSET Out, UpdateUnspent(add, rem)
      PROVE  Store!StoreNext
  BY <1>2, RefineCommit DEF Store!StoreNext
<1>3. ASSUME NEW ok \in BOOLEAN, HaltFlush(ok)
      PROVE  [Store!StoreNext]_(Store!storeVars)
  BY <1>3, <1>1, HaltFlushMeaning DEF Store!PersistAndFreeze, Store!StoreNext
<1>4. CASE HaltEnd \/ Crash
  BY <1>4, RefineForget DEF HaltEnd, Crash, Store!StoreNext
<1>5. CASE Flush
  BY <1>5, RefineFlush
<1>6. ASSUME NEW r \in Reader, ReadLower(r) \/ ReadDisk(r) \/ \E o \in Out : ReadUpper(r, o)
      PROVE  UNCHANGED layers
  BY <1>6 DEF ReadLower, ReadDisk, ReadUpper
<1>7. WalkLock \/ LoadWalker \/ WalkCaches \/ WalkUnlock \/ HaltBegin \/ Restart
        \/ UNCHANGED vars => UNCHANGED layers
  BY DEF WalkLock, LoadWalker, WalkCaches, WalkUnlock, HaltBegin, Restart, vars
<1> QED BY <1>1, <1>2, <1>3, <1>4, <1>5, <1>6, <1>7 DEF Next

(* CForkUnspentDB implements the abstract store: nobody sees a flush, and  *)
(* a crash leaves a version frozen at a commit boundary.                   *)
THEOREM Refinement == Spec => ImplementsUnspentStore
<1>1. Init => Store!StoreInit
  <2> SUFFICES ASSUME Init PROVE Store!StoreInit
    OBVIOUS
  <2>1. Frozen = disk
    BY OverlayFacts, EmptyType DEF Init, Frozen
  <2>2. Current = disk
    BY <2>1, OverlayFacts, EmptyType DEF Init, Current
  <2> QED BY <2>1, <2>2 DEF Init, Disk, Store!StoreInit, Store!UtxoMap
<1> QED BY <1>1, RefineNext, Invariance, PTL DEF Spec, ImplementsUnspentStore, Store!StoreSpec
=============================================================================
