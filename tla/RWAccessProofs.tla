--------------------------- MODULE RWAccessProofs ---------------------------
(***************************************************************************)
(* Proofs about RWAccess for any finite set of threads and any number of   *)
(* requests: the inductive invariant IInv and the refinement of SharedLock.*)
(***************************************************************************)
EXTENDS RWAccess, FiniteSetTheorems, TLAPS

Writers == {"writeWait", "writeWoken", "writing"}

(* Sets of threads are finite; adding or removing one moves the            *)
(* cardinality by one.                                                     *)
LEMMA ThreadSets ==
  ASSUME NEW S \in SUBSET Thread
  PROVE  /\ IsFiniteSet(S) /\ Cardinality(S) \in Nat
         /\ Cardinality(S) = 0 <=> S = {}
         /\ \A t \in Thread : /\ t \notin S => Cardinality(S \cup {t}) = Cardinality(S) + 1
                              /\ t \in S => Cardinality(S \ {t}) = Cardinality(S) - 1
<1>1. IsFiniteSet(S)
  BY Zenon, ThreadFinite, FS_Subset
<1>2. Cardinality(S) \in Nat /\ (Cardinality(S) = 0 <=> S = {})
  BY Zenon, <1>1, FS_CardinalityType, FS_EmptySet
<1>3. ASSUME NEW t \in Thread
      PROVE  /\ t \notin S => Cardinality(S \cup {t}) = Cardinality(S) + 1
             /\ t \in S => Cardinality(S \ {t}) = Cardinality(S) - 1
  BY Zenon, <1>1, FS_AddElement, FS_RemoveElement
<1> QED BY Zenon, <1>1, <1>2, <1>3

(* Where the threads are after one of them has moved (an assignment to pc  *)
(* by one operation of rwlock.h).                                          *)
LEMMA GoAt ==
  ASSUME TypeOK, NEW t \in Thread, NEW s \in PC, Go(t, s)
  PROVE  /\ pc' \in [Thread -> PC]
         /\ pc'[t] = s
         /\ \A u \in Thread : u # t => pc'[u] = pc[u]
         /\ \A S : s \in S => At(S)' = At(S) \cup {t}
         /\ \A S : s \notin S => At(S)' = At(S) \ {t}
BY Zenon DEF TypeOK, Go, At

(* The readers and the writers are counted after one thread moved.         *)
LEMMA GoCount ==
  ASSUME TypeOK, NEW t \in Thread, NEW s \in PC, Go(t, s), NEW S
  PROVE  Cardinality(At(S)') =
           Cardinality(At(S)) + (IF s \in S /\ pc[t] \notin S THEN 1
                                 ELSE IF s \notin S /\ pc[t] \in S THEN 0 - 1 ELSE 0)
<1>1. At(S) \in SUBSET Thread /\ (t \in At(S) <=> pc[t] \in S)
  BY Zenon DEF At
<1>2. /\ s \in S => At(S)' = At(S) \cup {t}
      /\ s \notin S => At(S)' = At(S) \ {t}
  BY Zenon, GoAt
<1>3. CASE s \in S
  <2>1. CASE pc[t] \in S
    <3>1. At(S)' = At(S)
      BY Zenon, <1>1, <1>2, <1>3, <2>1
    <3> QED BY <3>1, <1>3, <2>1, <1>1, ThreadSets
  <2>2. CASE pc[t] \notin S
    BY Zenon, <1>1, <1>2, <1>3, <2>2, ThreadSets
  <2> QED BY Zenon, <2>1, <2>2
<1>4. CASE s \notin S
  <2>1. CASE pc[t] \notin S
    <3>1. At(S)' = At(S)
      BY Zenon, <1>1, <1>2, <1>4, <2>1
    <3> QED BY <3>1, <1>4, <2>1, <1>1, ThreadSets
  <2>2. CASE pc[t] \in S
    BY <1>1, <1>2, <1>4, <2>2, ThreadSets
  <2> QED BY Zenon, <2>1, <2>2
<1> QED BY Zenon, <1>3, <1>4

-----------------------------------------------------------------------------
(* The inductive invariant: the types, the exact counters and the cause of *)
(* every wait.  None of the three is inductive without the others: the     *)
(* decrement in ReadUnlock stays in Nat because nRead counts the readers,  *)
(* and the causes of waiting are read off the counters.                    *)
IInv == TypeOK /\ CountersExact /\ NoLostWakeup

LEMMA InitIInv == Init => IInv
<1> SUFFICES ASSUME Init PROVE IInv
  BY Zenon
<1>1. TypeOK
  BY Zenon, MaxRequestNat DEF Init, TypeOK, PC
<1>2. \A S : "idle" \notin S => At(S) = {}
  BY Zenon DEF Init, At
<1>3. Cardinality({}) = 0
  BY Zenon, FS_EmptySet
<1>4. CountersExact
  BY <1>2, <1>3 DEF Init, CountersExact, ExclusiveHolders, Reading, Upgrading, Writing
<1>5. NoLostWakeup
  BY Zenon, <1>2 DEF NoLostWakeup
<1> QED BY Zenon, <1>1, <1>4, <1>5 DEF IInv

(* nRead and nWrite are zero exactly when nobody is counted.               *)
LEMMA Counted ==
  ASSUME TypeOK, CountersExact
  PROVE  /\ nRead = 0 <=> At(Reading) = {}
         /\ nWrite = 0 <=> At(Writers) = {}
<1>1. At(Reading) \in SUBSET Thread /\ At(Writers) \in SUBSET Thread
  BY Zenon DEF At
<1> QED BY Zenon, <1>1, ThreadSets DEF CountersExact, Writers

(* One thread moves and the counters move with it: what an operation has   *)
(* to establish for the counting part of CountersExact.                    *)
LEMMA CountStep ==
  ASSUME TypeOK, CountersExact, NEW t \in Thread, NEW s \in PC, Go(t, s),
         nRead' = nRead + (IF s \in Reading /\ pc[t] \notin Reading THEN 1
                           ELSE IF s \notin Reading /\ pc[t] \in Reading THEN 0 - 1 ELSE 0),
         nWrite' = nWrite + (IF s \in Writers /\ pc[t] \notin Writers THEN 1
                             ELSE IF s \notin Writers /\ pc[t] \in Writers THEN 0 - 1 ELSE 0)
  PROVE  /\ nRead' = Cardinality(At(Reading)') /\ nRead' \in Nat
         /\ nWrite' = Cardinality(At(Writers)') /\ nWrite' \in Nat
         /\ nWrite' = 0 <=> At(Writers)' = {}
<1>1. /\ nRead' = Cardinality(At(Reading)')
      /\ nWrite' = Cardinality(At(Writers)')
  BY GoCount DEF CountersExact, Writers
<1>2. At(Reading)' \in SUBSET Thread /\ At(Writers)' \in SUBSET Thread
  BY Zenon DEF At
<1> QED BY Zenon, <1>1, <1>2, ThreadSets

(* ReadLock, ReadTryLock when it succeeds, and a woken reader.             *)
LEMMA ReadTestStep ==
  ASSUME IInv, NEW t \in Thread, pc[t] \in {"idle", "readWoken"}, ReadTest(t),
         todo' \in [Thread -> Nat]
  PROVE  IInv'
<1> DEFINE s == IF ReadBlocked THEN "readWait" ELSE "reading"
<1>1. s \in PC /\ Go(t, s) /\ TypeOK /\ CountersExact /\ NoLostWakeup
  BY Zenon DEF IInv, ReadTest, ReadBlocked, PC
<1>2. /\ nRead' = Cardinality(At(Reading)') /\ nRead' \in Nat
      /\ nWrite' = Cardinality(At(Writers)') /\ nWrite' \in Nat
      /\ nWrite' = 0 <=> At(Writers)' = {}
  <2>1. nRead' = nRead + (IF s \in Reading /\ pc[t] \notin Reading THEN 1
                          ELSE IF s \notin Reading /\ pc[t] \in Reading THEN 0 - 1 ELSE 0)
    BY <1>1 DEF ReadTest, ReadBlocked, Reading, TypeOK
  <2>2. nWrite' = nWrite + (IF s \in Writers /\ pc[t] \notin Writers THEN 1
                            ELSE IF s \notin Writers /\ pc[t] \in Writers THEN 0 - 1 ELSE 0)
    BY <1>1 DEF ReadTest, ReadBlocked, Writers, TypeOK
  <2> HIDE DEF s
  <2> QED BY Zenon, <1>1, <2>1, <2>2, CountStep
<1>3. /\ pc' \in [Thread -> PC] /\ pc'[t] = s
      /\ \A u \in Thread : u # t => pc'[u] = pc[u]
  <2> HIDE DEF s
  <2> QED BY Zenon, <1>1, GoAt
<1>4. TypeOK'
  BY Zenon, <1>1, <1>2, <1>3 DEF TypeOK, ReadTest, ReadBlocked
<1>5. CountersExact'
  <2>1. ExclusiveHolders' = ExclusiveHolders
    BY Zenon, <1>1, <1>3 DEF ExclusiveHolders, At, Upgrading, Writing, ReadTest, ReadBlocked
  <2>2. /\ At({"toWriteWait", "toWriteWoken", "upgraded"})' = At({"toWriteWait", "toWriteWoken", "upgraded"})
        /\ At(Writing)' = At(Writing)
    BY Zenon, <1>1, <1>3 DEF At, Writing, ReadTest, ReadBlocked
  <2>3. At(Writing) # {} => At(Reading)' = {}
    BY <1>1, <1>3, Counted DEF CountersExact, At, Reading, Writing, Writers, TypeOK, ReadTest, ReadBlocked
  <2> QED BY Zenon, <1>1, <1>2, <2>1, <2>2, <2>3 DEF CountersExact, Writers, ReadTest, ReadBlocked
<1>6. NoLostWakeup'
  BY <1>1, <1>2, <1>3 DEF NoLostWakeup, At, TypeOK, ReadTest, ReadBlocked
<1> QED BY Zenon, <1>4, <1>5, <1>6 DEF IInv

(* WriteLock and a woken writer.                                            *)
LEMMA WriteTestStep ==
  ASSUME IInv, NEW t \in Thread, pc[t] \in {"idle", "writeWoken"}, WriteTest(t),
         nWrite' = nWrite + (IF pc[t] = "idle" THEN 1 ELSE 0),
         todo' \in [Thread -> Nat]
  PROVE  IInv'
<1> DEFINE s == IF WriteBlocked THEN "writeWait" ELSE "writing"
<1>1. s \in PC /\ Go(t, s) /\ TypeOK /\ CountersExact /\ NoLostWakeup
  BY Zenon DEF IInv, WriteTest, WriteBlocked, PC
<1>2. /\ nRead' = Cardinality(At(Reading)') /\ nRead' \in Nat
      /\ nWrite' = Cardinality(At(Writers)') /\ nWrite' \in Nat
      /\ nWrite' = 0 <=> At(Writers)' = {}
  <2>1. nRead' = nRead + (IF s \in Reading /\ pc[t] \notin Reading THEN 1
                          ELSE IF s \notin Reading /\ pc[t] \in Reading THEN 0 - 1 ELSE 0)
    BY <1>1 DEF WriteTest, WriteBlocked, Reading, TypeOK
  <2>2. nWrite' = nWrite + (IF s \in Writers /\ pc[t] \notin Writers THEN 1
                            ELSE IF s \notin Writers /\ pc[t] \in Writers THEN 0 - 1 ELSE 0)
    BY Zenon, <1>1 DEF WriteTest, WriteBlocked, Writers, TypeOK
  <2> HIDE DEF s
  <2> QED BY Zenon, <1>1, <2>1, <2>2, CountStep
<1>3. /\ pc' \in [Thread -> PC] /\ pc'[t] = s
      /\ \A u \in Thread : u # t => pc'[u] = pc[u]
  <2> HIDE DEF s
  <2> QED BY Zenon, <1>1, GoAt
<1>4. TypeOK'
  BY Zenon, <1>1, <1>2, <1>3 DEF TypeOK, WriteTest, WriteBlocked
<1>5. CountersExact'
  <2>1. (fExclusive <=> ExclusiveHolders # {})' /\ (\A u, v \in ExclusiveHolders : u = v)'
    BY <1>1, <1>3, Counted DEF CountersExact, ExclusiveHolders, At, Upgrading, Writing, TypeOK, WriteTest, WriteBlocked
  <2>2. (fUpgraded <=> At({"toWriteWait", "toWriteWoken", "upgraded"}) # {})'
    BY Zenon, <1>1, <1>3 DEF CountersExact, ExclusiveHolders, At, Upgrading, Writing, TypeOK, WriteTest, WriteBlocked
  <2>3. (At(Writing) # {} => At(Reading) = {})'
    BY <1>1, <1>3, Counted DEF CountersExact, ExclusiveHolders, At, Reading, Upgrading, Writing, Writers, TypeOK, WriteTest, WriteBlocked
  <2> QED BY Zenon, <1>1, <1>2, <2>1, <2>2, <2>3 DEF CountersExact, Writers, WriteTest, WriteBlocked
<1>6. NoLostWakeup'
  BY <1>1, <1>2, <1>3 DEF NoLostWakeup, At, TypeOK, WriteTest, WriteBlocked
<1> QED BY Zenon, <1>4, <1>5, <1>6 DEF IInv

(* UpgradeLock and a woken upgrader.                                        *)
LEMMA UpgradeTestStep ==
  ASSUME IInv, NEW t \in Thread, pc[t] \in {"idle", "upgradeWoken"}, UpgradeTest(t),
         todo' \in [Thread -> Nat]
  PROVE  IInv'
<1> DEFINE s == IF fExclusive THEN "upgradeWait" ELSE "upgradable"
<1>1. s \in PC /\ Go(t, s) /\ TypeOK /\ CountersExact /\ NoLostWakeup
  BY Zenon DEF IInv, UpgradeTest, PC
<1>2. /\ nRead' = Cardinality(At(Reading)') /\ nRead' \in Nat
      /\ nWrite' = Cardinality(At(Writers)') /\ nWrite' \in Nat
      /\ nWrite' = 0 <=> At(Writers)' = {}
  <2>1. nRead' = nRead + (IF s \in Reading /\ pc[t] \notin Reading THEN 1
                          ELSE IF s \notin Reading /\ pc[t] \in Reading THEN 0 - 1 ELSE 0)
    BY <1>1 DEF UpgradeTest, Reading, TypeOK
  <2>2. nWrite' = nWrite + (IF s \in Writers /\ pc[t] \notin Writers THEN 1
                            ELSE IF s \notin Writers /\ pc[t] \in Writers THEN 0 - 1 ELSE 0)
    BY <1>1 DEF UpgradeTest, Writers, TypeOK
  <2> HIDE DEF s
  <2> QED BY Zenon, <1>1, <2>1, <2>2, CountStep
<1>3. /\ pc' \in [Thread -> PC] /\ pc'[t] = s
      /\ \A u \in Thread : u # t => pc'[u] = pc[u]
  <2> HIDE DEF s
  <2> QED BY Zenon, <1>1, GoAt
<1>4. TypeOK'
  BY Zenon, <1>1, <1>2, <1>3 DEF TypeOK, UpgradeTest
<1>5. CountersExact'
  <2>1. (fExclusive <=> ExclusiveHolders # {})' /\ (\A u, v \in ExclusiveHolders : u = v)'
    BY <1>1, <1>3, Counted DEF CountersExact, ExclusiveHolders, At, Upgrading, Writing, TypeOK, UpgradeTest
  <2>2. (fUpgraded <=> At({"toWriteWait", "toWriteWoken", "upgraded"}) # {})'
    BY Zenon, <1>1, <1>3 DEF CountersExact, ExclusiveHolders, At, Upgrading, Writing, TypeOK, UpgradeTest
  <2>3. (At(Writing) # {} => At(Reading) = {})'
    BY Zenon, <1>1, <1>3, Counted DEF CountersExact, ExclusiveHolders, At, Reading, Upgrading, Writing, Writers, TypeOK, UpgradeTest
  <2> QED BY Zenon, <1>1, <1>2, <2>1, <2>2, <2>3 DEF CountersExact, Writers, UpgradeTest
<1>6. NoLostWakeup'
  BY Zenon, <1>1, <1>2, <1>3 DEF NoLostWakeup, At, TypeOK, UpgradeTest
<1> QED BY Zenon, <1>4, <1>5, <1>6 DEF IInv

(* UpgradeToWriteLock and the woken upgrader.                               *)
LEMMA ToWriteTestStep ==
  ASSUME IInv, NEW t \in Thread, pc[t] \in {"upgradable", "toWriteWoken"}, ToWriteTest(t),
         fUpgraded' = TRUE, todo' \in [Thread -> Nat]
  PROVE  IInv'
<1> DEFINE s == IF nRead > 0 THEN "toWriteWait" ELSE "upgraded"
<1>1. s \in PC /\ Go(t, s) /\ TypeOK /\ CountersExact /\ NoLostWakeup
  BY DEF IInv, ToWriteTest, PC
<1>2. /\ nRead' = Cardinality(At(Reading)') /\ nRead' \in Nat
      /\ nWrite' = Cardinality(At(Writers)') /\ nWrite' \in Nat
      /\ nWrite' = 0 <=> At(Writers)' = {}
  <2>1. nRead' = nRead + (IF s \in Reading /\ pc[t] \notin Reading THEN 1
                          ELSE IF s \notin Reading /\ pc[t] \in Reading THEN 0 - 1 ELSE 0)
    BY <1>1 DEF ToWriteTest, Reading, TypeOK
  <2>2. nWrite' = nWrite + (IF s \in Writers /\ pc[t] \notin Writers THEN 1
                            ELSE IF s \notin Writers /\ pc[t] \in Writers THEN 0 - 1 ELSE 0)
    BY <1>1 DEF ToWriteTest, Writers, TypeOK
  <2> HIDE DEF s
  <2> QED BY Zenon, <1>1, <2>1, <2>2, CountStep
<1>3. /\ pc' \in [Thread -> PC] /\ pc'[t] = s
      /\ \A u \in Thread : u # t => pc'[u] = pc[u]
  <2> HIDE DEF s
  <2> QED BY Zenon, <1>1, GoAt
<1>4. TypeOK'
  BY Zenon, <1>1, <1>2, <1>3 DEF TypeOK, ToWriteTest
<1>5. CountersExact'
  <2>1. (fExclusive <=> ExclusiveHolders # {})' /\ (\A u, v \in ExclusiveHolders : u = v)'
    BY <1>1, <1>3, Counted DEF CountersExact, ExclusiveHolders, At, Upgrading, Writing, TypeOK, ToWriteTest
  <2>2. (fUpgraded <=> At({"toWriteWait", "toWriteWoken", "upgraded"}) # {})'
    BY Zenon, <1>1, <1>3 DEF CountersExact, ExclusiveHolders, At, Upgrading, Writing, TypeOK, ToWriteTest
  <2>3. (At(Writing) # {} => At(Reading) = {})'
    BY Zenon, <1>1, <1>3, Counted DEF CountersExact, ExclusiveHolders, At, Reading, Upgrading, Writing, Writers, TypeOK, ToWriteTest
  <2> QED BY Zenon, <1>1, <1>2, <2>1, <2>2, <2>3 DEF CountersExact, Writers, ToWriteTest
<1>6. NoLostWakeup'
  BY Zenon, <1>1, <1>2, <1>3 DEF NoLostWakeup, At, TypeOK, ToWriteTest
<1> QED BY Zenon, <1>4, <1>5, <1>6 DEF IInv

(* ReadUnlock up to the release of the mutex.                               *)
LEMMA ReadUnlockStep ==
  ASSUME IInv, NEW t \in Thread, ReadUnlock(t)
  PROVE  IInv'
<1> DEFINE s == IF nRead' # 0 THEN "idle"
                ELSE IF fExclusive THEN "notifyUpgrade"
                ELSE IF nWrite # 0 THEN "notifyWrite" ELSE "idle"
<1>1. s \in PC /\ Go(t, s) /\ TypeOK /\ CountersExact /\ NoLostWakeup
  BY Zenon DEF IInv, ReadUnlock, PC
<1>2. /\ nRead' = Cardinality(At(Reading)') /\ nRead' \in Nat
      /\ nWrite' = Cardinality(At(Writers)') /\ nWrite' \in Nat
      /\ nWrite' = 0 <=> At(Writers)' = {}
  <2>1. nRead' = nRead + (IF s \in Reading /\ pc[t] \notin Reading THEN 1
                          ELSE IF s \notin Reading /\ pc[t] \in Reading THEN 0 - 1 ELSE 0)
    BY <1>1 DEF ReadUnlock, Reading, TypeOK
  <2>2. nWrite' = nWrite + (IF s \in Writers /\ pc[t] \notin Writers THEN 1
                            ELSE IF s \notin Writers /\ pc[t] \in Writers THEN 0 - 1 ELSE 0)
    BY <1>1 DEF ReadUnlock, Writers, TypeOK
  <2> HIDE DEF s
  <2> QED BY Zenon, <1>1, <2>1, <2>2, CountStep
<1>3. /\ pc' \in [Thread -> PC] /\ pc'[t] = s
      /\ \A u \in Thread : u # t => pc'[u] = pc[u]
  <2> HIDE DEF s
  <2> QED BY Zenon, <1>1, GoAt
<1>4. TypeOK'
  BY Zenon, <1>1, <1>2, <1>3 DEF TypeOK, ReadUnlock
<1>5. CountersExact'
  <2>1. ExclusiveHolders' = ExclusiveHolders
    BY Zenon, <1>1, <1>3 DEF ExclusiveHolders, At, Upgrading, Writing, ReadUnlock
  <2>2. /\ At({"toWriteWait", "toWriteWoken", "upgraded"})' = At({"toWriteWait", "toWriteWoken", "upgraded"})
        /\ At(Writing)' = At(Writing)
    BY Zenon, <1>1, <1>3 DEF At, Writing, ReadUnlock
  <2>3. At(Writing) # {} => At(Reading)' = {}
    BY Zenon, <1>1, <1>3, Counted DEF CountersExact, At, Reading, Writing, Writers, TypeOK, ReadUnlock
  <2> QED BY Zenon, <1>1, <1>2, <2>1, <2>2, <2>3 DEF CountersExact, Writers, ReadUnlock
<1>6. NoLostWakeup'
  <2>1. (At({"readWait"}) # {} =>
          nWrite > 0 \/ fUpgraded \/ At({"notifyRead"}) # {})'
    BY <1>1, <1>2, <1>3, Counted DEF NoLostWakeup, At, TypeOK, ReadUnlock, CountersExact, ExclusiveHolders, Upgrading, Writing, Writers
  <2>2. (At({"upgradeWait"}) # {} =>
          nWrite > 0 \/ fExclusive \/ At({"notifyRead"}) # {})'
    BY Zenon, <1>1, <1>2, <1>3, Counted DEF NoLostWakeup, At, TypeOK, ReadUnlock, CountersExact, ExclusiveHolders, Upgrading, Writing, Writers
  <2>3. (At({"writeWait"}) # {} =>
          nRead > 0 \/ fExclusive \/ At({"notifyWrite", "writeWoken"}) # {})'
    BY <1>1, <1>2, <1>3, Counted DEF NoLostWakeup, At, TypeOK, ReadUnlock, CountersExact, ExclusiveHolders, Upgrading, Writing, Writers
  <2>4. (At({"toWriteWait"}) # {} =>
          nRead > 0 \/ At({"notifyUpgrade"}) # {})'
    BY <1>1, <1>2, <1>3, Counted DEF NoLostWakeup, At, TypeOK, ReadUnlock, CountersExact, ExclusiveHolders, Upgrading, Writing, Writers
  <2> QED BY Zenon, <2>1, <2>2, <2>3, <2>4 DEF NoLostWakeup
<1> QED BY Zenon, <1>4, <1>5, <1>6 DEF IInv

(* WriteUnlock up to the release of the mutex.                              *)
LEMMA WriteUnlockStep ==
  ASSUME IInv, NEW t \in Thread, WriteUnlock(t)
  PROVE  IInv'
<1> DEFINE s == IF nWrite' # 0 THEN "notifyWrite" ELSE "notifyRead"
<1>1. s \in PC /\ Go(t, s) /\ TypeOK /\ CountersExact /\ NoLostWakeup
  BY Zenon DEF IInv, WriteUnlock, PC
<1>2. /\ nRead' = Cardinality(At(Reading)') /\ nRead' \in Nat
      /\ nWrite' = Cardinality(At(Writers)') /\ nWrite' \in Nat
      /\ nWrite' = 0 <=> At(Writers)' = {}
  <2>1. nRead' = nRead + (IF s \in Reading /\ pc[t] \notin Reading THEN 1
                          ELSE IF s \notin Reading /\ pc[t] \in Reading THEN 0 - 1 ELSE 0)
    BY <1>1 DEF WriteUnlock, Reading, TypeOK
  <2>2. nWrite' = nWrite + (IF s \in Writers /\ pc[t] \notin Writers THEN 1
                            ELSE IF s \notin Writers /\ pc[t] \in Writers THEN 0 - 1 ELSE 0)
    BY <1>1 DEF WriteUnlock, Writers, TypeOK
  <2> HIDE DEF s
  <2> QED BY Zenon, <1>1, <2>1, <2>2, CountStep
<1>3. /\ pc' \in [Thread -> PC] /\ pc'[t] = s
      /\ \A u \in Thread : u # t => pc'[u] = pc[u]
  <2> HIDE DEF s
  <2> QED BY Zenon, <1>1, GoAt
<1>4. TypeOK'
  BY Zenon, <1>1, <1>2, <1>3 DEF TypeOK, WriteUnlock
<1>5. CountersExact'
  <2>1. (fExclusive <=> ExclusiveHolders # {})' /\ (\A u, v \in ExclusiveHolders : u = v)'
    BY <1>1, <1>3, Counted DEF CountersExact, ExclusiveHolders, At, Upgrading, Writing, TypeOK, WriteUnlock
  <2>2. (fUpgraded <=> At({"toWriteWait", "toWriteWoken", "upgraded"}) # {})'
    BY Zenon, <1>1, <1>3 DEF CountersExact, ExclusiveHolders, At, Upgrading, Writing, TypeOK, WriteUnlock
  <2>3. (At(Writing) # {} => At(Reading) = {})'
    BY Zenon, <1>1, <1>3, Counted DEF CountersExact, ExclusiveHolders, At, Reading, Upgrading, Writing, Writers, TypeOK, WriteUnlock
  <2> QED BY Zenon, <1>1, <1>2, <2>1, <2>2, <2>3 DEF CountersExact, Writers, WriteUnlock
<1>6. NoLostWakeup'
  <2>1. (At({"readWait"}) # {} =>
          nWrite > 0 \/ fUpgraded \/ At({"notifyRead"}) # {})'
    BY <1>1, <1>2, <1>3, Counted DEF NoLostWakeup, At, TypeOK, WriteUnlock, CountersExact, ExclusiveHolders, Upgrading, Writing, Writers
  <2>2. (At({"upgradeWait"}) # {} =>
          nWrite > 0 \/ fExclusive \/ At({"notifyRead"}) # {})'
    BY <1>1, <1>2, <1>3, Counted DEF NoLostWakeup, At, TypeOK, WriteUnlock, CountersExact, ExclusiveHolders, Upgrading, Writing, Writers
  <2>3. (At({"writeWait"}) # {} =>
          nRead > 0 \/ fExclusive \/ At({"notifyWrite", "writeWoken"}) # {})'
    BY Zenon, <1>1, <1>2, <1>3, Counted DEF NoLostWakeup, At, TypeOK, WriteUnlock, CountersExact, ExclusiveHolders, Upgrading, Writing, Writers
  <2>4. (At({"toWriteWait"}) # {} =>
          nRead > 0 \/ At({"notifyUpgrade"}) # {})'
    BY <1>1, <1>2, <1>3, Counted DEF NoLostWakeup, At, TypeOK, WriteUnlock, CountersExact, ExclusiveHolders, Upgrading, Writing, Writers
  <2> QED BY Zenon, <2>1, <2>2, <2>3, <2>4 DEF NoLostWakeup
<1> QED BY Zenon, <1>4, <1>5, <1>6 DEF IInv

(* UpgradeUnlock up to the release of the mutex.                            *)
LEMMA UpgradeUnlockStep ==
  ASSUME IInv, NEW t \in Thread, UpgradeUnlock(t)
  PROVE  IInv'
<1> DEFINE s == IF nWrite # 0 /\ (fUpgraded \/ nRead = 0)
                THEN "notifyWrite" ELSE "notifyRead"
<1>1. s \in PC /\ Go(t, s) /\ TypeOK /\ CountersExact /\ NoLostWakeup
  BY Zenon DEF IInv, UpgradeUnlock, PC
<1>2. /\ nRead' = Cardinality(At(Reading)') /\ nRead' \in Nat
      /\ nWrite' = Cardinality(At(Writers)') /\ nWrite' \in Nat
      /\ nWrite' = 0 <=> At(Writers)' = {}
  <2>1. nRead' = nRead + (IF s \in Reading /\ pc[t] \notin Reading THEN 1
                          ELSE IF s \notin Reading /\ pc[t] \in Reading THEN 0 - 1 ELSE 0)
    BY <1>1 DEF UpgradeUnlock, Reading, TypeOK
  <2>2. nWrite' = nWrite + (IF s \in Writers /\ pc[t] \notin Writers THEN 1
                            ELSE IF s \notin Writers /\ pc[t] \in Writers THEN 0 - 1 ELSE 0)
    BY <1>1 DEF UpgradeUnlock, Writers, TypeOK
  <2> HIDE DEF s
  <2> QED BY Zenon, <1>1, <2>1, <2>2, CountStep
<1>3. /\ pc' \in [Thread -> PC] /\ pc'[t] = s
      /\ \A u \in Thread : u # t => pc'[u] = pc[u]
  <2> HIDE DEF s
  <2> QED BY Zenon, <1>1, GoAt
<1>4. TypeOK'
  BY Zenon, <1>1, <1>2, <1>3 DEF TypeOK, UpgradeUnlock
<1>5. CountersExact'
  <2>1. (fExclusive <=> ExclusiveHolders # {})' /\ (\A u, v \in ExclusiveHolders : u = v)'
    BY <1>1, <1>3, Counted DEF CountersExact, ExclusiveHolders, At, Upgrading, Writing, TypeOK, UpgradeUnlock
  <2>2. (fUpgraded <=> At({"toWriteWait", "toWriteWoken", "upgraded"}) # {})'
    BY <1>1, <1>3 DEF CountersExact, ExclusiveHolders, At, Upgrading, Writing, TypeOK, UpgradeUnlock
  <2>3. (At(Writing) # {} => At(Reading) = {})'
    BY Zenon, <1>1, <1>3, Counted DEF CountersExact, ExclusiveHolders, At, Reading, Upgrading, Writing, Writers, TypeOK, UpgradeUnlock
  <2> QED BY Zenon, <1>1, <1>2, <2>1, <2>2, <2>3 DEF CountersExact, Writers, UpgradeUnlock
<1>6. NoLostWakeup'
  <2>1. (At({"readWait"}) # {} =>
          nWrite > 0 \/ fUpgraded \/ At({"notifyRead"}) # {})'
    BY <1>1, <1>2, <1>3, Counted DEF NoLostWakeup, At, TypeOK, UpgradeUnlock, CountersExact, ExclusiveHolders, Upgrading, Writing, Writers
  <2>2. (At({"upgradeWait"}) # {} =>
          nWrite > 0 \/ fExclusive \/ At({"notifyRead"}) # {})'
    BY <1>1, <1>2, <1>3, Counted DEF NoLostWakeup, At, TypeOK, UpgradeUnlock, CountersExact, ExclusiveHolders, Upgrading, Writing, Writers
  <2>3. (At({"writeWait"}) # {} =>
          nRead > 0 \/ fExclusive \/ At({"notifyWrite", "writeWoken"}) # {})'
    BY <1>1, <1>2, <1>3, Counted DEF NoLostWakeup, At, TypeOK, UpgradeUnlock, CountersExact, ExclusiveHolders, Upgrading, Writing, Writers
  <2>4. (At({"toWriteWait"}) # {} =>
          nRead > 0 \/ At({"notifyUpgrade"}) # {})'
    BY <1>1, <1>2, <1>3, Counted DEF NoLostWakeup, At, TypeOK, UpgradeUnlock, CountersExact, ExclusiveHolders, Upgrading, Writing, Writers
  <2> QED BY Zenon, <2>1, <2>2, <2>3, <2>4 DEF NoLostWakeup
<1> QED BY Zenon, <1>4, <1>5, <1>6 DEF IInv

(* Waking threads moves them inside Writers, Upgrading or Waiting: nothing *)
(* the counters and flags speak of changes.                                *)
LEMMA WakeKeepsCounters ==
  ASSUME CountersExact, UNCHANGED <<nRead, nWrite, fExclusive, fUpgraded>>,
         \A S \in {Reading, Writers, Writing, Upgrading \cup Writing,
                   {"toWriteWait", "toWriteWoken", "upgraded"}} : At(S)' = At(S)
  PROVE  CountersExact'
BY Zenon DEF CountersExact, ExclusiveHolders, Writers

LEMMA NotifyReadStep ==
  ASSUME IInv, NEW t \in Thread, NotifyRead(t)
  PROVE  IInv'
<1>1. TypeOK /\ CountersExact /\ NoLostWakeup
  BY Zenon DEF IInv
<1>2. TypeOK'
  BY <1>1 DEF TypeOK, NotifyRead, WokenFrom, PC
<1>3. CountersExact'
  <2>1. \A S \in {Reading, Writers, Writing, Upgrading \cup Writing,
                  {"toWriteWait", "toWriteWoken", "upgraded"}} : At(S)' = At(S)
    BY <1>1 DEF NotifyRead, At, TypeOK, WokenFrom, Reading, Writers, Writing, Upgrading
  <2> QED BY Zenon, <1>1, <2>1, WakeKeepsCounters DEF NotifyRead
<1>4. NoLostWakeup'
  <2>1. At({"readWait"})' = {} /\ At({"upgradeWait"})' = {}
    BY <1>1 DEF NotifyRead, At, TypeOK, WokenFrom
  <2>2. \A S \in {{"writeWait"}, {"toWriteWait"}, {"notifyUpgrade"},
                  {"notifyWrite", "writeWoken"}} : At(S)' = At(S)
    BY <1>1 DEF NotifyRead, At, TypeOK, WokenFrom
  <2> QED BY Zenon, <1>1, <2>1, <2>2 DEF NoLostWakeup, NotifyRead
<1> QED BY Zenon, <1>2, <1>3, <1>4 DEF IInv

LEMMA NotifyWriteStep ==
  ASSUME IInv, NEW t \in Thread, NotifyWrite(t)
  PROVE  IInv'
<1>1. TypeOK /\ CountersExact /\ NoLostWakeup
  BY Zenon DEF IInv
<1>2. TypeOK'
  BY Zenon, <1>1 DEF TypeOK, NotifyWrite, NotifyOne, Go, WokenFrom, PC
<1>3. CountersExact'
  <2>1. \A S \in {Reading, Writers, Writing, Upgrading \cup Writing,
                  {"toWriteWait", "toWriteWoken", "upgraded"}} : At(S)' = At(S)
    BY Zenon, <1>1 DEF NotifyWrite, NotifyOne, Go, At, TypeOK, WokenFrom, Reading, Writers, Writing, Upgrading
  <2> QED BY Zenon, <1>1, <2>1, WakeKeepsCounters DEF NotifyWrite, NotifyOne
<1>4. NoLostWakeup'
  BY Zenon, <1>1 DEF NoLostWakeup, NotifyWrite, NotifyOne, Go, At, TypeOK, WokenFrom
<1> QED BY Zenon, <1>2, <1>3, <1>4 DEF IInv

(* The thread that waits for the upgrade is unique, so the notification    *)
(* cannot leave another one behind.                                        *)
LEMMA NotifyUpgradeStep ==
  ASSUME IInv, NEW t \in Thread, NotifyUpgrade(t)
  PROVE  IInv'
<1>1. TypeOK /\ CountersExact /\ NoLostWakeup
  BY Zenon DEF IInv
<1>2. TypeOK'
  BY Zenon, <1>1 DEF TypeOK, NotifyUpgrade, NotifyOne, Go, WokenFrom, PC
<1>3. CountersExact'
  <2>1. \A S \in {Reading, Writers, Writing, Upgrading \cup Writing,
                  {"toWriteWait", "toWriteWoken", "upgraded"}} : At(S)' = At(S)
    BY Zenon, <1>1 DEF NotifyUpgrade, NotifyOne, Go, At, TypeOK, WokenFrom, Reading, Writers, Writing, Upgrading
  <2> QED BY Zenon, <1>1, <2>1, WakeKeepsCounters DEF NotifyUpgrade, NotifyOne
<1>4. \A u, v \in At({"toWriteWait"}) : u = v
  BY Zenon, <1>1 DEF CountersExact, ExclusiveHolders, At, Upgrading
<1>5. NoLostWakeup'
  BY <1>1, <1>4 DEF NoLostWakeup, NotifyUpgrade, NotifyOne, Go, At, TypeOK, WokenFrom
<1> QED BY Zenon, <1>2, <1>3, <1>5 DEF IInv

LEMMA SpuriousWakeupStep ==
  ASSUME IInv, NEW t \in Thread, SpuriousWakeup(t)
  PROVE  IInv'
<1>1. TypeOK /\ CountersExact /\ NoLostWakeup
  BY Zenon DEF IInv
<1>2. TypeOK'
  BY <1>1 DEF TypeOK, SpuriousWakeup, Go, WokenFrom, PC
<1>3. CountersExact'
  <2>1. \A S \in {Reading, Writers, Writing, Upgrading \cup Writing,
                  {"toWriteWait", "toWriteWoken", "upgraded"}} : At(S)' = At(S)
    BY <1>1 DEF SpuriousWakeup, Go, At, TypeOK, WokenFrom, Reading, Writers, Writing, Upgrading
  <2> QED BY Zenon, <1>1, <2>1, WakeKeepsCounters DEF SpuriousWakeup
<1>4. NoLostWakeup'
  BY <1>1 DEF NoLostWakeup, SpuriousWakeup, Go, At, TypeOK, WokenFrom
<1> QED BY Zenon, <1>2, <1>3, <1>4 DEF IInv

LEMMA NextIInv == IInv /\ [Next]_vars => IInv'
<1> SUFFICES ASSUME IInv, [Next]_vars PROVE IInv'
  BY Zenon
<1>1. CASE UNCHANGED vars
  BY Zenon, <1>1 DEF IInv, vars, TypeOK, CountersExact, NoLostWakeup, ExclusiveHolders, At
<1>2. ASSUME NEW t \in Thread, Acquire(t) PROVE IInv'
  <2>1. Request(t) => pc[t] = "idle" /\ todo' \in [Thread -> Nat]
    BY DEF Request, IInv, TypeOK
  <2>2. CASE ReadLock(t)
    BY Zenon, <2>1, <2>2, ReadTestStep DEF ReadLock
  <2>3. CASE ReadTryLock(t)
    <3>1. CASE ReadBlocked
      BY Zenon, <2>1, <2>3, <3>1 DEF ReadTryLock, IInv, TypeOK, CountersExact, NoLostWakeup, ExclusiveHolders, At
    <3>2. CASE ~ReadBlocked
      <4>1. ReadTest(t)
        BY Zenon, <2>3, <3>2 DEF ReadTryLock, ReadTest
      <4> QED BY Zenon, <2>1, <2>3, <4>1, ReadTestStep DEF ReadTryLock
    <3> QED BY Zenon, <3>1, <3>2
  <2>4. CASE WriteLock(t)
    BY Zenon, <2>1, <2>4, WriteTestStep DEF WriteLock
  <2>5. CASE UpgradeLock(t)
    BY Zenon, <2>1, <2>5, UpgradeTestStep DEF UpgradeLock
  <2> QED BY Zenon, <1>2, <2>2, <2>3, <2>4, <2>5 DEF Acquire
<1>3. ASSUME NEW t \in Thread, UpgradeToWriteLock(t) PROVE IInv'
  <2>1. todo' \in [Thread -> Nat]
    BY Zenon, <1>3 DEF UpgradeToWriteLock, IInv, TypeOK
  <2> QED BY Zenon, <1>3, <2>1, ToWriteTestStep DEF UpgradeToWriteLock
<1>4. ASSUME NEW t \in Thread, Release(t) PROVE IInv'
  BY Zenon, <1>4, ReadUnlockStep, WriteUnlockStep, UpgradeUnlockStep DEF Release
<1>5. ASSUME NEW t \in Thread, Notify(t) PROVE IInv'
  BY Zenon, <1>5, NotifyReadStep, NotifyWriteStep, NotifyUpgradeStep DEF Notify
<1>6. ASSUME NEW t \in Thread, Woken(t) PROVE IInv'
  <2>1. todo' \in [Thread -> Nat]
    BY Zenon, <1>6 DEF Woken, IInv, TypeOK
  <2>2. CASE pc[t] = "readWoken" /\ ReadTest(t)
    BY Zenon, <2>1, <2>2, ReadTestStep
  <2>3. CASE pc[t] = "writeWoken" /\ WriteTest(t) /\ UNCHANGED nWrite
    <3>1. nWrite' = nWrite + (IF pc[t] = "idle" THEN 1 ELSE 0)
      BY <2>3 DEF IInv, TypeOK
    <3> QED BY Zenon, <2>1, <2>3, <3>1, WriteTestStep
  <2>4. CASE pc[t] = "upgradeWoken" /\ UpgradeTest(t)
    BY Zenon, <2>1, <2>4, UpgradeTestStep
  <2>5. CASE pc[t] = "toWriteWoken" /\ ToWriteTest(t) /\ UNCHANGED fUpgraded
    <3>1. fUpgraded' = TRUE
      BY Zenon, <2>5 DEF IInv, TypeOK, CountersExact, At
    <3> QED BY Zenon, <2>1, <2>5, <3>1, ToWriteTestStep
  <2> QED BY Zenon, <1>6, <2>2, <2>3, <2>4, <2>5 DEF Woken
<1>7. ASSUME NEW t \in Thread, SpuriousWakeup(t) PROVE IInv'
  BY Zenon, <1>7, SpuriousWakeupStep
<1> QED BY Zenon, <1>1, <1>2, <1>3, <1>4, <1>5, <1>6, <1>7 DEF Next

-----------------------------------------------------------------------------
(* CRWAccess keeps its inductive invariant, whatever the threads do.       *)
THEOREM Invariance == Spec => []IInv
BY InitIInv, NextIInv, PTL DEF Spec

(* The members of CRWAccess keep their types; in particular no unlock      *)
(* takes nRead or nWrite below zero.                                       *)
THEOREM TypeCorrect == Spec => []TypeOK
BY Invariance, PTL DEF IInv

(* The counters and flags of CRWAccess are exact and at most one thread    *)
(* is inside exclusively.                                                  *)
THEOREM CountersCorrect == Spec => []CountersExact
BY Invariance, PTL DEF IInv

(* No thread is ever blocked without a holder, a notifier or a woken       *)
(* thread that will let it continue.                                       *)
THEOREM WakeupsNotLost == Spec => []NoLostWakeup
BY Invariance, PTL DEF IInv

-----------------------------------------------------------------------------
(* The operations of CRWAccess, seen through the refinement mapping.       *)

LEMMA AcquireRefines ==
  ASSUME IInv, NEW t \in Thread, NEW s \in PC, Go(t, s),
         \/ s = "reading" /\ pc[t] \in {"idle", "readWoken"} /\ ~ReadBlocked
         \/ s = "writing" /\ pc[t] \in {"idle", "writeWoken"} /\ ~WriteBlocked
         \/ s = "upgradable" /\ pc[t] \in {"idle", "upgradeWoken"} /\ ~fExclusive
         \/ s = "upgraded" /\ pc[t] \in Upgrading /\ nRead = 0
  PROVE  Lock!LockNext
<1>1. TypeOK /\ CountersExact
  BY Zenon DEF IInv
<1>2. /\ nRead = 0 <=> At(Reading) = {}
      /\ nWrite = 0 <=> At(Writers) = {}
  BY Zenon, <1>1, Counted
<1>3. /\ \A S : s \in S => At(S)' = At(S) \cup {t}
      /\ \A S : s \notin S => At(S)' = At(S) \ {t}
  BY Zenon, <1>1, GoAt
<1>4. CASE s = "reading"
  <2>1. At(Writing) = {}
    BY <1>1, <1>2, <1>4 DEF CountersExact, ReadBlocked, At, Writing, Writers, TypeOK, Upgrading
  <2>2. Lock!AcquireRead(t)
    <3>1. t \notin At(Reading) \cup At(Writing) \cup At(Upgrading)
      BY Zenon, <1>4 DEF At, Reading, Writing, Upgrading
    <3>2. s \in Reading /\ s \notin Writing /\ s \notin Upgrading
      BY Zenon, <1>4 DEF Reading, Writing, Upgrading
    <3>3. /\ At(Reading)' = At(Reading) \cup {t}
          /\ At(Writing)' = At(Writing) \ {t} /\ At(Upgrading)' = At(Upgrading) \ {t}
      BY Zenon, <1>3, <3>2
    <3> QED  BY Zenon, <2>1, <3>1, <3>3 DEF Lock!AcquireRead, Lock!Idle
  <2> QED BY Zenon, <2>2 DEF Lock!LockNext
<1>5. CASE s = "writing"
  <2>1. At(Reading) = {} /\ At(Writing) = {} /\ At(Upgrading) = {}
    BY <1>1, <1>2, <1>5 DEF CountersExact, ExclusiveHolders, WriteBlocked, At, Writing, Upgrading, TypeOK
  <2>2. Lock!AcquireWrite(t)
    <3>1. t \notin At(Reading) \cup At(Writing) \cup At(Upgrading)
      BY Zenon, <1>5 DEF At, Reading, Writing, Upgrading
    <3>2. s \in Writing /\ s \notin Reading /\ s \notin Upgrading
      BY Zenon, <1>5 DEF Reading, Writing, Upgrading
    <3>3. /\ At(Writing)' = At(Writing) \cup {t}
          /\ At(Reading)' = At(Reading) \ {t} /\ At(Upgrading)' = At(Upgrading) \ {t}
      BY Zenon, <1>3, <3>2
    <3> QED  BY Zenon, <2>1, <3>1, <3>3 DEF Lock!AcquireWrite, Lock!Idle
  <2> QED BY Zenon, <2>2 DEF Lock!LockNext
<1>6. CASE s = "upgradable"
  <2>1. At(Writing) = {} /\ At(Upgrading) = {}
    BY Zenon, <1>1, <1>6 DEF CountersExact, ExclusiveHolders, At, Writing, Upgrading
  <2>2. /\ t \notin At(Reading) \cup At(Writing) \cup At(Upgrading)
        /\ s \in Upgrading /\ s \notin Reading /\ s \notin Writing
    BY Zenon, <1>6, <2>1 DEF At, Reading, Writing, Upgrading
  <2>3. At(Upgrading)' = {t} /\ At(Reading)' = At(Reading) /\ At(Writing)' = At(Writing)
    <3>1. /\ At(Upgrading)' = At(Upgrading) \cup {t}
          /\ At(Reading)' = At(Reading) \ {t} /\ At(Writing)' = At(Writing) \ {t}
      BY Zenon, <1>3, <2>2
    <3> QED BY Zenon, <2>1, <2>2, <3>1
  <2>4. Lock!AcquireUpgrade(t)
    BY Zenon, <2>1, <2>2, <2>3 DEF Lock!AcquireUpgrade, Lock!Idle
  <2> QED BY Zenon, <2>4 DEF Lock!LockNext
<1>7. CASE s = "upgraded"
  <2>1. At(Reading) = {} /\ At(Writing) = {} /\ At(Upgrading) = {t}
    BY Zenon, <1>1, <1>2, <1>7 DEF CountersExact, ExclusiveHolders, At, Writing, Upgrading
  <2>2. Lock!Upgrade(t)
    BY Zenon, <1>3, <1>7, <2>1 DEF Lock!Upgrade, At, Reading, Writing, Upgrading
  <2> QED BY Zenon, <2>2 DEF Lock!LockNext
<1> QED BY Zenon, <1>4, <1>5, <1>6, <1>7

LEMMA ReleaseRefines ==
  ASSUME IInv, NEW t \in Thread, Release(t)
  PROVE  Lock!LockNext
<1>1. TypeOK /\ CountersExact
  BY Zenon DEF IInv
<1>2. PICK s \in {"idle", "notifyRead", "notifyWrite", "notifyUpgrade"} : Go(t, s)
  BY Zenon DEF Release, ReadUnlock, WriteUnlock, UpgradeUnlock
<1>3. \A S : s \notin S => At(S)' = At(S) \ {t}
  BY <1>1, <1>2, GoAt DEF PC
<1>4. CASE ReadUnlock(t)
  <2>1. /\ t \in At(Reading) /\ t \notin At(Writing) /\ t \notin At(Upgrading)
        /\ s \notin Reading /\ s \notin Writing /\ s \notin Upgrading
    BY Zenon, <1>2, <1>4 DEF ReadUnlock, At, Reading, Writing, Upgrading
  <2>2. /\ At(Reading)' = At(Reading) \ {t}
        /\ At(Writing)' = At(Writing) /\ At(Upgrading)' = At(Upgrading)
    BY Zenon, <1>3, <2>1
  <2>3. Lock!ReleaseRead(t)
    BY Zenon, <2>1, <2>2 DEF Lock!ReleaseRead
  <2> QED BY Zenon, <2>3 DEF Lock!LockNext
<1>5. CASE WriteUnlock(t) \/ UpgradeUnlock(t)
  <2>1. pc[t] \in {"writing", "upgradable", "upgraded"}
    BY Zenon, <1>5 DEF WriteUnlock, UpgradeUnlock
  <2>2. At(Writing) \cup At(Upgrading) = {t}
    BY Zenon, <1>1, <2>1 DEF CountersExact, ExclusiveHolders, At, Writing, Upgrading
  <2>3. /\ t \notin At(Reading)
        /\ s \notin Reading /\ s \notin Writing /\ s \notin Upgrading
    BY Zenon, <1>2, <2>1 DEF At, Reading, Writing, Upgrading
  <2>4. At(Reading)' = At(Reading) /\ At(Writing)' = {} /\ At(Upgrading)' = {}
    BY <1>3, <2>2, <2>3
  <2>5. Lock!ReleaseExclusive(t)
    BY Zenon, <2>2, <2>4 DEF Lock!ReleaseExclusive
  <2> QED BY Zenon, <2>5 DEF Lock!LockNext
<1> QED BY Zenon, <1>4, <1>5 DEF Release

LEMMA StepRefines ==
  IInv /\ [Next]_vars => [Lock!LockNext]_(Lock!lockVars)
<1> SUFFICES ASSUME IInv, [Next]_vars
             PROVE  Lock!LockNext \/ UNCHANGED Lock!lockVars
  BY Zenon
<1> DEFINE Same == /\ At(Reading)' = At(Reading) /\ At(Writing)' = At(Writing)
                   /\ At(Upgrading)' = At(Upgrading)
<1>1. Same => UNCHANGED Lock!lockVars
  BY Zenon DEF Lock!lockVars
<1>2. TypeOK
  BY Zenon DEF IInv
<1>3. CASE UNCHANGED vars
  <2>1. Same
    BY Zenon, <1>3 DEF vars, At
  <2> QED BY Zenon, <1>1, <2>1
<1>4. ASSUME NEW t \in Thread, NEW s \in PC, Go(t, s),
             \A S \in {Reading, Writing, Upgrading} : pc[t] \in S <=> s \in S
      PROVE  Same
  BY Zenon, <1>2, <1>4 DEF Go, At, TypeOK
<1>5. ASSUME NEW t \in Thread, pc[t] \in {"idle", "readWoken"}, ReadTest(t)
      PROVE  Lock!LockNext \/ Same
  <2>1. CASE ReadBlocked
    BY Zenon, <1>4, <1>5, <2>1 DEF ReadTest, PC, Reading, Writing, Upgrading
  <2>2. CASE ~ReadBlocked
    BY Zenon, <1>5, <2>2, AcquireRefines DEF ReadTest, PC
  <2> QED BY Zenon, <2>1, <2>2
<1>6. ASSUME NEW t \in Thread, pc[t] \in {"idle", "writeWoken"}, WriteTest(t)
      PROVE  Lock!LockNext \/ Same
  <2>1. CASE WriteBlocked
    BY Zenon, <1>4, <1>6, <2>1 DEF WriteTest, PC, Reading, Writing, Upgrading
  <2>2. CASE ~WriteBlocked
    BY Zenon, <1>6, <2>2, AcquireRefines DEF WriteTest, PC
  <2> QED BY Zenon, <2>1, <2>2
<1>7. ASSUME NEW t \in Thread, pc[t] \in {"idle", "upgradeWoken"}, UpgradeTest(t)
      PROVE  Lock!LockNext \/ Same
  <2>1. CASE fExclusive
    BY Zenon, <1>4, <1>7, <2>1 DEF UpgradeTest, PC, Reading, Writing, Upgrading
  <2>2. CASE ~fExclusive
    BY Zenon, <1>7, <2>2, AcquireRefines DEF UpgradeTest, PC
  <2> QED BY Zenon, <2>1, <2>2
<1>8. ASSUME NEW t \in Thread, pc[t] \in {"upgradable", "toWriteWoken"}, ToWriteTest(t)
      PROVE  Lock!LockNext \/ Same
  <2>1. CASE nRead > 0
    <3>1. Go(t, "toWriteWait")
      BY <1>2, <1>8, <2>1 DEF ToWriteTest, TypeOK
    <3> QED BY Zenon, <1>4, <1>8, <3>1 DEF PC, Reading, Writing, Upgrading
  <2>2. CASE nRead = 0
    <3>1. Go(t, "upgraded")
      BY <1>8, <2>2 DEF ToWriteTest
    <3> QED BY Zenon, <1>8, <2>2, <3>1, AcquireRefines DEF PC, Upgrading
  <2> QED BY <1>2, <2>1, <2>2 DEF TypeOK
<1>9. ASSUME NEW t \in Thread, Acquire(t) \/ UpgradeToWriteLock(t) \/ Woken(t)
      PROVE  Lock!LockNext \/ Same
  <2>1. ReadTryLock(t) => Same \/ ReadTest(t)
    BY Zenon DEF ReadTryLock, ReadTest, At
  <2> QED BY Zenon, <1>5, <1>6, <1>7, <1>8, <1>9, <2>1
          DEF Acquire, ReadLock, ReadTryLock, WriteLock, UpgradeLock,
              UpgradeToWriteLock, Woken, Request
<1>10. ASSUME NEW t \in Thread, Notify(t) \/ SpuriousWakeup(t)
       PROVE  Same
  BY <1>2, <1>10 DEF Notify, NotifyRead, NotifyWrite, NotifyUpgrade, NotifyOne,
     SpuriousWakeup, WokenFrom, Go, At, TypeOK, Reading, Writing, Upgrading
<1> HIDE DEF Same
<1> QED BY Zenon, <1>1, <1>3, <1>9, <1>10, ReleaseRefines DEF Next

(* Every behaviour of CRWAccess is one of the lock its users assume.       *)
THEOREM Refinement == Spec => ImplementsSharedLock
<1>1. Init => Lock!LockInit
  BY Zenon DEF Init, Lock!LockInit, At, Reading, Writing, Upgrading
<1> QED BY <1>1, Invariance, StepRefines, PTL
        DEF Spec, ImplementsSharedLock, Lock!LockSpec
=============================================================================
