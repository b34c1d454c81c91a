------------------------------ MODULE RWAccess ------------------------------
(***************************************************************************)
(* xengine::CRWAccess, the read/write/upgrade lock under the block base,   *)
(* the unspent and index databases, the transaction pool and the wallet    *)
(* (src/src/xengine/rwlock.h).                                             *)
(*                                                                         *)
(* One action is one critical section of the inner boost::mutex.  A wait   *)
(* on a condition variable ends the section and puts the thread in a       *)
(* "...Wait" state; a notification moves it to "...Woken", from where it   *)
(* tests the loop condition again.  The unlock operations notify AFTER the *)
(* mutex is released, so the notification is a step of its own and other   *)
(* threads run in between.                                                 *)
(***************************************************************************)
EXTENDS Naturals, FiniteSets

CONSTANTS Thread,      \* threads that use the lock
          MaxRequest   \* bound: lock requests each thread makes

ASSUME ThreadFinite == IsFiniteSet(Thread)
ASSUME MaxRequestNat == MaxRequest \in Nat

VARIABLES nRead, nWrite, fExclusive, fUpgraded,  \* the members of CRWAccess
          pc,      \* where each thread is
          todo     \* lock requests each thread may still make

vars == <<nRead, nWrite, fExclusive, fUpgraded, pc, todo>>

PC == {"idle", "readWait", "readWoken", "reading",
       "writeWait", "writeWoken", "writing",
       "upgradeWait", "upgradeWoken", "upgradable",
       "toWriteWait", "toWriteWoken", "upgraded",
       "notifyRead", "notifyWrite", "notifyUpgrade"}

At(S) == {t \in Thread : pc[t] \in S}
Go(t, s) == pc' = [pc EXCEPT ![t] = s]

Init ==
  /\ nRead = 0 /\ nWrite = 0
  /\ fExclusive = FALSE /\ fUpgraded = FALSE
  /\ pc = [t \in Thread |-> "idle"]
  /\ todo = [t \in Thread |-> MaxRequest]

Request(t) ==
  /\ pc[t] = "idle" /\ todo[t] > 0
  /\ todo' = [todo EXCEPT ![t] = @ - 1]

(* Mutated forms, each the operation with one plausible mistake.           *)
ReadUnlockForgetsWriters(t) ==   \* never notifies condWrite
  /\ pc[t] = "reading"
  /\ nRead' = nRead - 1
  /\ Go(t, IF nRead' = 0 /\ fExclusive THEN "notifyUpgrade" ELSE "idle")
  /\ UNCHANGED <<nWrite, fExclusive, fUpgraded, todo>>

UpgradeUnlockWakesWriters(t) ==  \* condWrite only, whoever is waiting
  /\ pc[t] \in {"upgradable", "upgraded"}
  /\ Go(t, IF nWrite # 0 THEN "notifyWrite" ELSE "idle")
  /\ fExclusive' = FALSE /\ fUpgraded' = FALSE
  /\ UNCHANGED <<nRead, nWrite, todo>>

UpgradeUnlockKeepsUpgraded(t) == \* fUpgraded is not cleared
  /\ pc[t] \in {"upgradable", "upgraded"}
  /\ Go(t, IF nWrite # 0 /\ (fUpgraded \/ nRead = 0)
           THEN "notifyWrite" ELSE "notifyRead")
  /\ fExclusive' = FALSE
  /\ UNCHANGED <<nRead, nWrite, fUpgraded, todo>>

ToWriteTestTooEarly(t) ==        \* does not wait for the last reader
  /\ \/ nRead > 1 /\ Go(t, "toWriteWait")
     \/ nRead <= 1 /\ Go(t, "upgraded")
  /\ UNCHANGED <<nRead, nWrite, fExclusive>>

-----------------------------------------------------------------------------
(* The test of each waiting loop and what follows it.                      *)

ReadBlocked == nWrite > 0 \/ fUpgraded

ReadTest(t) ==
  /\ \/ ReadBlocked /\ Go(t, "readWait") /\ UNCHANGED nRead
     \/ ~ReadBlocked /\ Go(t, "reading") /\ nRead' = nRead + 1
  /\ UNCHANGED <<nWrite, fExclusive, fUpgraded>>

WriteBlocked == nRead > 0 \/ fExclusive

WriteTest(t) ==
  /\ \/ WriteBlocked /\ Go(t, "writeWait") /\ UNCHANGED fExclusive
     \/ ~WriteBlocked /\ Go(t, "writing") /\ fExclusive' = TRUE
  /\ UNCHANGED <<nRead, fUpgraded>>

UpgradeTest(t) ==
  /\ \/ fExclusive /\ Go(t, "upgradeWait") /\ UNCHANGED fExclusive
     \/ ~fExclusive /\ Go(t, "upgradable") /\ fExclusive' = TRUE
  /\ UNCHANGED <<nRead, nWrite, fUpgraded>>

ToWriteTest(t) ==
  /\ \/ nRead > 0 /\ Go(t, "toWriteWait")
     \/ nRead = 0 /\ Go(t, "upgraded")
  /\ UNCHANGED <<nRead, nWrite, fExclusive>>

-----------------------------------------------------------------------------
(* The public operations.                                                  *)

ReadLock(t) == Request(t) /\ ReadTest(t)

ReadTryLock(t) ==
  /\ Request(t)
  /\ \/ ReadBlocked /\ UNCHANGED <<nRead, pc>>
     \/ ~ReadBlocked /\ Go(t, "reading") /\ nRead' = nRead + 1
  /\ UNCHANGED <<nWrite, fExclusive, fUpgraded>>

ReadUnlock(t) ==
  /\ pc[t] = "reading"
  /\ nRead' = nRead - 1
  /\ Go(t, IF nRead' # 0 THEN "idle"
           ELSE IF fExclusive THEN "notifyUpgrade"
           ELSE IF nWrite # 0 THEN "notifyWrite" ELSE "idle")
  /\ UNCHANGED <<nWrite, fExclusive, fUpgraded, todo>>

WriteLock(t) ==
  /\ Request(t)
  /\ nWrite' = nWrite + 1
  /\ WriteTest(t)

WriteUnlock(t) ==
  /\ pc[t] = "writing"
  /\ nWrite' = nWrite - 1
  /\ fExclusive' = FALSE
  /\ Go(t, IF nWrite' # 0 THEN "notifyWrite" ELSE "notifyRead")
  /\ UNCHANGED <<nRead, fUpgraded, todo>>

UpgradeLock(t) == Request(t) /\ UpgradeTest(t)

UpgradeToWriteLock(t) ==
  /\ pc[t] = "upgradable"
  /\ fUpgraded' = TRUE
  /\ ToWriteTest(t)
  /\ UNCHANGED todo

UpgradeUnlock(t) ==
  /\ pc[t] \in {"upgradable", "upgraded"}
  /\ Go(t, IF nWrite # 0 /\ (fUpgraded \/ nRead = 0)
           THEN "notifyWrite" ELSE "notifyRead")
  /\ fExclusive' = FALSE /\ fUpgraded' = FALSE
  /\ UNCHANGED <<nRead, nWrite, todo>>

-----------------------------------------------------------------------------
(* The condition variables.  condRead also carries the upgrade waiters.    *)

WokenFrom == [readWait |-> "readWoken", writeWait |-> "writeWoken",
              upgradeWait |-> "upgradeWoken", toWriteWait |-> "toWriteWoken"]

NotifyRead(t) ==     \* condRead.notify_all()
  /\ pc[t] = "notifyRead"
  /\ pc' = [u \in Thread |->
              IF u = t THEN "idle"
              ELSE IF pc[u] \in {"readWait", "upgradeWait"} THEN WokenFrom[pc[u]]
              ELSE pc[u]]
  /\ UNCHANGED <<nRead, nWrite, fExclusive, fUpgraded, todo>>

NotifyOne(t, wait) ==
  /\ \/ At({wait}) = {} /\ Go(t, "idle")
     \/ \E u \in At({wait}) :
          pc' = [pc EXCEPT ![t] = "idle", ![u] = WokenFrom[wait]]
  /\ UNCHANGED <<nRead, nWrite, fExclusive, fUpgraded, todo>>

NotifyWrite(t) == pc[t] = "notifyWrite" /\ NotifyOne(t, "writeWait")

NotifyUpgrade(t) == pc[t] = "notifyUpgrade" /\ NotifyOne(t, "toWriteWait")

(* A woken thread takes the mutex again and repeats its test.              *)
Woken(t) ==
  \/ pc[t] = "readWoken" /\ ReadTest(t) /\ UNCHANGED todo
  \/ pc[t] = "writeWoken" /\ WriteTest(t) /\ UNCHANGED <<nWrite, todo>>
  \/ pc[t] = "upgradeWoken" /\ UpgradeTest(t) /\ UNCHANGED todo
  \/ pc[t] = "toWriteWoken" /\ ToWriteTest(t) /\ UNCHANGED <<fUpgraded, todo>>

(* boost::condition_variable_any::wait may return without a notification.  *)
SpuriousWakeup(t) ==
  /\ pc[t] \in DOMAIN WokenFrom
  /\ Go(t, WokenFrom[pc[t]])
  /\ UNCHANGED <<nRead, nWrite, fExclusive, fUpgraded, todo>>

Acquire(t) == ReadLock(t) \/ ReadTryLock(t) \/ WriteLock(t) \/ UpgradeLock(t)
Release(t) == ReadUnlock(t) \/ WriteUnlock(t) \/ UpgradeUnlock(t)
Notify(t) == NotifyRead(t) \/ NotifyWrite(t) \/ NotifyUpgrade(t)

Next ==
  \E t \in Thread : \/ Acquire(t) \/ UpgradeToWriteLock(t) \/ Release(t)
                    \/ Notify(t) \/ Woken(t) \/ SpuriousWakeup(t)

(* A holder releases in the end (every use is a scoped guard), a thread    *)
(* that is past its unlock reaches its notify call, and a woken thread     *)
(* gets the mutex.  Nothing obliges a thread to ask for the lock, to       *)
(* upgrade, or to wake without being notified.                             *)
Fairness == \A t \in Thread : /\ WF_vars(Release(t))
                              /\ WF_vars(Notify(t))
                              /\ WF_vars(Woken(t))

Spec == Init /\ [][Next]_vars

-----------------------------------------------------------------------------
Reading == {"reading"}
Upgrading == {"upgradable", "toWriteWait", "toWriteWoken"}
Writing == {"writing", "upgraded"}
Waiting == {"readWait", "readWoken", "writeWait", "writeWoken",
            "upgradeWait", "upgradeWoken"}

(* The members of CRWAccess and the control state have their types.        *)
TypeOK ==
  /\ nRead \in Nat /\ nWrite \in Nat
  /\ fExclusive \in BOOLEAN /\ fUpgraded \in BOOLEAN
  /\ pc \in [Thread -> PC]
  /\ todo \in [Thread -> Nat]

(* The counters and flags of rwlock.h:140-143 say exactly who is inside:   *)
(* nRead counts the readers, nWrite the writers that wait or hold,         *)
(* fExclusive is set iff one thread (never two) writes or holds the        *)
(* upgradable mode, fUpgraded iff that thread is turning it into a write   *)
(* lock.                                                                   *)
ExclusiveHolders == At(Upgrading \cup Writing)
CountersExact ==
  /\ nRead = Cardinality(At(Reading))
  /\ nWrite = Cardinality(At({"writeWait", "writeWoken", "writing"}))
  /\ fExclusive <=> ExclusiveHolders # {}
  /\ fUpgraded <=> At({"toWriteWait", "toWriteWoken", "upgraded"}) # {}
  /\ \A t, u \in ExclusiveHolders : t = u
  /\ At(Writing) # {} => At(Reading) = {}

(* No wake-up is lost although every unlock notifies after it has dropped  *)
(* the mutex (rwlock.h:52-59, 82-89, 130-137): a thread blocked on a       *)
(* condition variable always has a holder that keeps it out, or a thread   *)
(* that is about to notify, or a woken thread ahead of it that will.       *)
NoLostWakeup ==
  /\ At({"readWait"}) # {} =>
       nWrite > 0 \/ fUpgraded \/ At({"notifyRead"}) # {}
  /\ At({"upgradeWait"}) # {} =>
       nWrite > 0 \/ fExclusive \/ At({"notifyRead"}) # {}
  /\ At({"writeWait"}) # {} =>
       \/ nRead > 0 \/ fExclusive
       \/ At({"notifyWrite", "writeWoken"}) # {}
  /\ At({"toWriteWait"}) # {} =>
       nRead > 0 \/ At({"notifyUpgrade"}) # {}

(* No thread waits for ever: one that asks for the lock, in any mode, gets *)
(* it, and an upgrade that waits for the readers to leave completes.       *)
Served ==
  \A t \in Thread : /\ []<>(pc[t] \notin Waiting)
                    /\ []<>(pc[t] \notin {"toWriteWait", "toWriteWoken"})

(* CRWAccess implements the lock its users assume: readers share, writers  *)
(* exclude everybody, and an upgrade admits nobody in between.             *)
Lock == INSTANCE SharedLock
          WITH readers <- At(Reading), writers <- At(Writing),
               upgraders <- At(Upgrading)
ImplementsSharedLock == Lock!LockSpec
=============================================================================
