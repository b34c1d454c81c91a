----------------------------- MODULE SharedLock -----------------------------
(***************************************************************************)
(* What a user of xengine's read/write/upgrade lock may rely on: which     *)
(* threads hold the lock, and in which mode, without saying how they wait. *)
(* An upgrader shares the lock with readers, excludes writers and other    *)
(* upgraders, and may turn its hold into an exclusive one without ever     *)
(* letting a writer in between.                                            *)
(***************************************************************************)
CONSTANT Thread

VARIABLES readers,    \* threads that hold the lock for reading
          writers,    \* threads that hold it exclusively
          upgraders   \* threads that hold the upgradable mode

lockVars == <<readers, writers, upgraders>>

LockInit == readers = {} /\ writers = {} /\ upgraders = {}

Idle(t) == t \notin readers \cup writers \cup upgraders

AcquireRead(t) ==
  /\ Idle(t) /\ writers = {}
  /\ readers' = readers \cup {t}
  /\ UNCHANGED <<writers, upgraders>>

ReleaseRead(t) ==
  /\ t \in readers
  /\ readers' = readers \ {t}
  /\ UNCHANGED <<writers, upgraders>>

AcquireWrite(t) ==
  /\ Idle(t) /\ readers = {} /\ writers = {} /\ upgraders = {}
  /\ writers' = {t}
  /\ UNCHANGED <<readers, upgraders>>

AcquireUpgrade(t) ==
  /\ Idle(t) /\ writers = {} /\ upgraders = {}
  /\ upgraders' = {t}
  /\ UNCHANGED <<readers, writers>>

Upgrade(t) ==
  /\ t \in upgraders /\ readers = {}
  /\ upgraders' = {} /\ writers' = {t}
  /\ UNCHANGED readers

ReleaseExclusive(t) ==
  /\ t \in writers \cup upgraders
  /\ writers' = {} /\ upgraders' = {}
  /\ UNCHANGED readers

LockNext ==
  \E t \in Thread : \/ AcquireRead(t) \/ ReleaseRead(t)
                    \/ AcquireWrite(t) \/ AcquireUpgrade(t)
                    \/ Upgrade(t) \/ ReleaseExclusive(t)

LockSpec == LockInit /\ [][LockNext]_lockVars
=============================================================================
