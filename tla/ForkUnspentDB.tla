---------------------------- MODULE ForkUnspentDB ----------------------------
(***************************************************************************)
(* storage::CForkUnspentDB: the unspent outputs of a fork in three layers, *)
(* an upper and a lower map in memory over a LevelDB table, with the flush *)
(* thread of CUnspentDB that moves them down, readers that look at one     *)
(* layer after the other, a walker over the whole set, crash and shutdown. *)
(* (src/src/storage/unspentdb.{h,cpp})                                     *)
(*                                                                         *)
(* rwUpper and rwLower are CRWAccess locks; RWAccess shows what they       *)
(* guarantee.  A section that runs entirely under one of them is one       *)
(* action; only the flush (upgradable on rwLower) and the walker (shared   *)
(* on both) hold a lock across several actions.                            *)
(***************************************************************************)
EXTENDS Naturals

CONSTANTS Out,       \* transaction outputs
          Value,     \* contents of an output
          Absent,    \* no entry in a map
          Null,      \* the entry that marks a removed output
          Reader,    \* threads that read single outputs
          MaxCommit  \* bound: block commits

ASSUME MarkersDistinct == Absent # Null /\ Absent \notin Value /\ Null \notin Value
ASSUME MaxCommitNat == MaxCommit \in Nat

VARIABLES upper, lower, disk,   \* dblCache.GetUpperMap(), GetLowerMap(), LevelDB
          flush, batch,         \* the flush thread and its vAddNew and vRemove
          rpc, rkey, rval,      \* ReadUnspent: position, argument, result
          seen,                 \* history: values of rkey since the read began
          walk, found,          \* WalkThroughUnspent: position, outputs visited
          mode, haltOK,         \* running, halting or down; no flush failed
          nCommit               \* commits so far

layers == <<upper, lower, disk>>
flushVars == <<flush, batch>>
readVars == <<rpc, rkey, rval, seen>>
walkVars == <<walk, found>>
modeVars == <<mode, haltOK>>
vars == <<layers, flushVars, readVars, walkVars, modeVars, nCommit>>

Cache == [Out -> Value \cup {Absent, Null}]
Disk == [Out -> Value \cup {Absent}]
Empty == [o \in Out |-> Absent]

(* The map seen through a cache.                                           *)
Overlay(base, cache) ==
  [o \in Out |-> IF cache[o] = Absent THEN base[o]
                 ELSE IF cache[o] = Null THEN Absent ELSE cache[o]]

Frozen == Overlay(disk, lower)
Current == Overlay(Frozen, upper)

Init ==
  /\ upper = Empty /\ lower = Empty /\ disk \in Disk
  /\ flush = "idle" /\ batch = Empty
  /\ rpc = [r \in Reader |-> "idle"]
  /\ rkey \in [Reader -> Out] /\ rval = [r \in Reader |-> Absent]
  /\ seen = [r \in Reader |-> {}]
  /\ walk = "idle" /\ found = Empty
  /\ mode = "up" /\ haltOK = TRUE
  /\ nCommit = 0

-----------------------------------------------------------------------------
(* Mutated forms, each the operation with one plausible mistake.           *)

FlushCommitNoErase ==    \* vRemove is dropped
  /\ flush = "gathered"
  /\ flush' = "committed"
  /\ disk' = [o \in Out |-> IF batch[o] \in Value THEN batch[o] ELSE disk[o]]
  /\ UNCHANGED <<upper, lower, batch, readVars, walkVars, modeVars, nCommit>>

ReadLowerSkipsNull(r) == \* a null entry in the lower map counts as a miss
  /\ rpc[r] = "lower"
  /\ rpc' = [rpc EXCEPT ![r] =
               IF lower[rkey[r]] \in {Absent, Null} THEN "disk" ELSE "done"]
  /\ rval' = [rval EXCEPT ![r] =
                IF lower[rkey[r]] \in Value THEN lower[rkey[r]] ELSE Absent]
  /\ UNCHANGED <<layers, flushVars, rkey, seen, walkVars, modeVars, nCommit>>

LoadWalkerUpperOnly ==   \* does not skip what the lower map covers
  /\ walk = "locked"
  /\ walk' = "disk"
  /\ found' = [o \in Out |-> IF upper[o] = Absent THEN disk[o] ELSE Absent]
  /\ UNCHANGED <<layers, flushVars, readVars, modeVars, nCommit>>

HaltFlushOnce(ok) ==     \* one flush instead of two
  /\ mode = "halt2"
  /\ mode' = "closing"
  /\ \/ /\ ok
        /\ disk' = Overlay(disk, lower) /\ lower' = upper /\ upper' = Empty
        /\ UNCHANGED haltOK
     \/ /\ ~ok
        /\ haltOK' = FALSE
        /\ UNCHANGED layers
  /\ UNCHANGED <<flushVars, readVars, walkVars, nCommit>>

-----------------------------------------------------------------------------
UpperFree == walk \notin {"disk", "caches"}
LowerFree == walk = "idle"

(* UpdateUnspent, the last step of a block commit, writes the additions    *)
(* and then a null entry for each removal.                                 *)
UpdateUnspent(add, rem) ==
  /\ mode = "up" /\ UpperFree /\ nCommit < MaxCommit
  /\ upper' = [o \in Out |-> IF o \in rem THEN Null
                             ELSE IF add[o] # Absent THEN add[o] ELSE upper[o]]
  /\ seen' = [r \in Reader |->
                IF rpc[r] \in {"lower", "disk"}
                THEN seen[r] \cup {Overlay(Frozen, upper')[rkey[r]]}
                ELSE seen[r]]
  /\ nCommit' = nCommit + 1
  /\ UNCHANGED <<lower, disk, flushVars, rpc, rkey, rval, walkVars, modeVars>>

-----------------------------------------------------------------------------
(* Flush.  mtxFlush keeps a second flush out.                              *)

FlushBegin ==
  /\ mode = "up" /\ flush = "idle"
  /\ flush' = "gathered" /\ batch' = lower
  /\ UNCHANGED <<layers, readVars, walkVars, modeVars, nCommit>>

FlushCommit ==
  /\ flush = "gathered"
  /\ flush' = "committed"
  /\ disk' = Overlay(disk, batch)
  /\ UNCHANGED <<upper, lower, batch, readVars, walkVars, modeVars, nCommit>>

FlushFail ==      \* TxnBegin or TxnCommit returns false
  /\ flush = "gathered"
  /\ flush' = "idle"
  /\ UNCHANGED <<layers, batch, readVars, walkVars, modeVars, nCommit>>

Flip ==
  /\ flush = "committed" /\ LowerFree /\ UpperFree
  /\ flush' = "idle"
  /\ lower' = upper /\ upper' = Empty
  /\ UNCHANGED <<disk, batch, readVars, walkVars, modeVars, nCommit>>

-----------------------------------------------------------------------------
(* ReadUnspent: upper, lower and disk, each under its own lock.            *)

Content(e) == IF e = Null THEN Absent ELSE e

ReadUpper(r, o) ==
  /\ mode = "up" /\ rpc[r] \in {"idle", "done"}
  /\ rkey' = [rkey EXCEPT ![r] = o]
  /\ seen' = [seen EXCEPT ![r] = {Current[o]}]
  /\ rpc' = [rpc EXCEPT ![r] = IF upper[o] = Absent THEN "lower" ELSE "done"]
  /\ rval' = [rval EXCEPT ![r] = Content(upper[o])]
  /\ UNCHANGED <<layers, flushVars, walkVars, modeVars, nCommit>>

ReadLower(r) ==
  /\ rpc[r] = "lower"
  /\ rpc' = [rpc EXCEPT ![r] = IF lower[rkey[r]] = Absent THEN "disk" ELSE "done"]
  /\ rval' = [rval EXCEPT ![r] = Content(lower[rkey[r]])]
  /\ UNCHANGED <<layers, flushVars, rkey, seen, walkVars, modeVars, nCommit>>

ReadDisk(r) ==
  /\ rpc[r] = "disk"
  /\ rpc' = [rpc EXCEPT ![r] = "done"]
  /\ rval' = [rval EXCEPT ![r] = disk[rkey[r]]]
  /\ UNCHANGED <<layers, flushVars, rkey, seen, walkVars, modeVars, nCommit>>

-----------------------------------------------------------------------------
(* WalkThroughUnspent: rwLower, then rwUpper and the table (LoadWalker     *)
(* skips what a cache covers), then the lower and the upper map.           *)

WalkLock ==
  /\ mode = "up" /\ walk = "idle"
  /\ walk' = "locked" /\ found' = Empty
  /\ UNCHANGED <<layers, flushVars, readVars, modeVars, nCommit>>

LoadWalker ==
  /\ walk = "locked"
  /\ walk' = "disk"
  /\ found' = [o \in Out |->
                 IF upper[o] = Absent /\ lower[o] = Absent THEN disk[o] ELSE Absent]
  /\ UNCHANGED <<layers, flushVars, readVars, modeVars, nCommit>>

WalkCaches ==
  /\ walk = "disk"
  /\ walk' = "caches"
  /\ found' = [o \in Out |->
                 IF upper[o] \in Value THEN upper[o]
                 ELSE IF upper[o] = Absent /\ lower[o] \in Value THEN lower[o]
                 ELSE found[o]]
  /\ UNCHANGED <<layers, flushVars, readVars, modeVars, nCommit>>

WalkUnlock ==      \* at the end, or early when the walker stops
  /\ walk \in {"disk", "caches"}
  /\ walk' = "idle" /\ found' = Empty
  /\ UNCHANGED <<layers, flushVars, readVars, modeVars, nCommit>>

-----------------------------------------------------------------------------
(* CUnspentDB::Deinitialize joins the flush thread, flushes twice, ignores *)
(* a failure, and destroys the caches.  Its callers have stopped.          *)

HaltBegin ==
  /\ mode = "up" /\ flush = "idle" /\ walk = "idle"
  /\ \A r \in Reader : rpc[r] \in {"idle", "done"}
  /\ mode' = "halt2"
  /\ UNCHANGED <<layers, flushVars, readVars, walkVars, haltOK, nCommit>>

HaltFlush(ok) ==
  /\ mode \in {"halt2", "halt1"}
  /\ mode' = IF mode = "halt2" THEN "halt1" ELSE "closing"
  /\ \/ /\ ok
        /\ disk' = Overlay(disk, lower) /\ lower' = upper /\ upper' = Empty
        /\ UNCHANGED haltOK
     \/ /\ ~ok
        /\ haltOK' = FALSE
        /\ UNCHANGED layers
  /\ UNCHANGED <<flushVars, readVars, walkVars, nCommit>>

Forget ==      \* what is in memory goes
  /\ upper' = Empty /\ lower' = Empty /\ UNCHANGED disk
  /\ flush' = "idle" /\ batch' = Empty
  /\ rpc' = [r \in Reader |-> "idle"]
  /\ rval' = [r \in Reader |-> Absent]
  /\ seen' = [r \in Reader |-> {}]
  /\ walk' = "idle" /\ found' = Empty
  /\ UNCHANGED rkey

HaltEnd == mode = "closing" /\ Forget /\ mode' = "down" /\ UNCHANGED <<haltOK, nCommit>>

Crash == mode # "down" /\ Forget /\ mode' = "down" /\ haltOK' = FALSE /\ UNCHANGED nCommit

Restart ==     \* LoadFork opens the table, the caches are new
  /\ mode = "down"
  /\ mode' = "up" /\ haltOK' = TRUE
  /\ UNCHANGED <<layers, flushVars, readVars, walkVars, nCommit>>

Flush == FlushBegin \/ FlushCommit \/ FlushFail \/ Flip

Next ==
  \/ \E add \in Disk, rem \in SUBSET Out : UpdateUnspent(add, rem)
  \/ Flush
  \/ \E r \in Reader : \E o \in Out : ReadUpper(r, o)
  \/ \E r \in Reader : ReadLower(r) \/ ReadDisk(r)
  \/ WalkLock \/ LoadWalker \/ WalkCaches \/ WalkUnlock
  \/ HaltBegin \/ HaltEnd \/ (\E ok \in BOOLEAN : HaltFlush(ok))
  \/ Crash \/ Restart

Spec == Init /\ [][Next]_vars

-----------------------------------------------------------------------------
(* The layers are maps, only the caches hold null entries, and the control *)
(* states are the ones of the code.                                        *)
TypeOK ==
  /\ upper \in Cache /\ lower \in Cache /\ disk \in Disk
  /\ flush \in {"idle", "gathered", "committed"} /\ batch \in Cache
  /\ rpc \in [Reader -> {"idle", "lower", "disk", "done"}]
  /\ rkey \in [Reader -> Out] /\ rval \in [Reader -> Value \cup {Absent}]
  /\ seen \in [Reader -> SUBSET (Value \cup {Absent})]
  /\ walk \in {"idle", "locked", "disk", "caches"} /\ found \in Disk
  /\ mode \in {"up", "halt2", "halt1", "closing", "down"}
  /\ haltOK \in BOOLEAN /\ nCommit \in Nat

(* ReadUnspent (unspentdb.cpp:101-135) drops rwUpper before it takes       *)
(* rwLower, and rwLower before it reads the table, while commits and       *)
(* flushes move entries between the layers.  What it returns is still a    *)
(* value the output had at some moment between its first and last step.    *)
ReadsLinearizable == \A r \in Reader : rpc[r] = "done" => rval[r] \in seen[r]

(* WalkThroughUnspent (unspentdb.cpp:164-211) visits exactly the current   *)
(* outputs, each once and with its current content, although the flush may *)
(* commit the lower map to the table while it walks.                       *)
WalkComplete == walk = "caches" => found = Current

(* CForkUnspentDB implements the abstract store: flushes change nothing    *)
(* anybody can read, and what a crash leaves is a version that was frozen  *)
(* at a commit boundary.                                                   *)
Store == INSTANCE UnspentStore WITH cur <- Current, frozen <- Frozen, stable <- disk
ImplementsUnspentStore == Store!StoreSpec

(* The two flushes of Deinitialize (unspentdb.cpp:349-350) lose nothing    *)
(* unless one of them fails.                                               *)
HaltLosesNothing == [][mode # "up" /\ haltOK' => Current' = Current]_vars
=============================================================================
