---------------------------- MODULE UnspentStore ----------------------------
(***************************************************************************)
(* What CForkUnspentDB promises: one map from transaction outputs to their *)
(* contents.  A commit changes it in one step, and what survives a crash   *)
(* is always a complete earlier version of the map, never a mixture of     *)
(* two: a version is frozen as a whole before it is made stable.           *)
(***************************************************************************)
CONSTANTS Out, Value, Absent

VARIABLES cur,      \* the unspent outputs, as every reader sees them
          frozen,   \* the version that is being made durable
          stable    \* the version a restart would find

storeVars == <<cur, frozen, stable>>

UtxoMap == [Out -> Value \cup {Absent}]

(* vAddNew, a set of outputs with their contents, then vRemove.            *)
Apply(m, add, rem) ==
  [o \in Out |-> IF o \in rem THEN Absent
                 ELSE IF add[o] # Absent THEN add[o] ELSE m[o]]

StoreInit == cur \in UtxoMap /\ frozen = cur /\ stable = cur

Commit == \E add \in UtxoMap, rem \in SUBSET Out :
            /\ cur' = Apply(cur, add, rem)
            /\ UNCHANGED <<frozen, stable>>

Freeze == frozen = stable /\ frozen' = cur /\ UNCHANGED <<cur, stable>>

Persist == stable' = frozen /\ UNCHANGED <<cur, frozen>>

PersistAndFreeze == stable' = frozen /\ frozen' = cur /\ UNCHANGED cur

Lose == cur' = stable /\ frozen' = stable /\ UNCHANGED stable

StoreNext == Commit \/ Freeze \/ Persist \/ PersistAndFreeze \/ Lose

StoreSpec == StoreInit /\ [][StoreNext]_storeVars
=============================================================================
