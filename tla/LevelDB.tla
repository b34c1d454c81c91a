------------------------------- MODULE LevelDB -------------------------------
(***************************************************************************)
(* The threads and files of leveldb's DBImpl (src/src/leveldb/db/          *)
(* db_impl.cc and VersionSet::LogAndApply): writers queue up and the first *)
(* writes the log for a group of them; full memtables go to tables in the  *)
(* background thread, which also merges tables; files nobody needs are     *)
(* deleted; after a crash the logs are read back.                          *)
(*                                                                         *)
(* A writer writes one batch, named like the writer.  A table or memtable  *)
(* is the set of its batches.  Which entries of a key win, and which       *)
(* tables a compaction takes, is the subject of module LevelVersions; the  *)
(* format of the log of module LevelLog.                                   *)
(***************************************************************************)
EXTENDS Integers, Sequences, FiniteSets, FiniteSetsExt

CONSTANTS Writer, SyncWriter,  \* the writers, and those with WriteOptions::sync
          Reader,
          write_buffer_size,   \* batches a memtable holds
          MaxGroup,            \* batches a group holds
          kL0_CompactionTrigger, kL0_SlowdownWritesTrigger, kL0_StopWritesTrigger,
          Faults,              \* the faults that may happen
          MaxFault,            \* bound: faults
          MaxClose             \* bound: times the database is closed

DBConstants == MaxGroup \in Nat \ {0}   \* a group holds at least its first batch

VARIABLES mode,      \* "run", "closing", "down", "recover" or "install"
          pc, res,   \* of each writer, and what its Write returned
          writers_,  \* the queue
          woken,     \* writers whose cv was signalled
          group,     \* the batches of the group being written
          seq,       \* batch -> the sequence number it was given
          last_sequence_,
          logs,      \* the log files: number -> the records, how many are synced,
                     \* and after how many a write stopped short
          logfile_number_, mem_, imm_,
          tables,    \* the table files: number -> set of batches
          current,   \* the current version, with log_number_
          manifest,  \* the version in the file CURRENT names
          next_file_number_, pending_outputs_,
          held,      \* reader -> the version it has a reference to, and its snapshot
          scheduled, \* background_compaction_scheduled_
          bg,        \* the background thread
          bg_error_,
          acked,     \* the batches that may not be lost: their Write returned OK, and
                     \* no write of their log had failed before
          faults, closes

wvars == <<pc, res, writers_, woken, group, seq, last_sequence_>>
fvars == <<logs, tables, manifest>>
vvars == <<logfile_number_, mem_, imm_, current, next_file_number_, pending_outputs_>>
bvars == <<scheduled, bg, bg_error_>>
vars == <<mode, wvars, fvars, vvars, held, bvars, acked, faults, closes>>

\* the background thread: where it is, the table it writes for a memtable, the
\* version edit it installs and the compaction it is at, with the files of the
\* version that is its input, its tables of both levels and its output
Bg(p, out, edit, c) == [pc |-> p, out |-> out, edit |-> edit, c |-> c]
NoEdit == [add0 |-> {}, add1 |-> {}, del |-> {}, log |-> 0, next |-> 0, last |-> 0]
Compaction(base, in0, in1, merged) == [base |-> base, in0 |-> in0, in1 |-> in1, merged |-> merged]
NoCompaction == Compaction({}, {}, {}, 0)
Idle == Bg("idle", 0, NoEdit, NoCompaction)
Compacting == bg.c.in0 # {}
NoHeld == [files |-> {}, mems |-> {}, snap |-> {}]
NewLog == [recs |-> <<>>, synced |-> 0, torn |-> {}]

Fault(k) == k \in Faults /\ faults < MaxFault /\ faults' = faults + 1

Files(v) == v.l0 \cup v.l1
Put(f, x, y) == [z \in DOMAIN f \cup {x} |-> IF z = x THEN y ELSE f[z]]

\* what a version and the memtables hold
Batches(v, ms) == ms \cup UNION {tables[f] : f \in Files(v)}
-----------------------------------------------------------------------------
(***************************************************************************)
(* Signals and scheduling.                                                 *)
(***************************************************************************)
\* writers that wait for background_work_finished_signal_ look again
SignalNone(p) == p
SignalAll(p) == [w \in Writer |-> IF p[w] = "bgwait" THEN "room" ELSE p[w]]

\* MaybeScheduleCompaction
Scheduled(s, im, v, err) ==
    s \/ (mode \notin {"closing", "down"} /\ ~err /\ (im # {} \/ Cardinality(v.l0) >= kL0_CompactionTrigger))

\* pop the first n writers, tell them and the new head
Pop(w, n, result, p) ==
    LET out  == {writers_[i] : i \in 1..n}
        rest == SubSeq(writers_, n + 1, Len(writers_))
    IN  /\ writers_' = rest
        /\ pc' = [p EXCEPT ![w] = "done"]
        /\ res' = [x \in Writer |-> IF x \in out THEN result ELSE res[x]]
        /\ woken' = (woken \cup out \cup (IF rest = <<>> THEN {} ELSE {rest[1]})) \ {w}
-----------------------------------------------------------------------------
(***************************************************************************)
(* DBImpl::Write.                                                          *)
(***************************************************************************)
Enter(w) ==
    /\ mode = "run" /\ pc[w] = "idle"
    /\ writers_' = Append(writers_, w)
    /\ pc' = [pc EXCEPT ![w] = IF writers_ = <<>> THEN "room" ELSE "queued"]
    /\ UNCHANGED <<mode, res, woken, group, seq, last_sequence_, fvars, vvars, held, bvars, acked, faults, closes>>

Wake(w) ==
    /\ pc[w] = "queued" /\ w \in woken
    /\ woken' = woken \ {w}
    /\ pc' = [pc EXCEPT ![w] = IF res[w] # "none" THEN "done"
                               ELSE IF writers_[1] = w THEN "room" ELSE "queued"]
    /\ UNCHANGED <<mode, res, writers_, group, seq, last_sequence_, fvars, vvars, held, bvars, acked, faults, closes>>

\* how many of the queue BuildBatchGroup takes with the first
Grouped ==
    Max({n \in 1..Len(writers_) : n <= MaxGroup
           /\ (writers_[1] \notin SyncWriter => \A i \in 2..n : writers_[i] \notin SyncWriter)})

HasRoom == Cardinality(mem_) <= write_buffer_size

Delay(w) ==
    /\ pc[w] = "room" /\ ~bg_error_ /\ Cardinality(current.l0) >= kL0_SlowdownWritesTrigger
    /\ pc' = [pc EXCEPT ![w] = "nodelay"]
    /\ UNCHANGED <<mode, res, writers_, woken, group, seq, last_sequence_, fvars, vvars, held, bvars, acked, faults, closes>>

\* MakeRoomForWrite looks at its conditions
AtRoom(w) ==
    pc[w] = "nodelay" \/ (pc[w] = "room" /\ (bg_error_ \/ Cardinality(current.l0) < kL0_SlowdownWritesTrigger))

\* the first writer takes its group and goes on without the lock
Take(w) ==
    /\ group' = {writers_[i] : i \in 1..Grouped}
    /\ seq' = [b \in Writer |-> IF \E i \in 1..Grouped : writers_[i] = b
                                THEN last_sequence_ + (CHOOSE i \in 1..Grouped : writers_[i] = b) ELSE seq[b]]
    /\ pc' = [pc EXCEPT ![w] = "log"]
    /\ UNCHANGED <<res, writers_, woken, last_sequence_>>

RoomFails(w) ==
    /\ AtRoom(w) /\ bg_error_
    /\ Pop(w, 1, "error", pc)
    /\ UNCHANGED <<mode, group, seq, last_sequence_, fvars, vvars, held, bvars, acked, faults, closes>>

RoomFound(w) ==
    /\ AtRoom(w) /\ ~bg_error_ /\ HasRoom
    /\ Take(w)
    /\ UNCHANGED <<mode, fvars, vvars, held, bvars, acked, faults, closes>>

RoomWaits(w) ==
    /\ AtRoom(w) /\ ~bg_error_ /\ ~HasRoom
    /\ imm_ # {} \/ Cardinality(current.l0) >= kL0_StopWritesTrigger
    /\ pc' = [pc EXCEPT ![w] = "bgwait"]
    /\ UNCHANGED <<mode, res, writers_, woken, group, seq, last_sequence_, fvars, vvars, held, bvars, acked, faults, closes>>

CanSwitch(w) ==
    AtRoom(w) /\ ~bg_error_ /\ ~HasRoom /\ imm_ = {} /\ Cardinality(current.l0) < kL0_StopWritesTrigger

Switch(w) ==
    /\ CanSwitch(w)
    /\ logs' = Put(logs, next_file_number_, NewLog)
    /\ logfile_number_' = next_file_number_ /\ next_file_number_' = next_file_number_ + 1
    /\ imm_' = mem_ /\ mem_' = {}
    /\ scheduled' = Scheduled(scheduled, mem_, current, bg_error_)
    /\ Take(w)
    /\ UNCHANGED <<mode, tables, manifest, current, pending_outputs_, held, bg, bg_error_, acked, faults, closes>>

\* the new log cannot be created; the number is used again
SwitchFails(w) ==
    /\ CanSwitch(w) /\ Fault("newlog")
    /\ Pop(w, 1, "error", pc)
    /\ UNCHANGED <<mode, group, seq, last_sequence_, fvars, vvars, held, bvars, acked, closes>>

AddRecord(w) ==
    /\ pc[w] = "log"
    /\ logs' = [logs EXCEPT ![logfile_number_].recs = Append(@, group)]
    /\ pc' = [pc EXCEPT ![w] = IF w \in SyncWriter THEN "sync" ELSE "insert"]
    /\ UNCHANGED <<mode, res, writers_, woken, group, seq, last_sequence_, tables, manifest, vvars, held, bvars, acked, faults, closes>>

\* SetLastSequence and the end of Write, with the lock again
Finish(w, result, p) ==
    /\ last_sequence_' = last_sequence_ + Cardinality(group)
    /\ Pop(w, Cardinality(group), result, p)
    /\ group' = {}
    /\ acked' = IF result = "ok" /\ logs[logfile_number_].torn = {} THEN acked \cup group ELSE acked
    /\ UNCHANGED <<mode, seq, manifest, tables, logfile_number_, imm_, current, next_file_number_, pending_outputs_,
                   held, scheduled, bg, closes>>

AddRecordFails(w) ==
    /\ pc[w] = "log" /\ Fault("log")
    /\ logs' = [logs EXCEPT ![logfile_number_].torn = @ \cup {Len(logs[logfile_number_].recs)}]
    /\ Finish(w, "error", pc)
    /\ UNCHANGED <<mem_, bg_error_>>

Sync(w) ==
    /\ pc[w] = "sync"
    /\ logs' = [logs EXCEPT ![logfile_number_].synced = Len(logs[logfile_number_].recs)]
    /\ pc' = [pc EXCEPT ![w] = "insert"]
    /\ UNCHANGED <<mode, res, writers_, woken, group, seq, last_sequence_, tables, manifest, vvars, held, bvars, acked, faults, closes>>

SyncFails(w) ==
    /\ pc[w] = "sync" /\ Fault("sync")
    /\ bg_error_' = TRUE
    /\ Finish(w, "error", IF bg_error_ THEN pc ELSE SignalAll(pc))
    /\ UNCHANGED <<mem_, logs>>

InsertInto(w) ==
    /\ pc[w] = "insert"
    /\ mem_' = mem_ \cup group
    /\ Finish(w, "ok", pc)
    /\ UNCHANGED <<logs, bg_error_, faults>>
-----------------------------------------------------------------------------
(***************************************************************************)
(* The background thread.                                                  *)
(***************************************************************************)
\* Mutant: only the current version counts, not those that readers hold.
LiveInCurrent(v, pend, base) == pend \cup Files(v) \cup base

\* DeleteObsoleteFiles: the tables and logs that are kept, when v is the current
\* version, pend the pending outputs and base a version that is held besides
LiveTables(v, pend, base) == pend \cup Files(v) \cup base \cup UNION {held[r].files : r \in Reader}

Delete(v, pend, base, err) ==
    /\ tables' = IF err THEN tables ELSE [f \in DOMAIN tables \cap LiveTables(v, pend, base) |-> tables[f]]
    /\ logs' = IF err THEN logs ELSE [l \in {n \in DOMAIN logs : n >= v.log} |-> logs[l]]

\* what LogAndApply is to write, and what it makes of a version
Edit(add0, add1, del, log) ==
    [add0 |-> add0, add1 |-> add1, del |-> del, log |-> log, next |-> next_file_number_, last |-> last_sequence_]
Apply(v, e) ==
    [l0 |-> (v.l0 \ e.del) \cup e.add0, l1 |-> (v.l1 \ (e.del \ e.add1)) \cup e.add1,
     log |-> e.log, next |-> e.next, last |-> e.last]

\* the end of BackgroundCall
EndCall(im, v, err) ==
    /\ scheduled' = Scheduled(FALSE, im, v, err)
    /\ bg' = Idle
    /\ pc' = SignalAll(pc)
    /\ bg_error_' = err

CanCall == scheduled /\ bg.pc = "idle" /\ mode \in {"run", "closing"}

BackgroundCallIdle ==
    /\ CanCall
    /\ mode = "closing" \/ bg_error_ \/ (imm_ = {} /\ Cardinality(current.l0) < kL0_CompactionTrigger)
    /\ EndCall(imm_, current, bg_error_)
    /\ UNCHANGED <<mode, res, writers_, woken, group, seq, last_sequence_, fvars, vvars, held, acked, faults, closes>>

\* WriteLevel0Table begins
StartFlush ==
    /\ next_file_number_' = next_file_number_ + 1
    /\ pending_outputs_' = pending_outputs_ \cup {next_file_number_}
    /\ bg' = Bg("build", next_file_number_, NoEdit, bg.c)
    /\ UNCHANGED <<mode, wvars, fvars, logfile_number_, mem_, imm_, current, held, scheduled, bg_error_, acked, faults, closes>>

CompactMemTable ==
    /\ CanCall /\ mode = "run" /\ ~bg_error_ /\ imm_ # {}
    /\ StartFlush

\* the rest of CompactMemTable after an error: in the middle of a compaction the
\* writers are told, and the compaction goes on
FlushFails ==
    /\ IF Compacting
       THEN /\ bg' = Bg("merge", 0, NoEdit, bg.c)
            /\ bg_error_' = TRUE /\ pc' = SignalAll(pc) /\ UNCHANGED scheduled
       ELSE EndCall(imm_, current, TRUE)
    /\ UNCHANGED <<mode, res, writers_, woken, group, seq, last_sequence_, imm_, current, held, acked, closes>>

BuildTable ==
    /\ bg.pc = "build"
    /\ tables' = Put(tables, bg.out, imm_)
    /\ pending_outputs_' = pending_outputs_ \ {bg.out}
    /\ IF mode = "closing"
       THEN FlushFails /\ UNCHANGED <<logs, manifest, faults, logfile_number_, mem_, next_file_number_>>
       ELSE /\ \E level \in {0, 1} :
                 bg' = Bg("apply", bg.out,
                          Edit(IF level = 0 THEN {bg.out} ELSE {}, IF level = 1 THEN {bg.out} ELSE {}, {},
                               logfile_number_), bg.c)
            /\ UNCHANGED <<mode, wvars, logs, manifest, logfile_number_, mem_, imm_, current, next_file_number_,
                           held, scheduled, bg_error_, acked, faults, closes>>

BuildTableFails ==
    /\ bg.pc = "build" /\ Fault("table")
    /\ pending_outputs_' = pending_outputs_ \ {bg.out}
    /\ FlushFails
    /\ UNCHANGED <<fvars, logfile_number_, mem_, next_file_number_>>

\* LogAndApply writes the manifest without the lock, and syncs it
WriteManifest ==
    /\ bg.pc \in {"apply", "move", "capply"}
    /\ manifest' = Apply(manifest, bg.edit)
    /\ bg' = Bg(IF bg.pc = "apply" THEN "install" ELSE "cinstall", bg.out, bg.edit, bg.c)
    /\ UNCHANGED <<mode, wvars, logs, tables, vvars, held, scheduled, bg_error_, acked, faults, closes>>

\* it fails, and the record may be there all the same
WriteManifestFails ==
    /\ bg.pc \in {"apply", "move", "capply"} /\ Fault("manifest")
    /\ manifest' \in {manifest, Apply(manifest, bg.edit)}
    /\ IF bg.pc = "apply" THEN FlushFails /\ UNCHANGED pending_outputs_
       ELSE /\ EndCall(imm_, current, TRUE)
            /\ pending_outputs_' = pending_outputs_ \ {bg.c.merged}
            /\ UNCHANGED <<mode, res, writers_, woken, group, seq, last_sequence_, imm_, current, held, acked, closes>>
    /\ UNCHANGED <<logs, tables, logfile_number_, mem_, next_file_number_>>

\* the new version is installed, the memtable is gone
Install ==
    /\ bg.pc = "install"
    /\ current' = Apply(current, bg.edit) /\ imm_' = {}
    /\ Delete(Apply(current, bg.edit), pending_outputs_, bg.c.base, bg_error_)
    /\ IF Compacting
       THEN /\ bg' = Bg("merge", 0, NoEdit, bg.c)
            /\ pc' = SignalAll(pc) /\ UNCHANGED <<scheduled, bg_error_>>
       ELSE EndCall({}, Apply(current, bg.edit), bg_error_)
    /\ UNCHANGED <<mode, res, writers_, woken, group, seq, last_sequence_, manifest, logfile_number_, mem_,
                   next_file_number_, pending_outputs_, held, acked, faults, closes>>

\* BackgroundCompaction picks tables; a single one is moved down
BackgroundCompaction ==
    /\ CanCall /\ mode = "run" /\ ~bg_error_ /\ imm_ = {} /\ Cardinality(current.l0) >= kL0_CompactionTrigger
    /\ \E I \in SUBSET current.l0 \ {{}}, J \in {{}, current.l1} :
         bg' = IF Cardinality(I) = 1 /\ J = {}
               THEN Bg("move", 0, Edit({}, I, I, current.log), NoCompaction)
               ELSE Bg("merge", 0, NoEdit, Compaction(Files(current), I, J, 0))
    /\ UNCHANGED <<mode, wvars, fvars, vvars, held, scheduled, bg_error_, acked, faults, closes>>

\* DoCompactionWork: the output is opened and written, a memtable goes first, and
\* the results are installed
OpenOutput ==
    /\ bg.pc = "merge" /\ bg.c.merged = 0 /\ mode = "run"
    /\ bg' = Bg("merge", 0, NoEdit, Compaction(bg.c.base, bg.c.in0, bg.c.in1, next_file_number_))
    /\ next_file_number_' = next_file_number_ + 1
    /\ pending_outputs_' = pending_outputs_ \cup {next_file_number_}
    /\ tables' = Put(tables, next_file_number_, UNION {tables[f] : f \in bg.c.in0 \cup bg.c.in1})
    /\ UNCHANGED <<mode, wvars, logs, manifest, logfile_number_, mem_, imm_, current, held, scheduled, bg_error_, acked, faults, closes>>

NestedFlush ==
    /\ bg.pc = "merge" /\ imm_ # {} /\ mode = "run"
    /\ StartFlush

FinishOutputs ==
    /\ bg.pc = "merge" /\ bg.c.merged # 0 /\ mode = "run"
    /\ bg' = Bg("capply", 0, Edit({}, {bg.c.merged}, bg.c.in0 \cup bg.c.in1, current.log), bg.c)
    /\ UNCHANGED <<mode, wvars, fvars, vvars, held, scheduled, bg_error_, acked, faults, closes>>

\* an error, or the database is being closed
CompactionFails ==
    /\ bg.pc = "merge"
    /\ \/ mode = "closing" /\ UNCHANGED faults
       \/ mode = "run" /\ Fault("table")
    /\ EndCall(imm_, current, TRUE)
    /\ pending_outputs_' = pending_outputs_ \ {bg.c.merged}
    /\ UNCHANGED <<mode, res, writers_, woken, group, seq, last_sequence_, fvars, logfile_number_, mem_, imm_, current,
                   next_file_number_, held, acked, closes>>

InstallCompactionResults ==
    /\ bg.pc = "cinstall"
    /\ current' = Apply(current, bg.edit)
    /\ pending_outputs_' = pending_outputs_ \ {bg.c.merged}
    /\ IF Compacting
       THEN Delete(Apply(current, bg.edit), pending_outputs_', {}, bg_error_)
       ELSE UNCHANGED <<tables, logs>>
    /\ EndCall(imm_, Apply(current, bg.edit), bg_error_)
    /\ UNCHANGED <<mode, res, writers_, woken, group, seq, last_sequence_, manifest, logfile_number_, mem_, imm_,
                   next_file_number_, held, acked, faults, closes>>
-----------------------------------------------------------------------------
(***************************************************************************)
(* Reads hold a reference to the version and the memtables.                *)
(***************************************************************************)
BeginRead(r) ==
    /\ mode = "run" /\ held[r] = NoHeld
    /\ held' = [held EXCEPT ![r] = [files |-> Files(current), mems |-> mem_ \cup imm_,
                                    snap |-> {b \in Batches(current, mem_ \cup imm_) : seq[b] <= last_sequence_}]]
    /\ held'[r] # NoHeld
    /\ UNCHANGED <<mode, wvars, fvars, vvars, bvars, acked, faults, closes>>

EndRead(r) ==
    /\ held[r] # NoHeld
    /\ held' = [held EXCEPT ![r] = NoHeld]
    /\ UNCHANGED <<mode, wvars, fvars, vvars, bvars, acked, faults, closes>>
-----------------------------------------------------------------------------
(***************************************************************************)
(* Closing, crashes and DB::Open.                                          *)
(***************************************************************************)
\* the callers are done with the database before they delete it
Close ==
    /\ mode = "run" /\ closes < MaxClose /\ closes' = closes + 1
    /\ writers_ = <<>> /\ \A w \in Writer : pc[w] \in {"idle", "done"}
    /\ \A r \in Reader : held[r] = NoHeld
    /\ mode' = "closing"
    /\ UNCHANGED <<wvars, fvars, vvars, held, bvars, acked, faults>>

\* the memory of the process is gone
Lost ==
    /\ mode' = "down"
    /\ pc' = [w \in Writer |-> IF pc[w] = "idle" THEN "idle" ELSE "done"]
    /\ writers_' = <<>> /\ woken' = {} /\ group' = {}
    /\ mem_' = {} /\ imm_' = {} /\ pending_outputs_' = {} /\ held' = [r \in Reader |-> NoHeld]
    /\ scheduled' = FALSE /\ bg' = Idle /\ bg_error_' = FALSE
    /\ UNCHANGED <<res, seq, last_sequence_, tables, manifest, logfile_number_, current, next_file_number_>>

Closed ==
    /\ mode = "closing" /\ ~scheduled
    /\ Lost
    /\ UNCHANGED <<logs, acked, faults, closes>>

ProcessCrash ==
    /\ mode # "down" /\ Fault("process")
    /\ Lost
    /\ UNCHANGED <<logs, acked, closes>>

\* what was not synced may be lost
MachineCrash ==
    /\ mode # "down" /\ Fault("machine")
    /\ \E cut \in [DOMAIN logs -> 0..Cardinality(Writer)] :
         /\ \A l \in DOMAIN logs : cut[l] \in logs[l].synced..Len(logs[l].recs)
         /\ logs' = [l \in DOMAIN logs |-> [recs |-> SubSeq(logs[l].recs, 1, cut[l]), synced |-> cut[l], torn |-> logs[l].torn]]
    /\ acked' = acked \cap SyncWriter
    /\ Lost
    /\ UNCHANGED closes

Replayed == {l \in DOMAIN logs : l >= manifest.log /\ logs[l].recs # <<>>}

\* RecoverLogFile reads the records but for those lost, which come after a write
\* that stopped short
Unsure == UNION {{<<l, i>> : i \in {j \in 1..Len(logs[l].recs) : \E t \in logs[l].torn : t < j}} : l \in Replayed}
LogBatches(l, lost) == UNION {logs[l].recs[i] : i \in {j \in 1..Len(logs[l].recs) : <<l, j>> \notin lost}}

\* the last sequence number that Recover finds
LastSequence(lost) == Max({manifest.last} \cup {seq[b] : b \in UNION {LogBatches(l, lost) : l \in Replayed}})

\* the next file number when the logs D have been read, and those with
\* something to read, F, have become tables, each before its number is marked used
NextNumber(D, F) ==
    Max({manifest.next + 1 + Cardinality(F)} \cup {j + 1 + Cardinality({k \in F : k > j}) : j \in D})

\* Recover: the logs that the manifest does not make obsolete become tables
RecoverWith(lost) ==
    LET read   == {l \in DOMAIN logs : l >= manifest.log}
        found  == {l \in Replayed : LogBatches(l, lost) # {}}
        num(l) == NextNumber({k \in read : k < l}, {k \in found : k < l})
        new    == {num(l) : l \in found}
        next   == NextNumber(read, found)
        last   == LastSequence(lost)
    IN  /\ mode = "down" /\ Files(manifest) \subseteq DOMAIN tables
        /\ tables' = [f \in DOMAIN tables \cup new |->
                        IF f \in new THEN LogBatches(CHOOSE l \in found : num(l) = f, lost) ELSE tables[f]]
        /\ last_sequence_' = last
        /\ logfile_number_' = next /\ next_file_number_' = next + 1
        /\ logs' = Put(logs, next, NewLog)
        /\ current' = [l0 |-> manifest.l0 \cup new, l1 |-> manifest.l1, log |-> next, next |-> next + 1, last |-> last]
        /\ mode' = "recover"
        /\ UNCHANGED <<pc, res, writers_, woken, group, seq, manifest, mem_, imm_, pending_outputs_, held, bvars, acked, faults, closes>>

Recover == \E lost \in SUBSET Unsure : RecoverWith(lost)

\* a new manifest with everything in it, and then CURRENT
SetCurrentFile ==
    /\ mode = "recover" /\ manifest' = current /\ mode' = "install"
    /\ UNCHANGED <<wvars, logs, tables, vvars, held, bvars, acked, faults, closes>>

Opened ==
    /\ mode = "install" /\ mode' = "run"
    /\ Delete(current, {}, {}, FALSE)
    /\ scheduled' = Scheduled(FALSE, {}, current, FALSE)
    /\ UNCHANGED <<wvars, manifest, vvars, held, bg, bg_error_, acked, faults, closes>>

Init ==
    /\ mode = "run"
    /\ pc = [w \in Writer |-> "idle"] /\ res = [w \in Writer |-> "none"]
    /\ writers_ = <<>> /\ woken = {} /\ group = {} /\ seq = [w \in Writer |-> 0] /\ last_sequence_ = 0
    /\ logs = [l \in {2} |-> NewLog] /\ logfile_number_ = 2 /\ mem_ = {} /\ imm_ = {}
    /\ tables = <<>> /\ current = [l0 |-> {}, l1 |-> {}, log |-> 2, next |-> 3, last |-> 0] /\ manifest = current
    /\ next_file_number_ = 3 /\ pending_outputs_ = {} /\ held = [r \in Reader |-> NoHeld]
    /\ scheduled = FALSE /\ bg = Idle /\ bg_error_ = FALSE
    /\ acked = {} /\ faults = 0 /\ closes = 0

WriteStep(w) ==
    \/ Wake(w) \/ Delay(w) \/ RoomFails(w) \/ RoomFound(w) \/ RoomWaits(w) \/ Switch(w)
    \/ AddRecord(w) \/ Sync(w) \/ InsertInto(w)

Background ==
    \/ BackgroundCallIdle \/ CompactMemTable \/ BuildTable \/ WriteManifest \/ Install
    \/ BackgroundCompaction \/ OpenOutput \/ NestedFlush \/ FinishOutputs \/ CompactionFails \/ InstallCompactionResults

Open == Recover \/ SetCurrentFile \/ Opened

Next ==
    \/ \E w \in Writer : Enter(w) \/ WriteStep(w) \/ SwitchFails(w) \/ AddRecordFails(w) \/ SyncFails(w)
    \/ Background \/ BuildTableFails \/ WriteManifestFails
    \/ \E r \in Reader : BeginRead(r) \/ EndRead(r)
    \/ Close \/ Closed \/ ProcessCrash \/ MachineCrash \/ Open

Spec == Init /\ [][Next]_vars

-----------------------------------------------------------------------------
\* The lock and the queue hold what they should: only the first writer is past
\* MakeRoomForWrite, and a thread waits for background work only while there is
\* some.
TypeOK ==
    /\ \A w \in Writer : pc[w] \in {"room", "nodelay", "bgwait", "log", "sync", "insert"} =>
         writers_ # <<>> /\ writers_[1] = w
    /\ group # {} => \E w \in Writer : pc[w] \in {"log", "sync", "insert"}
    /\ (\E w \in Writer : pc[w] = "bgwait") => scheduled
    /\ bg.pc # "idle" => scheduled

\* A write that returned OK is never lost: not by switching memtables, flushing,
\* merging, failed writes of other logs, closing or a crash of the process; and
\* not by a crash of the machine when it was written with sync.
AckedKept == mode = "run" => acked \subseteq Batches(current, mem_ \cup imm_)

\* No file that is needed is deleted: the tables of the version that a restart
\* would find, of the current version and of every version a reader holds, in
\* which it still finds its snapshot.
FilesLive ==
    /\ Files(manifest) \subseteq DOMAIN tables
    /\ mode = "run" => Files(current) \subseteq DOMAIN tables /\ logfile_number_ \in DOMAIN logs
    /\ \A r \in DOMAIN held : /\ held[r].files \subseteq DOMAIN tables
                              /\ held[r].snap \subseteq held[r].mems \cup UNION {tables[f] : f \in held[r].files}

\* Nothing that is needed is lost: both of the above.
NothingLost == AckedKept /\ FilesLive

\* No two batches in the database have the same sequence number, and a batch that
\* was acknowledged is not hidden by last_sequence_.
SequencesFit ==
    mode = "run" => LET B == Batches(current, mem_ \cup imm_)
                    IN  /\ \A a, b \in B : a # b => seq[a] # seq[b]
                        /\ \A b \in B : seq[b] <= last_sequence_

\* What a crash of the process would leave is what readers find now, unless an
\* error has stopped the writers: no write that failed comes back.
RestartSame ==
    mode = "run" /\ group = {} /\ ~bg_error_ /\ (\A l \in DOMAIN logs : logs[l].torn = {}) =>
        Batches(current, mem_ \cup imm_) = Batches(manifest, UNION {LogBatches(l, {}) : l \in Replayed})

\* A thread is inside DBImpl::Write.
Writing(w) == pc[w] \notin {"idle", "done"}
=============================================================================
