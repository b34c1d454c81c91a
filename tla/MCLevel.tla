------------------------------ MODULE MCLevel ------------------------------
(* LevelDB: its versions and compactions ("versions", with snapshots and   *)
(* manual compaction "snapshots"), its log files ("log", "torn" when a     *)
(* write may stop short), and the threads, files and restarts of a         *)
(* database, with a memtable of one batch and compaction at two tables, so *)
(* that the writes need several logs and tables: "db" with failing tables  *)
(* and manifests, "read" with a reader, "crash" with crashes of the        *)
(* process and the machine, "fail" with failing writes.                    *)
EXTENDS LevelDB, TLC

CONSTANTS Parts, w1, w2, w3, w4, u1, u2, u3   \* Parts: the instances that run

VARIABLES part,
          hist, mem, imm, files, pointer, seek, snaps, next, work, file, block_offset_,
          sizes, added, torn

\* writers without sync differ only in their names
WriterSymmetry == Permutations({w2, w3, w4}) \cup Permutations({u2, u3})
LevelBytes == (1 :> 2) @@ (2 :> 3)

Versions == INSTANCE LevelVersions WITH Key <- {1, 2, 3}, kNumLevels <- 4, kMaxMemCompactLevel <- 2, kL0_CompactionTrigger <- 2,
    MaxBytes <- LevelBytes, MaxOutput <- 1, MaxGrandParent <- 1, MaxExpanded <- 4,
    MaxSeq <- 4, MaxSnapshot <- 0, Manual <- FALSE, Deletes <- {FALSE}
Snapshots == INSTANCE LevelVersions WITH Key <- {1, 2}, kNumLevels <- 3, kMaxMemCompactLevel <- 1, kL0_CompactionTrigger <- 2,
    MaxBytes <- LevelBytes, MaxOutput <- 9, MaxGrandParent <- 1, MaxExpanded <- 4,
    MaxSeq <- 3, MaxSnapshot <- 1, Manual <- TRUE, Deletes <- {TRUE, FALSE}
Log == INSTANCE LevelLog WITH kBlockSize <- 6, kHeaderSize <- 2, Sizes <- {0, 1, 3, 4, 9}, MaxRecord <- 3,
    CanFail <- FALSE
Torn == INSTANCE LevelLog WITH kBlockSize <- 6, kHeaderSize <- 2, Sizes <- {0, 1, 3, 4, 9}, MaxRecord <- 3,
    CanFail <- TRUE
DB == INSTANCE LevelDB WITH Writer <- {w1, w2, w3, w4}, SyncWriter <- {w1}, Reader <- {}, write_buffer_size <- 0,
    MaxGroup <- 1, kL0_CompactionTrigger <- 2, kL0_SlowdownWritesTrigger <- 2,
    kL0_StopWritesTrigger <- 3, Faults <- {"table", "manifest"}, MaxFault <- 1,
    MaxClose <- 1
Crash == INSTANCE LevelDB WITH Writer <- {u1, u2, u3}, SyncWriter <- {u1}, Reader <- {}, write_buffer_size <- 0,
    MaxGroup <- 2, kL0_CompactionTrigger <- 2, kL0_SlowdownWritesTrigger <- 2,
    kL0_StopWritesTrigger <- 3, Faults <- {"process", "machine"}, MaxFault <- 2,
    MaxClose <- 0
Fails == INSTANCE LevelDB WITH Writer <- {u1, u2, u3}, SyncWriter <- {u1}, Reader <- {}, write_buffer_size <- 0,
    MaxGroup <- 2, kL0_CompactionTrigger <- 2, kL0_SlowdownWritesTrigger <- 2,
    kL0_StopWritesTrigger <- 3, Faults <- {"newlog", "log", "sync", "manifest", "process"},
    MaxFault <- 2, MaxClose <- 0

ASSUME Log!BlockAssumption
ASSUME DB!DBConstants /\ DBConstants /\ Crash!DBConstants /\ Fails!DBConstants

levelVersionsVars == <<hist, mem, imm, files, pointer, seek, snaps, next, work>>
LevelVersionsIdle == hist = 0 /\ mem = 0 /\ imm = 0 /\ files = 0 /\ pointer = 0 /\ seek = 0 /\ snaps = 0 /\
    next = 0 /\ work = 0
levelLogVars == <<file, block_offset_, sizes, added, torn>>
LevelLogIdle == file = 0 /\ block_offset_ = 0 /\ sizes = 0 /\ added = 0 /\ torn = 0
mcVars == <<part, levelVersionsVars, levelLogVars, vars>>

MCInit ==
    /\ part \in Parts
    /\ \/ part = "versions" /\ Versions!Init /\ LevelLogIdle /\ Init
       \/ part = "snapshots" /\ Snapshots!Init /\ LevelLogIdle /\ Init
       \/ part = "log" /\ Log!Init /\ LevelVersionsIdle /\ Init
       \/ part = "torn" /\ Torn!Init /\ LevelVersionsIdle /\ Init
       \/ part = "db" /\ DB!Init /\ LevelVersionsIdle /\ LevelLogIdle
       \/ part = "read" /\ Init /\ LevelVersionsIdle /\ LevelLogIdle
       \/ part = "crash" /\ Crash!Init /\ LevelVersionsIdle /\ LevelLogIdle
       \/ part = "fail" /\ Fails!Init /\ LevelVersionsIdle /\ LevelLogIdle

MCNext ==
    /\ UNCHANGED part
    /\ \/ part = "versions" /\ Versions!Next /\ UNCHANGED <<levelLogVars, vars>>
       \/ part = "snapshots" /\ Snapshots!Next /\ UNCHANGED <<levelLogVars, vars>>
       \/ part = "log" /\ Log!Next /\ UNCHANGED <<levelVersionsVars, vars>>
       \/ part = "torn" /\ Torn!Next /\ UNCHANGED <<levelVersionsVars, vars>>
       \/ part = "db" /\ DB!Next /\ UNCHANGED <<levelVersionsVars, levelLogVars>>
       \/ part = "read" /\ Next /\ UNCHANGED <<levelVersionsVars, levelLogVars>>
       \/ part = "crash" /\ Crash!Next /\ UNCHANGED <<levelVersionsVars, levelLogVars>>
       \/ part = "fail" /\ Fails!Next /\ UNCHANGED <<levelVersionsVars, levelLogVars>>

MCSpec == MCInit /\ [][MCNext]_mcVars

(* A Get sees the newest entry of its key at its snapshot, whatever was    *)
(* flushed, compacted and dropped below, and the tables of a level above 0 *)
(* do not overlap, so that one table a level is enough to look at.         *)
GetsNewest ==
  /\ part = "versions" => Versions!NoOverlap /\ Versions!GetsNewest
  /\ part = "snapshots" => Snapshots!NoOverlap /\ Snapshots!GetsNewest

(* What a restart finds is what was there: a log file is read back as the  *)
(* prefix of the records that were added, wherever it ends; after a write  *)
(* that stopped short some records may be missing, but never is one put    *)
(* together from the pieces of two.  No two batches share a sequence       *)
(* number after a restart, and it brings nothing back that a failed write  *)
(* left out.                                                               *)
LogReadsBack ==
  /\ part = "log" => Log!TypeOK /\ Log!ReadsPrefix
  /\ part = "torn" => Torn!NeverMixed
  /\ part = "db" => DB!TypeOK
  /\ part = "crash" => Crash!TypeOK /\ Crash!SequencesFit
  /\ part = "fail" => Fails!RestartSame
=============================================================================
