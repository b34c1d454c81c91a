--------------------------- MODULE LevelDBProofs ---------------------------
(* Proofs that DBImpl loses no write that it acknowledged and deletes no   *)
(* file that is needed, for any writers, readers, sizes and faults.        *)
EXTENDS LevelDB, FiniteSetTheorems, SequenceTheorems, WellFoundedInduction, TLAPS

-----------------------------------------------------------------------------
(* The inductive invariant.                                                *)
On == mode \in {"run", "closing"}
AtHead == {"room", "nodelay", "bgwait", "log", "sync", "insert"}
LogFile == [recs : Seq(SUBSET Writer), synced : Nat, torn : SUBSET Nat]
Added(e) == e.add0 \cup e.add1

QueueTypes ==
  /\ pc \in [Writer -> AtHead \cup {"idle", "queued", "done"}]
  /\ writers_ \in Seq(Writer) /\ group \subseteq Writer /\ IsFiniteSet(group)
LogTypes ==
  /\ DOMAIN logs \subseteq Nat /\ logs \in [DOMAIN logs -> LogFile]
  /\ \A l \in DOMAIN logs : logs[l].synced <= Len(logs[l].recs)
DataTypes ==
  /\ mode \in {"run", "closing", "down", "recover", "install"} /\ bg_error_ \in BOOLEAN
  /\ DOMAIN tables \subseteq Nat /\ tables \in [DOMAIN tables -> SUBSET Writer]
  /\ mem_ \subseteq Writer /\ imm_ \subseteq Writer
  /\ current.log \in Nat /\ manifest.log \in Nat /\ manifest.next \in Nat
  /\ next_file_number_ \in Nat /\ logfile_number_ \in Nat
  /\ held \in [Reader -> [files : SUBSET Nat, mems : SUBSET Writer, snap : SUBSET Writer]]

(* Only the first writer of the queue is past the wait for its turn, and   *)
(* one that waits is in the queue or has its result.                       *)
HeadInv ==
  \A w \in Writer :
    /\ pc[w] \in AtHead => writers_ # <<>> /\ writers_[1] = w
    /\ pc[w] = "queued" /\ res[w] = "none" => \E i \in 1..Len(writers_) : writers_[i] = w

(* A log holds a batch; synchronized, if its writer asked for it, and      *)
(* before any write that stopped short.                                    *)
Logged(b, l) == \E i \in 1..Len(logs[l].recs) : b \in logs[l].recs[i]
Kept(b, l) ==
  \E i \in 1..Len(logs[l].recs) :
    b \in logs[l].recs[i] /\ (b \in SyncWriter => i <= logs[l].synced) /\ \A t \in logs[l].torn : i <= t

(* The group of the first writer is in the log before the memtable.        *)
GroupInv ==
  \A w \in Writer :
    /\ pc[w] \in {"log", "sync", "insert"} /\ w \notin SyncWriter => group \cap SyncWriter = {}
    /\ pc[w] = "sync" => \A b \in group : Logged(b, logfile_number_)
    /\ pc[w] = "insert" /\ logs[logfile_number_].torn = {} => \A b \in group : Kept(b, logfile_number_)

(* Before the database is open its memory is empty.                        *)
MemoryInv ==
  ~On => /\ mem_ = {} /\ imm_ = {} /\ bg = Idle /\ ~bg_error_ /\ pending_outputs_ = {}
         /\ held = [r \in Reader |-> NoHeld] /\ writers_ = <<>>

(* The manifest never names a log later than the one that is written, and  *)
(* numbers of files are new ones.                                          *)
LogInv ==
  /\ mode # "down" => logfile_number_ \in DOMAIN logs /\ logfile_number_ < next_file_number_
  /\ On \/ mode = "install" => current.log <= manifest.log /\ manifest.log <= logfile_number_
  /\ mode \in {"recover", "install"} =>
       current.log = logfile_number_ /\ current.next = next_file_number_
  /\ \A l \in DOMAIN logs : l < next_file_number_
  /\ manifest.log < manifest.next /\ manifest.next <= next_file_number_

(* The files of the versions are there.  Without an error the manifest and *)
(* the current version name the same ones, but for the edit under way.     *)
FileInv ==
  /\ Files(manifest) \subseteq DOMAIN tables /\ \A f \in Files(manifest) : f < manifest.next
  /\ mode # "down" => Files(current) \subseteq DOMAIN tables
                      /\ \A f \in Files(current) : f < next_file_number_
  /\ On => \A f \in DOMAIN tables : f < next_file_number_
  /\ (On \/ mode = "install") /\ ~bg_error_ =>
       Files(manifest) = Files(IF bg.pc \in {"install", "cinstall"} THEN Apply(current, bg.edit)
                               ELSE current)
  /\ \A r \in Reader : /\ held[r].files \subseteq DOMAIN tables
                       /\ held[r].snap \subseteq held[r].mems \cup UNION {tables[f] : f \in held[r].files}

(* The edit that LogAndApply is at removes no table that it does not       *)
(* replace.                                                                *)
EditInv ==
  bg.pc \in {"apply", "install", "move", "capply", "cinstall"} =>
    /\ Added(bg.edit) \subseteq DOMAIN tables /\ bg.edit.del \subseteq DOMAIN tables
    /\ \A f \in bg.edit.del : tables[f] \subseteq UNION {tables[g] : g \in Added(bg.edit)}
    /\ \A f \in Added(bg.edit) : f < bg.edit.next
    /\ bg.edit.log \in Nat /\ bg.edit.next \in Nat /\ bg.edit.log < bg.edit.next
    /\ manifest.next <= bg.edit.next /\ bg.edit.next <= next_file_number_
    /\ bg.pc \in {"install", "cinstall"} => manifest.log = bg.edit.log
    /\ bg.pc \in {"move", "capply", "cinstall"} => bg.edit.log = current.log

(* A memtable that is written to a table stays until the table is in the   *)
(* version.                                                                *)
FlushInv ==
  /\ bg.pc \in {"build", "apply", "install"} => imm_ # {}
  /\ bg.pc = "build" => bg.out \in Nat \ DOMAIN tables /\ bg.out < next_file_number_
  /\ bg.pc \in {"apply", "install"} =>
       /\ Added(bg.edit) = {bg.out} /\ bg.edit.del = {} /\ bg.edit.log = logfile_number_
       /\ tables[bg.out] = imm_
  /\ bg.pc = "install" => bg.out \in Files(manifest)

(* The tables of a compaction are kept, and its output has all of them.    *)
CompactionInv ==
  /\ bg.c.in0 \cup bg.c.in1 \subseteq bg.c.base /\ bg.c.base \subseteq DOMAIN tables
  /\ bg.c.merged # 0 =>
       /\ bg.c.merged \in pending_outputs_ /\ bg.c.merged \in DOMAIN tables
       /\ \A f \in bg.c.in0 \cup bg.c.in1 : tables[f] \subseteq tables[bg.c.merged]

(* What was acknowledged is in a table that a restart finds or in a log    *)
(* that it reads.  While the database is open it is also found by reads,   *)
(* and what is only in a log is in the memtable of that log.               *)
Replays(b) == \E l \in DOMAIN logs : l >= manifest.log /\ Kept(b, l)
Stored(b) == b \in Batches(manifest, {})
SafeInv ==
  /\ \A b \in acked : Stored(b) \/ Replays(b)
  /\ On \/ mode = "install" =>
       \A b \in acked : \/ Stored(b)
                        \/ b \in imm_ /\ Replays(b)
                        \/ b \in mem_ /\ Kept(b, logfile_number_)
  /\ mode # "down" => acked \subseteq Batches(current, mem_ \cup imm_)

DBInv ==
  /\ QueueTypes /\ LogTypes /\ DataTypes /\ HeadInv /\ GroupInv /\ MemoryInv /\ LogInv
  /\ FileInv /\ EditInv /\ FlushInv /\ CompactionInv /\ SafeInv

-----------------------------------------------------------------------------
LEMMA NatMax ==
  ASSUME NEW S, S \subseteq Nat, S # {}, NEW n \in Nat, \A x \in S : x <= n
  PROVE  Max(S) \in S /\ \A x \in S : Max(S) >= x
<1> DEFINE R == OpToRel(<, Nat)
           T == {y \in Nat : \A x \in S : x <= y}
<1>1. IsWellFoundedOn(R, Nat)
  BY Zenon, NatLessThanWellFounded
<1>2. T \subseteq Nat /\ T # {}
  BY Zenon
<1>3. PICK y \in T : \A z \in T : <<z, y>> \notin R
  BY Zenon, <1>1, <1>2, WFMin
<1>4. \A z \in T : ~(z < y)
  BY Zenon, <1>2, <1>3 DEF OpToRel
<1>5. y \in S
  <2> HIDE DEF R
  <2>1. SUFFICES ASSUME y \notin S  PROVE FALSE
    BY Zenon
  <2>2. y \in Nat /\ \A x \in S : x \in Nat /\ x <= y /\ x # y
    BY Zenon, <2>1
  <2>3. PICK x \in S : TRUE
    BY Zenon
  <2>4. y - 1 \in Nat
    BY <2>2, <2>3
  <2>5. \A z \in S : z <= y - 1
    BY <2>2
  <2> QED  BY <1>4, <2>2, <2>4, <2>5
<1>6. \A x \in S : y >= x
  BY Zenon, <1>3
<1>7. \E m \in S : \A x \in S : m >= x
  BY Zenon, <1>5, <1>6
<1>8. PICK m : m = Max(S)
  BY Zenon
<1>9. m \in S /\ \A x \in S : m >= x
  BY Zenon, <1>7, <1>8, Zenon DEF Max
<1> QED  BY Zenon, <1>8, <1>9

(* A log that grew keeps what it held.                                     *)
LEMMA LogGrows ==
  ASSUME LogTypes, NEW l \in DOMAIN logs,
         Len(logs'[l].recs) \in Nat, Len(logs'[l].recs) >= Len(logs[l].recs),
         \A i \in 1..Len(logs[l].recs) : logs'[l].recs[i] = logs[l].recs[i],
         logs'[l].synced \in Nat, logs'[l].synced >= logs[l].synced, logs'[l].torn \subseteq Nat,
         \A t \in logs'[l].torn : t \in logs[l].torn \/ t >= Len(logs[l].recs)
  PROVE  \A b : (Kept(b, l) => Kept(b, l)') /\ (Logged(b, l) => Logged(b, l)')
<1>1. Len(logs[l].recs) \in Nat /\ logs[l].synced \in Nat
  BY Zenon, LenProperties DEF LogTypes, LogFile
<1>2. 1..Len(logs[l].recs) \subseteq 1..Len(logs'[l].recs)
  BY <1>1
<1>3. \A i \in 1..Len(logs[l].recs) :
        /\ i <= logs[l].synced => i <= logs'[l].synced
        /\ (\A t \in logs[l].torn : i <= t) => \A t \in logs'[l].torn : i <= t
  BY <1>1
<1>4. \A b : Logged(b, l) => Logged(b, l)'
  BY Zenon, <1>2 DEF Logged
<1>5. ASSUME NEW b, Kept(b, l)  PROVE Kept(b, l)'
  <2>1. PICK i \in 1..Len(logs[l].recs) :
          b \in logs[l].recs[i] /\ (b \in SyncWriter => i <= logs[l].synced) /\ \A t \in logs[l].torn : i <= t
    BY Zenon, <1>5 DEF Kept
  <2> QED  BY Zenon, <1>2, <1>3, <2>1 DEF Kept
<1> QED  BY Zenon, <1>4, <1>5

LEMMA LogStays ==
  ASSUME NEW l, logs'[l] = logs[l]
  PROVE  \A b : (Kept(b, l) <=> Kept(b, l)') /\ (Logged(b, l) <=> Logged(b, l)')
BY Zenon DEF Kept, Logged

(* Steps that leave files and memtables leave what is said of them.        *)
LEMMA SafeStays ==
  ASSUME SafeInv, UNCHANGED <<tables, manifest, logs, current, mem_, imm_, logfile_number_, acked>>,
         On' \/ mode' = "install" => On \/ mode = "install", mode' # "down" => mode # "down"
  PROVE  SafeInv'
<1>1. \A b, l : Kept(b, l) <=> Kept(b, l)'
  BY Zenon, LogStays
<1>2. \A b : Replays(b) <=> Replays(b)'
  BY Zenon, <1>1 DEF Replays
<1>3. \A b : Stored(b) <=> Stored(b)'
  BY Zenon DEF Stored, Batches, Files
<1>4. Batches(current, mem_ \cup imm_)' = Batches(current, mem_ \cup imm_)
  BY DEF Batches, Files
<1> QED  BY Zenon, <1>1, <1>2, <1>3, <1>4 DEF SafeInv

LEMMA EditStays ==
  ASSUME EditInv, UNCHANGED <<bg, tables, manifest, current, next_file_number_>>
  PROVE  EditInv'
BY DEF EditInv, Added

LEMMA FileStays ==
  ASSUME FileInv, UNCHANGED <<tables, manifest, current, next_file_number_, held, bg, bg_error_>>,
         On' => On, mode' = "install" => mode = "install", mode' # "down" => mode # "down"
  PROVE  FileInv'
BY DEF FileInv, Files, Apply

-----------------------------------------------------------------------------
(* The queue of writers.                                                   *)
LEMMA OneHead ==
  ASSUME HeadInv, NEW w \in Writer, pc[w] \in AtHead
  PROVE  writers_ # <<>> /\ writers_[1] = w /\ \A x \in Writer : pc[x] \in AtHead => x = w
BY Zenon DEF HeadInv

LEMMA SignalFacts ==
  ASSUME QueueTypes
  PROVE  /\ SignalAll(pc) \in [Writer -> AtHead \cup {"idle", "queued", "done"}]
         /\ \A w \in Writer : /\ SignalAll(pc)[w] \in AtHead <=> pc[w] \in AtHead
                              /\ \A s \in {"queued", "log", "sync", "insert"} :
                                   SignalAll(pc)[w] = s <=> pc[w] = s
BY Zenon DEF QueueTypes, SignalAll, AtHead

(* The steps of the background thread leave the queue as it is.            *)
LEMMA BackgroundQueue ==
  ASSUME DBInv, pc' = pc \/ pc' = SignalAll(pc), UNCHANGED <<res, writers_, group, logfile_number_>>,
         logs'[logfile_number_] = logs[logfile_number_]
  PROVE  QueueTypes' /\ HeadInv' /\ GroupInv'
<1>1. /\ pc' \in [Writer -> AtHead \cup {"idle", "queued", "done"}]
      /\ \A w \in Writer : /\ pc'[w] \in AtHead <=> pc[w] \in AtHead
                           /\ \A s \in {"queued", "log", "sync", "insert"} : pc'[w] = s <=> pc[w] = s
  BY Zenon, SignalFacts DEF DBInv, QueueTypes
<1>2. QueueTypes' /\ HeadInv'
  BY ZenonT(40), <1>1 DEF DBInv, QueueTypes, HeadInv
<1>3. \A b : (Kept(b, logfile_number_) <=> Kept(b, logfile_number_)')
             /\ (Logged(b, logfile_number_) <=> Logged(b, logfile_number_)')
  BY Zenon, LogStays
<1>4. GroupInv'
  BY Zenon, <1>1, <1>3 DEF DBInv, GroupInv
<1> QED  BY Zenon, <1>2, <1>4

(* Pop: nobody is at the head for a moment.                                *)
LEMMA PopFacts ==
  ASSUME DBInv, NEW w \in Writer, pc[w] \in AtHead, NEW n \in Nat, NEW result, result # "none",
         NEW p, p = pc \/ p = SignalAll(pc), Pop(w, n, result, p), group' \in {group, {}}
  PROVE  QueueTypes' /\ HeadInv' /\ GroupInv'
<1>1. /\ p \in [Writer -> AtHead \cup {"idle", "queued", "done"}]
      /\ \A x \in Writer : (p[x] \in AtHead <=> pc[x] \in AtHead) /\ (p[x] = "queued" <=> pc[x] = "queued")
  BY Zenon, SignalFacts DEF DBInv, QueueTypes
<1>2. pc' = [p EXCEPT ![w] = "done"] /\ writers_' = SubSeq(writers_, n + 1, Len(writers_))
  BY Zenon DEF Pop
<1>3. pc' \in [Writer -> AtHead \cup {"idle", "queued", "done"}] /\ \A x \in Writer : pc'[x] \notin AtHead
  BY Zenon, <1>1, <1>2, OneHead DEF DBInv, AtHead
<1>4. writers_' \in Seq(Writer)
  <2>1. writers_ \in Seq(Writer) /\ Len(writers_) \in Nat
    BY Zenon, LenProperties DEF DBInv, QueueTypes
  <2>2. \A i \in (n + 1)..Len(writers_) : writers_[i] \in Writer
    BY <2>1, ElementOfSeq
  <2> QED  BY <1>2, <2>1, <2>2, SubSeqProperties
<1>5. group' \subseteq Writer /\ IsFiniteSet(group')
  BY Zenon, FS_EmptySet DEF DBInv, QueueTypes
<1>6. {"log", "sync", "insert"} \subseteq AtHead
  BY Zenon DEF AtHead
<1>7. ASSUME NEW x \in Writer, pc'[x] = "queued", res'[x] = "none"
      PROVE  \E i \in 1..Len(writers_') : writers_'[i] = x
  <2>1. pc[x] = "queued"
    BY Zenon, <1>1, <1>2, <1>7
  <2>2. res[x] = "none" /\ \A i \in 1..n : writers_[i] # x
    BY Zenon, <1>7 DEF Pop
  <2>3. PICK i \in 1..Len(writers_) : writers_[i] = x
    BY Zenon, <2>1, <2>2 DEF DBInv, HeadInv
  <2>4. writers_ \in Seq(Writer) /\ Len(writers_) \in Nat /\ i > n
    BY <2>2, <2>3, LenProperties DEF DBInv, QueueTypes
  <2>5. \A j \in (n + 1)..Len(writers_) : writers_[j] \in Writer
    BY <2>4, ElementOfSeq
  <2>6. Len(writers_') = Len(writers_) - n
        /\ \A j \in 1..(Len(writers_) - n) : writers_'[j] = writers_[n + j]
    <3>1. Len(writers_') = Len(writers_) - (n + 1) + 1
          /\ \A j \in 1..(Len(writers_) - (n + 1) + 1) : writers_'[j] = writers_[(n + 1) + j - 1]
      BY <1>2, <2>3, <2>4, <2>5, SubSeqProperties
    <3>2. Len(writers_) - (n + 1) + 1 = Len(writers_) - n /\ \A j \in Nat : (n + 1) + j - 1 = n + j
      BY <2>4
    <3>3. \A j \in 1..(Len(writers_) - n) : j \in Nat
      OBVIOUS
    <3> QED  BY Zenon, <3>1, <3>2, <3>3
  <2>7. i - n \in 1..(Len(writers_) - n) /\ n + (i - n) = i
    BY <2>3, <2>4
  <2> QED  BY Zenon, <2>3, <2>6, <2>7
<1>8. QueueTypes'
  BY Zenon, <1>3, <1>4, <1>5 DEF QueueTypes
<1>9. HeadInv'
  BY Zenon, <1>3, <1>7 DEF HeadInv
<1> QED  BY Zenon, <1>3, <1>6, <1>8, <1>9 DEF GroupInv

(* BuildBatchGroup: a synchronized batch is written by a synchronized      *)
(* writer.                                                                 *)
LEMMA GroupedFacts ==
  ASSUME DBConstants, writers_ \in Seq(Writer), writers_ # <<>>
  PROVE  /\ Grouped \in 1..Len(writers_)
         /\ writers_[1] \notin SyncWriter => \A i \in 1..Grouped : writers_[i] \notin SyncWriter
<1> DEFINE S == {n \in 1..Len(writers_) : n <= MaxGroup
                   /\ (writers_[1] \notin SyncWriter => \A i \in 2..n : writers_[i] \notin SyncWriter)}
<1>1. Len(writers_) \in Nat \ {0}
  BY Zenon, EmptySeq
<1>2. 1 \in S
  BY <1>1 DEF DBConstants
<1>3. S \subseteq Nat /\ \A x \in S : x <= Len(writers_)
  BY <1>1
<1>4. Max(S) \in S
  <2> HIDE DEF S
  <2> QED  BY Zenon, <1>1, <1>2, <1>3, NatMax
<1>5. PICK n \in S : n = Grouped
  BY Zenon, <1>4 DEF Grouped
<1>6. \A i \in 1..n : i = 1 \/ i \in 2..n
  BY <1>5
<1> QED  BY Zenon, <1>5, <1>6

LEMMA TakeFacts ==
  ASSUME DBConstants, DBInv, NEW w \in Writer, pc[w] \in AtHead, Take(w)
  PROVE  /\ QueueTypes' /\ HeadInv' /\ pc'[w] = "log"
         /\ \A x \in Writer : pc'[x] \in {"log", "sync", "insert"} => x = w
         /\ w \notin SyncWriter => group' \cap SyncWriter = {}
<1>1. writers_ \in Seq(Writer) /\ writers_ # <<>> /\ writers_[1] = w
  BY Zenon, OneHead DEF DBInv, QueueTypes
<1>2. PICK n \in 1..Len(writers_) :
        /\ n = Grouped
        /\ writers_[1] \notin SyncWriter => \A i \in 1..n : writers_[i] \notin SyncWriter
  BY Zenon, <1>1, GroupedFacts
<1>3. group' = {writers_[i] : i \in 1..n} /\ pc' = [pc EXCEPT ![w] = "log"] /\ writers_' = writers_
  BY Zenon, <1>2 DEF Take
<1>4. n \in Nat /\ \A i \in 1..n : writers_[i] \in Writer
  BY <1>1, <1>2, LenProperties
<1>5. IsFiniteSet(group')
  <2> DEFINE f == [i \in 1..n |-> writers_[i]]
  <2>1. f \in Surjection(1..n, group')
    BY Zenon, <1>3 DEF Surjection
  <2>2. IsFiniteSet(1..n)
    BY <1>4, FS_Interval
  <2> QED  BY Zenon, <2>1, <2>2, FS_Surjection
<1>6. QueueTypes'
  BY Zenon, <1>1, <1>3, <1>4, <1>5 DEF DBInv, QueueTypes, AtHead
<1>7. pc \in [Writer -> AtHead \cup {"idle", "queued", "done"}]
  BY Zenon DEF DBInv, QueueTypes
<1>8. \A x \in Writer : pc'[x] \in AtHead => x = w
  BY Zenon, <1>3, <1>7, OneHead DEF DBInv, AtHead
<1>9. pc'[w] = "log" /\ HeadInv'
  <2>1. pc'[w] = "log" /\ res' = res /\ \A x \in Writer : x # w => pc'[x] = pc[x]
    BY Zenon, <1>3, <1>7 DEF Take
  <2> QED  BY Zenon, <1>1, <1>3, <1>8, <2>1 DEF HeadInv, DBInv
<1>10. \A x \in Writer : pc'[x] \in {"log", "sync", "insert"} => x = w
  BY Zenon, <1>8 DEF AtHead
<1>11. w \notin SyncWriter => group' \cap SyncWriter = {}
  BY Zenon, <1>1, <1>2, <1>3
<1> QED  BY Zenon, <1>6, <1>9, <1>10, <1>11

-----------------------------------------------------------------------------
(* The steps of the writers.                                               *)
LEMMA QueueOnly ==
  ASSUME DBInv, UNCHANGED <<mode, logs, tables, manifest, logfile_number_, mem_, imm_, current,
                            next_file_number_, pending_outputs_, held, bg, bg_error_, acked>>,
         QueueTypes', HeadInv', GroupInv', ~On => writers_' = <<>>
  PROVE  DBInv'
<1>1. LogTypes' /\ DataTypes' /\ MemoryInv' /\ LogInv'
  BY Zenon DEF DBInv, LogTypes, DataTypes, MemoryInv, LogInv, On
<1>2. FileInv'
  BY DEF DBInv, FileInv, Files, Apply, On
<1>3. EditInv' /\ FlushInv' /\ CompactionInv'
  BY DEF DBInv, EditInv, FlushInv, CompactionInv, Files, Added
<1>4. SafeInv'
  BY Zenon, SafeStays DEF DBInv, On
<1> QED  BY Zenon, <1>1, <1>2, <1>3, <1>4 DEF DBInv

LEMMA HeadOn ==
  ASSUME DBInv, NEW w \in Writer, pc[w] \in AtHead  PROVE On
BY Zenon, OneHead DEF DBInv, MemoryInv

LEMMA EnterInv ==
  ASSUME DBInv, NEW w \in Writer, Enter(w)  PROVE DBInv'
<1>1. /\ On /\ pc[w] = "idle" /\ writers_' = Append(writers_, w) /\ res' = res
      /\ pc' = [pc EXCEPT ![w] = IF writers_ = <<>> THEN "room" ELSE "queued"]
      /\ UNCHANGED <<mode, group, logs, tables, manifest, logfile_number_, mem_, imm_, current,
                     next_file_number_, pending_outputs_, held, bg, bg_error_, acked>>
  BY Zenon DEF Enter, fvars, vvars, bvars, On
<1>2. writers_ \in Seq(Writer) /\ pc \in [Writer -> AtHead \cup {"idle", "queued", "done"}]
  BY Zenon DEF DBInv, QueueTypes
<1>3. writers_' \in Seq(Writer) /\ writers_' # <<>>
      /\ (writers_ # <<>> => writers_'[1] = writers_[1]) /\ (writers_ = <<>> => writers_'[1] = w)
  BY <1>1, <1>2
<1>4. QueueTypes'
  BY Zenon, <1>1, <1>2, <1>3 DEF DBInv, QueueTypes, AtHead
<1>5. HeadInv'
  <2>1. Len(writers_') = Len(writers_) + 1 /\ writers_'[Len(writers_) + 1] = w /\ Len(writers_) \in Nat
        /\ \A i \in 1..Len(writers_) : i \in 1..Len(writers_') /\ writers_'[i] = writers_[i]
    BY <1>1, <1>2
  <2>2. \E i \in 1..Len(writers_') : writers_'[i] = w
    BY <2>1
  <2>3. ASSUME NEW x \in Writer, x # w
        PROVE  /\ pc'[x] \in AtHead => writers_' # <<>> /\ writers_'[1] = x
               /\ pc'[x] = "queued" /\ res'[x] = "none" => \E i \in 1..Len(writers_') : writers_'[i] = x
    BY <1>1, <1>2, <1>3, <2>1, <2>3 DEF DBInv, HeadInv
  <2>4. pc'[w] \in AtHead => writers_' # <<>> /\ writers_'[1] = w
    BY Zenon, <1>1, <1>2, <1>3 DEF AtHead
  <2> QED  BY Zenon, <2>2, <2>3, <2>4 DEF HeadInv
<1>6. GroupInv'
  BY Zenon, <1>1, <1>2 DEF DBInv, GroupInv, Kept, Logged
<1> QED  BY Zenon, <1>1, <1>4, <1>5, <1>6, QueueOnly

LEMMA WakeInv ==
  ASSUME DBInv, NEW w \in Writer, Wake(w)  PROVE DBInv'
<1>1. /\ pc[w] = "queued"
      /\ UNCHANGED <<mode, group, writers_, res, logs, tables, manifest, logfile_number_, mem_, imm_, current,
                     next_file_number_, pending_outputs_, held, bg, bg_error_, acked>>
  BY Zenon DEF Wake, fvars, vvars, bvars
<1>2. pc \in [Writer -> AtHead \cup {"idle", "queued", "done"}]
  BY Zenon DEF DBInv, QueueTypes
<1>3. PICK s \in {"done", "room", "queued"} :
        pc' = [pc EXCEPT ![w] = s] /\ (s = "room" => writers_ # <<>> /\ writers_[1] = w)
  <2>1. res[w] = "none" => writers_ # <<>>
    BY <1>1 DEF DBInv, HeadInv
  <2> QED  BY Zenon, <2>1 DEF Wake
<1>4. QueueTypes'
  BY Zenon, <1>1, <1>2, <1>3 DEF DBInv, QueueTypes, AtHead
<1>5. HeadInv'
  BY Zenon, <1>1, <1>2, <1>3 DEF DBInv, HeadInv, AtHead
<1>6. GroupInv'
  BY Zenon, <1>1, <1>2, <1>3 DEF DBInv, GroupInv, Kept, Logged
<1> QED  BY Zenon, <1>1, <1>4, <1>5, <1>6, QueueOnly DEF DBInv, MemoryInv

LEMMA WaitInv ==
  ASSUME DBInv, NEW w \in Writer, Delay(w) \/ RoomWaits(w)  PROVE DBInv'
<1>1. /\ pc[w] \in {"room", "nodelay"}
      /\ UNCHANGED <<mode, group, writers_, res, logs, tables, manifest, logfile_number_, mem_, imm_, current,
                     next_file_number_, pending_outputs_, held, bg, bg_error_, acked>>
  BY Zenon DEF Delay, RoomWaits, AtRoom, fvars, vvars, bvars
<1>2. pc \in [Writer -> AtHead \cup {"idle", "queued", "done"}]
  BY Zenon DEF DBInv, QueueTypes
<1>3. PICK s \in {"nodelay", "bgwait"} : pc' = [pc EXCEPT ![w] = s]
  BY Zenon DEF Delay, RoomWaits
<1>4. QueueTypes' /\ HeadInv'
  BY Zenon, <1>1, <1>2, <1>3 DEF DBInv, QueueTypes, HeadInv, AtHead
<1>5. GroupInv'
  BY Zenon, <1>1, <1>2, <1>3 DEF DBInv, GroupInv, Kept, Logged
<1> QED  BY Zenon, <1>1, <1>4, <1>5, QueueOnly DEF DBInv, MemoryInv

LEMMA RoomFailsInv ==
  ASSUME DBInv, NEW w \in Writer, RoomFails(w) \/ SwitchFails(w)  PROVE DBInv'
<1>1. /\ pc[w] \in AtHead /\ Pop(w, 1, "error", pc)
      /\ UNCHANGED <<mode, group, logs, tables, manifest, logfile_number_, mem_, imm_, current,
                     next_file_number_, pending_outputs_, held, bg, bg_error_, acked>>
  BY Zenon DEF RoomFails, SwitchFails, CanSwitch, AtRoom, AtHead, fvars, vvars, bvars
<1>2. QueueTypes' /\ HeadInv' /\ GroupInv'
  BY Zenon, <1>1, PopFacts
<1> QED  BY Zenon, <1>1, <1>2, HeadOn, QueueOnly

LEMMA RoomFoundInv ==
  ASSUME DBConstants, DBInv, NEW w \in Writer, RoomFound(w)  PROVE DBInv'
<1>1. /\ pc[w] \in AtHead /\ Take(w)
      /\ UNCHANGED <<mode, logs, tables, manifest, logfile_number_, mem_, imm_, current,
                     next_file_number_, pending_outputs_, held, bg, bg_error_, acked>>
  BY Zenon DEF RoomFound, AtRoom, AtHead, fvars, vvars, bvars
<1>2. GroupInv'
  BY Zenon, <1>1, TakeFacts DEF GroupInv
<1> QED  BY Zenon, <1>1, <1>2, TakeFacts, HeadOn, QueueOnly

(* The log of the memtable grows.                                          *)
LEMMA LogOnly ==
  ASSUME DBInv, On, NEW r \in LogFile, logs' \in [DOMAIN logs -> LogFile],
         logs'[logfile_number_] = r, \A l \in DOMAIN logs : l # logfile_number_ => logs'[l] = logs[l],
         r.synced <= Len(r.recs), Len(r.recs) >= Len(logs[logfile_number_].recs),
         \A i \in 1..Len(logs[logfile_number_].recs) : r.recs[i] = logs[logfile_number_].recs[i],
         r.synced >= logs[logfile_number_].synced,
         \A t \in r.torn : t \in logs[logfile_number_].torn \/ t >= Len(logs[logfile_number_].recs),
         UNCHANGED <<mode, tables, manifest, logfile_number_, mem_, imm_, current,
                     next_file_number_, pending_outputs_, held, bg, bg_error_, acked>>,
         QueueTypes', HeadInv', GroupInv'
  PROVE  /\ DBInv' /\ logs'[logfile_number_] = r
         /\ \A b : Kept(b, logfile_number_) => Kept(b, logfile_number_)'
<1> DEFINE n == logfile_number_
<1>1. n \in DOMAIN logs /\ n \in Nat
  BY Zenon DEF DBInv, LogInv, On, DataTypes
<1>2. DOMAIN logs' = DOMAIN logs /\ logs'[n] = r /\ \A l \in DOMAIN logs : l # n => logs'[l] = logs[l]
  BY Zenon, <1>1 DEF DBInv, LogTypes
<1>3. LogTypes'
  BY Zenon, <1>1, <1>2 DEF DBInv, LogTypes
<1>4. Len(r.recs) \in Nat /\ r.synced \in Nat /\ r.torn \subseteq Nat
  BY Zenon, LenProperties DEF LogFile
<1>5. \A b : Kept(b, n) => Kept(b, n)'
  BY Zenon, <1>1, <1>2, <1>4, LogGrows DEF DBInv
<1>6. ASSUME NEW l \in DOMAIN logs, NEW b, Kept(b, l)  PROVE Kept(b, l)'
  <2>1. CASE l = n
    BY Zenon, <1>5, <1>6, <2>1
  <2>2. CASE l # n
    BY Zenon, <1>2, <1>6, <2>2, LogStays
  <2> QED  BY Zenon, <2>1, <2>2
<1>7. DataTypes' /\ MemoryInv' /\ LogInv'
  BY Zenon, <1>2 DEF DBInv, DataTypes, MemoryInv, LogInv, On
<1>8. FileInv'
  BY DEF DBInv, FileInv, Files, Apply, On
<1>9. EditInv' /\ FlushInv' /\ CompactionInv'
  BY DEF DBInv, EditInv, FlushInv, CompactionInv, Files, Added
<1>10. \A b : (Stored(b) => Stored(b)') /\ (Replays(b) => Replays(b)')
  <2>1. \A b : Stored(b) => Stored(b)'
    BY Zenon DEF Stored, Batches, Files
  <2>2. \A b : Replays(b) => Replays(b)'
    BY Zenon, <1>2, <1>6 DEF Replays
  <2> QED  BY Zenon, <2>1, <2>2
<1>11. SafeInv'
  <2>1. Batches(current, mem_ \cup imm_)' = Batches(current, mem_ \cup imm_)
    BY DEF Batches, Files
  <2> QED  BY Zenon, <1>5, <1>10, <2>1 DEF DBInv, SafeInv, On
<1>12. DBInv'
  BY Zenon, <1>3, <1>7, <1>8, <1>9, <1>11 DEF DBInv
<1> QED  BY Zenon, <1>2, <1>5, <1>12

LEMMA AddRecordInv ==
  ASSUME DBInv, NEW w \in Writer, AddRecord(w)  PROVE DBInv'
<1> DEFINE n == logfile_number_
           r == [logs[n] EXCEPT !.recs = Append(@, group)]
<1>1. /\ pc[w] = "log" /\ pc[w] \in AtHead /\ logs' = [logs EXCEPT ![n] = r]
      /\ pc' = [pc EXCEPT ![w] = IF w \in SyncWriter THEN "sync" ELSE "insert"]
      /\ UNCHANGED <<res, writers_, group>>
      /\ UNCHANGED <<mode, tables, manifest, logfile_number_, mem_, imm_, current,
                     next_file_number_, pending_outputs_, held, bg, bg_error_, acked>>
  BY Zenon DEF AddRecord, vvars, bvars, AtHead
<1>2. On /\ n \in DOMAIN logs /\ logs[n] \in LogFile /\ logs[n].synced <= Len(logs[n].recs)
  BY Zenon, <1>1, HeadOn DEF DBInv, LogInv, LogTypes, On
<1>3. logs[n].recs \in Seq(SUBSET Writer) /\ group \in SUBSET Writer /\ logs[n].synced \in Nat
      /\ logs[n].torn \subseteq Nat
  BY Zenon, <1>2 DEF LogFile, DBInv, QueueTypes
<1>4. r.recs = Append(logs[n].recs, group) /\ r.synced = logs[n].synced /\ r.torn = logs[n].torn /\ r \in LogFile
  <2>1. PICK a \in Seq(SUBSET Writer) : a = Append(logs[n].recs, group)
    BY Zenon, <1>3, AppendProperties, Zenon
  <2>2. r = [logs[n] EXCEPT !.recs = a]
    BY Zenon, <2>1
  <2> HIDE DEF r
  <2> QED  BY Zenon, <1>2, <2>1, <2>2 DEF LogFile
<1>5. /\ Len(logs[n].recs) \in Nat /\ Len(r.recs) = Len(logs[n].recs) + 1
      /\ r.recs[Len(logs[n].recs) + 1] = group
      /\ \A i \in 1..Len(logs[n].recs) : r.recs[i] = logs[n].recs[i]
  BY <1>3, <1>4
<1> HIDE DEF r
<1>6. r.synced <= Len(r.recs)
  BY <1>2, <1>3, <1>4, <1>5
<1>7. pc \in [Writer -> AtHead \cup {"idle", "queued", "done"}]
  BY Zenon DEF DBInv, QueueTypes
<1>8. QueueTypes' /\ HeadInv'
  BY Zenon, <1>1, <1>7 DEF DBInv, QueueTypes, HeadInv, AtHead
<1>9. logs' \in [DOMAIN logs -> LogFile] /\ logs'[n] = r /\ \A l \in DOMAIN logs : l # n => logs'[l] = logs[l]
  BY Zenon, <1>1, <1>2, <1>4 DEF DBInv, LogTypes
<1>10. \A x \in Writer : pc'[x] \in {"log", "sync", "insert"} => x = w
  BY Zenon, <1>1, <1>7, OneHead DEF DBInv, AtHead
<1>11. w \notin SyncWriter => group' \cap SyncWriter = {}
  BY Zenon, <1>1 DEF DBInv, GroupInv
<1>12. \A b \in group : Logged(b, n)'
  BY <1>1, <1>5, <1>9 DEF Logged
<1>13. w \notin SyncWriter /\ r.torn = {} => \A b \in group : Kept(b, n)'
  BY <1>1, <1>5, <1>9, <1>11 DEF Kept
<1>14. pc'[w] = IF w \in SyncWriter THEN "sync" ELSE "insert"
  BY Zenon, <1>1, <1>7
<1>15. GroupInv'
  BY <1>1, <1>9, <1>10, <1>11, <1>12, <1>13, <1>14 DEF GroupInv
<1> QED  BY <1>1, <1>2, <1>3, <1>4, <1>5, <1>6, <1>8, <1>9, <1>15, LogOnly

LEMMA AddRecordFailsInv ==
  ASSUME DBInv, NEW w \in Writer, AddRecordFails(w)  PROVE DBInv'
<1> DEFINE n == logfile_number_
           r == [logs[n] EXCEPT !.torn = @ \cup {Len(logs[n].recs)}]
<1>1. /\ pc[w] \in AtHead /\ logs' = [logs EXCEPT ![n] = r]
      /\ Pop(w, Cardinality(group), "error", pc) /\ group' = {}
      /\ UNCHANGED <<mode, tables, manifest, logfile_number_, mem_, imm_, current,
                     next_file_number_, pending_outputs_, held, bg, bg_error_, acked>>
  BY Zenon DEF AddRecordFails, Finish, AtHead
<1>2. On /\ n \in DOMAIN logs /\ logs[n] \in LogFile /\ logs[n].synced <= Len(logs[n].recs)
  BY Zenon, <1>1, HeadOn DEF DBInv, LogInv, LogTypes, On
<1>3. r \in LogFile /\ r.recs = logs[n].recs /\ r.synced = logs[n].synced
      /\ r.torn = logs[n].torn \cup {Len(logs[n].recs)}
  <2>1. Len(logs[n].recs) \in Nat
    BY Zenon, <1>2, LenProperties DEF LogFile
  <2> QED  BY Zenon, <1>2, <2>1 DEF LogFile
<1> HIDE DEF r
<1>4. Cardinality(group) \in Nat
  BY Zenon, FS_CardinalityType DEF DBInv, QueueTypes
<1>5. QueueTypes' /\ HeadInv' /\ GroupInv'
  BY Zenon, <1>1, <1>4, PopFacts
<1>6. Len(logs[n].recs) \in Nat /\ logs[n].synced \in Nat
  BY Zenon, <1>2, LenProperties DEF LogFile
<1>7. logs' \in [DOMAIN logs -> LogFile] /\ logs'[n] = r /\ \A l \in DOMAIN logs : l # n => logs'[l] = logs[l]
  BY Zenon, <1>1, <1>2, <1>3 DEF DBInv, LogTypes
<1> QED  BY <1>1, <1>2, <1>3, <1>5, <1>6, <1>7, LogOnly

LEMMA SyncInv ==
  ASSUME DBInv, NEW w \in Writer, Sync(w)  PROVE DBInv'
<1> DEFINE n == logfile_number_
           r == [logs[n] EXCEPT !.synced = Len(logs[n].recs)]
<1>1. /\ pc[w] = "sync" /\ pc[w] \in AtHead /\ logs' = [logs EXCEPT ![n] = r]
      /\ pc' = [pc EXCEPT ![w] = "insert"] /\ UNCHANGED <<res, writers_, group>>
      /\ UNCHANGED <<mode, tables, manifest, logfile_number_, mem_, imm_, current,
                     next_file_number_, pending_outputs_, held, bg, bg_error_, acked>>
  BY Zenon DEF Sync, vvars, bvars, AtHead
<1>2. On /\ n \in DOMAIN logs /\ logs[n] \in LogFile /\ logs[n].synced <= Len(logs[n].recs)
  BY Zenon, <1>1, HeadOn DEF DBInv, LogInv, LogTypes, On
<1>3. Len(logs[n].recs) \in Nat /\ logs[n].synced \in Nat
  BY Zenon, <1>2, LenProperties DEF LogFile
<1>4. r \in LogFile /\ r.recs = logs[n].recs /\ r.synced = Len(logs[n].recs) /\ r.torn = logs[n].torn
  BY Zenon, <1>2, <1>3 DEF LogFile
<1> HIDE DEF r
<1>5. pc \in [Writer -> AtHead \cup {"idle", "queued", "done"}]
  BY Zenon DEF DBInv, QueueTypes
<1>6. QueueTypes' /\ HeadInv'
  BY Zenon, <1>1, <1>5 DEF DBInv, QueueTypes, HeadInv, AtHead
<1>7. logs' \in [DOMAIN logs -> LogFile] /\ logs'[n] = r /\ \A l \in DOMAIN logs : l # n => logs'[l] = logs[l]
  BY Zenon, <1>1, <1>2, <1>4 DEF DBInv, LogTypes
<1>8. \A x \in Writer : pc'[x] \in {"log", "sync", "insert"} => x = w
  BY Zenon, <1>1, <1>5, OneHead DEF DBInv, AtHead
<1>9. w \notin SyncWriter => group' \cap SyncWriter = {}
  BY Zenon, <1>1 DEF DBInv, GroupInv
<1>10. \A b \in group : Logged(b, n)
  BY Zenon, <1>1 DEF DBInv, GroupInv
<1>11. r.torn = {} => \A b \in group : Kept(b, n)'
  BY <1>1, <1>3, <1>4, <1>7, <1>10 DEF Kept, Logged
<1>12. pc'[w] = "insert"
  BY Zenon, <1>1, <1>5
<1>13. GroupInv'
  BY Zenon, <1>1, <1>7, <1>8, <1>9, <1>11, <1>12 DEF GroupInv
<1> QED  BY <1>1, <1>2, <1>3, <1>4, <1>6, <1>7, <1>13, LogOnly

(* SyncFails: the queue and the error.                                     *)
LEMMA SyncFailsInv ==
  ASSUME DBInv, NEW w \in Writer, SyncFails(w)  PROVE DBInv'
<1>1. /\ pc[w] \in AtHead /\ bg_error_' /\ bg_error_' \in BOOLEAN
      /\ Pop(w, Cardinality(group), "error", IF bg_error_ THEN pc ELSE SignalAll(pc)) /\ group' = {}
      /\ UNCHANGED <<mode, logs, tables, manifest, logfile_number_, mem_, imm_, current,
                     next_file_number_, pending_outputs_, held, bg, acked>>
  BY Zenon DEF SyncFails, Finish, AtHead
<1>2. Cardinality(group) \in Nat
  BY Zenon, FS_CardinalityType DEF DBInv, QueueTypes
<1>3. QueueTypes' /\ HeadInv' /\ GroupInv'
  BY Zenon, <1>1, <1>2, PopFacts
<1>4. On
  BY Zenon, <1>1, HeadOn
<1>5. LogTypes' /\ DataTypes' /\ MemoryInv' /\ LogInv'
  BY Zenon, <1>1, <1>4 DEF DBInv, LogTypes, DataTypes, MemoryInv, LogInv, On
<1>6. FileInv'
  BY <1>1 DEF DBInv, FileInv, Files, On
<1>7. EditInv' /\ FlushInv' /\ CompactionInv'
  BY <1>1 DEF DBInv, EditInv, FlushInv, CompactionInv, Files, Added
<1>8. SafeInv'
  BY Zenon, <1>1, SafeStays DEF DBInv, On
<1> QED  BY Zenon, <1>3, <1>5, <1>6, <1>7, <1>8 DEF DBInv

LEMMA InsertIntoInv ==
  ASSUME DBInv, NEW w \in Writer, InsertInto(w)  PROVE DBInv'
<1>1. /\ pc[w] = "insert" /\ pc[w] \in AtHead /\ mem_' = mem_ \cup group
      /\ acked' = IF logs[logfile_number_].torn = {} THEN acked \cup group ELSE acked
      /\ Pop(w, Cardinality(group), "ok", pc) /\ group' = {}
      /\ UNCHANGED <<mode, logs, tables, manifest, logfile_number_, imm_, current,
                     next_file_number_, pending_outputs_, held, bg, bg_error_>>
  BY Zenon DEF InsertInto, Finish, AtHead
<1>2. Cardinality(group) \in Nat /\ group \subseteq Writer
  BY Zenon, FS_CardinalityType DEF DBInv, QueueTypes
<1>3. QueueTypes' /\ HeadInv' /\ GroupInv'
  BY Zenon, <1>1, <1>2, PopFacts
<1>4. On
  BY Zenon, <1>1, HeadOn
<1>5. LogTypes' /\ DataTypes' /\ MemoryInv' /\ LogInv'
  BY Zenon, <1>1, <1>2, <1>4 DEF DBInv, LogTypes, DataTypes, MemoryInv, LogInv, On
<1>6. FileInv'
  BY Zenon, <1>1, FileStays DEF DBInv, On
<1>7. EditInv' /\ FlushInv' /\ CompactionInv'
  BY <1>1 DEF DBInv, EditInv, FlushInv, CompactionInv, Files, Added
<1>8. \A b : (Stored(b) <=> Stored(b)') /\ (Replays(b) <=> Replays(b)')
             /\ (Kept(b, logfile_number_) <=> Kept(b, logfile_number_)')
  BY ZenonT(40), <1>1 DEF Stored, Replays, Kept, Batches, Files
<1>9. \A b \in acked' \ acked : b \in group /\ Kept(b, logfile_number_) /\ Replays(b)
  BY Zenon, <1>1, <1>4 DEF DBInv, GroupInv, Replays, LogInv, On, DataTypes
<1>10. /\ Batches(current, mem_ \cup imm_)' = Batches(current, mem_ \cup imm_) \cup group
       /\ mode # "down" /\ mode' # "down"
  BY <1>1, <1>4 DEF Batches, Files, On
<1>11. SafeInv'
  BY Zenon, <1>1, <1>4, <1>8, <1>9, <1>10 DEF DBInv, SafeInv, On
<1> QED  BY Zenon, <1>3, <1>5, <1>6, <1>7, <1>11 DEF DBInv

LEMMA SwitchInv ==
  ASSUME DBConstants, DBInv, NEW w \in Writer, Switch(w)  PROVE DBInv'
<1> DEFINE n == next_file_number_
<1>1. /\ pc[w] \in AtHead /\ imm_ = {} /\ Take(w) /\ logs' = Put(logs, n, NewLog)
      /\ logfile_number_' = n /\ next_file_number_' = n + 1 /\ imm_' = mem_ /\ mem_' = {}
      /\ UNCHANGED <<mode, tables, manifest, current, pending_outputs_, held, bg, bg_error_, acked>>
  BY Zenon DEF Switch, CanSwitch, AtRoom, AtHead
<1>2. On
  BY Zenon, <1>1, HeadOn
<1>3. n \in Nat /\ n \notin DOMAIN logs /\ logfile_number_ < n /\ logfile_number_ \in DOMAIN logs
      /\ logfile_number_ \in Nat /\ manifest.log \in Nat /\ current.log \in Nat /\ manifest.next \in Nat
  BY <1>2 DEF DBInv, LogInv, DataTypes, On
<1>4. DOMAIN logs' = DOMAIN logs \cup {n} /\ logs'[n] = NewLog /\ \A l \in DOMAIN logs : logs'[l] = logs[l]
  BY Zenon, <1>1, <1>3 DEF Put
<1>5. NewLog \in LogFile /\ NewLog.synced <= Len(NewLog.recs)
  BY EmptySeq DEF NewLog, LogFile
<1>6. LogTypes'
  <2>1. logs' = [l \in DOMAIN logs \cup {n} |-> IF l = n THEN NewLog ELSE logs[l]]
    BY Zenon, <1>1 DEF Put
  <2>2. logs' \in [DOMAIN logs' -> LogFile]
    BY Zenon, <1>4, <1>5, <2>1 DEF DBInv, LogTypes
  <2> QED  BY Zenon, <1>3, <1>4, <1>5, <2>2 DEF DBInv, LogTypes
<1>7. DataTypes' /\ MemoryInv'
  BY <1>1, <1>2, <1>3 DEF DBInv, DataTypes, MemoryInv, On
<1>8. LogInv'
  BY SMTT(30), <1>1, <1>2, <1>3, <1>4 DEF DBInv, LogInv, On, LogTypes
<1>9. FileInv'
  <2>1. \A f \in DOMAIN tables : f \in Nat
    BY Zenon DEF DBInv, DataTypes
  <2>2. \A f \in Files(current) : f \in Nat
    BY Zenon, <1>2, <2>1 DEF DBInv, FileInv, On
  <2> QED  BY <1>1, <1>2, <1>3, <2>1, <2>2 DEF DBInv, FileInv, Files, Apply, On
<1>10. bg.pc \notin {"build", "apply", "install"}
  BY Zenon, <1>1 DEF DBInv, FlushInv
<1>11. EditInv' /\ CompactionInv'
  BY <1>1, <1>3 DEF DBInv, EditInv, CompactionInv, Added
<1>12. FlushInv'
  BY Zenon, <1>1, <1>10 DEF FlushInv
<1>13. \A l \in DOMAIN logs : \A b : Kept(b, l) => Kept(b, l)'
  BY Zenon, <1>4, LogStays
<1>14. \A b : (Stored(b) => Stored(b)') /\ (Replays(b) => Replays(b)')
  <2>1. \A b : Stored(b) => Stored(b)'
    BY Zenon, <1>1 DEF Stored, Batches, Files
  <2>2. \A b : Replays(b) => Replays(b)'
    BY Zenon, <1>1, <1>4, <1>13 DEF Replays
  <2> QED  BY Zenon, <2>1, <2>2
<1>15. \A b : Kept(b, logfile_number_) => Replays(b)
  BY Zenon, <1>2, <1>3 DEF Replays, DBInv, LogInv
<1>16. Batches(current, mem_ \cup imm_)' = Batches(current, mem_ \cup imm_)
  BY <1>1 DEF Batches, Files
<1>17. SafeInv'
  BY Zenon, <1>1, <1>2, <1>14, <1>15, <1>16 DEF DBInv, SafeInv, On
<1>18. GroupInv'
  BY Zenon, <1>1, TakeFacts DEF GroupInv
<1> QED  BY Zenon, <1>1, <1>6, <1>7, <1>8, <1>9, <1>11, <1>12, <1>17, <1>18, TakeFacts DEF DBInv

-----------------------------------------------------------------------------
(* The steps of the background thread.                                     *)
LEMMA BackgroundOn ==
  ASSUME DBInv, bg.pc # "idle"  PROVE On
BY DEF DBInv, MemoryInv, Idle, Bg

(* Steps that leave the versions and delete nothing.                       *)
LEMMA TablesGrow ==
  ASSUME DBInv, On,
         UNCHANGED <<mode, logs, manifest, current, mem_, imm_, logfile_number_, held, acked,
                     res, writers_, group>>,
         pc' = pc \/ pc' = SignalAll(pc),
         next_file_number_' \in Nat, next_file_number_' >= next_file_number_,
         DOMAIN tables' \subseteq Nat, tables' \in [DOMAIN tables' -> SUBSET Writer],
         \A f \in DOMAIN tables : f \in DOMAIN tables' /\ tables'[f] = tables[f],
         \A f \in DOMAIN tables' : f < next_file_number_',
         bg_error_' \in BOOLEAN,
         ~bg_error_' => ~bg_error_ /\ {bg.pc, bg'.pc} \cap {"install", "cinstall"} = {},
         EditInv', FlushInv', CompactionInv'
  PROVE  DBInv'
<1>1. QueueTypes' /\ HeadInv' /\ GroupInv'
  BY Zenon, BackgroundQueue
<1>2. next_file_number_ \in Nat /\ logfile_number_ \in Nat /\ manifest.next \in Nat /\ On'
  BY Zenon DEF DBInv, DataTypes, On
<1>3. LogTypes' /\ DataTypes' /\ MemoryInv'
  BY Zenon, <1>2 DEF DBInv, LogTypes, DataTypes, MemoryInv, On
<1>4. LogInv'
  BY <1>2 DEF DBInv, LogTypes, LogInv, On
<1>5. FileInv'
  <2>1. Files(manifest)' = Files(manifest) /\ Files(current)' = Files(current)
    BY Zenon DEF Files
  <2>2. Files(manifest) \subseteq DOMAIN tables' /\ Files(current) \subseteq DOMAIN tables'
    BY Zenon, <1>2 DEF DBInv, FileInv, On
  <2>3. ~bg_error_' => Files(manifest) = Files(current) /\ bg'.pc \notin {"install", "cinstall"}
    BY Zenon DEF DBInv, FileInv
  <2>4. ASSUME NEW r \in Reader
        PROVE  /\ held[r].files \subseteq DOMAIN tables'
               /\ held[r].snap \subseteq held[r].mems \cup UNION {tables'[f] : f \in held[r].files}
    BY DEF DBInv, FileInv
  <2> QED  BY Zenon, <1>2, <2>1, <2>2, <2>3, <2>4 DEF DBInv, FileInv
<1>6. \A b : (Stored(b) => Stored(b)') /\ (Replays(b) => Replays(b)')
             /\ (Kept(b, logfile_number_) => Kept(b, logfile_number_)')
  <2>1. \A b : Stored(b) => Stored(b)'
    BY DEF Stored, Batches, Files, DBInv, FileInv
  <2>2. \A b : (Replays(b) => Replays(b)') /\ (Kept(b, logfile_number_) => Kept(b, logfile_number_)')
    BY Zenon DEF Replays, Kept
  <2> QED  BY Zenon, <2>1, <2>2
<1>7. Batches(current, mem_ \cup imm_) \subseteq Batches(current, mem_ \cup imm_)'
  BY DEF Batches, Files, DBInv, FileInv, On
<1>8. SafeInv'
  BY Zenon, <1>6, <1>7 DEF DBInv, SafeInv, On
<1> QED  BY Zenon, <1>1, <1>3, <1>4, <1>5, <1>8 DEF DBInv

LEMMA BgFields ==
  \A p, o, e, c : /\ Bg(p, o, e, c).pc = p /\ Bg(p, o, e, c).out = o
                  /\ Bg(p, o, e, c).edit = e /\ Bg(p, o, e, c).c = c
BY Zenon DEF Bg

LEMMA CompactionFields ==
  \A b, i, j, m : /\ Compaction(b, i, j, m).base = b /\ Compaction(b, i, j, m).in0 = i
                  /\ Compaction(b, i, j, m).in1 = j /\ Compaction(b, i, j, m).merged = m
BY Zenon DEF Compaction

LEMMA IdleFields ==
  /\ Idle.pc = "idle" /\ Idle.c = NoCompaction /\ NoCompaction.base = {} /\ NoCompaction.in0 = {}
  /\ NoCompaction.in1 = {} /\ NoCompaction.merged = 0
BY BgFields, CompactionFields DEF Idle, NoCompaction

(* The end of a call, or of a memtable inside a compaction.                *)
LEMMA EndOfCall ==
  ASSUME DBInv, On,
         UNCHANGED <<mode, logs, manifest, current, mem_, imm_, logfile_number_, held, acked,
                     res, writers_, group, next_file_number_>>,
         pc' = pc \/ pc' = SignalAll(pc),
         DOMAIN tables' \subseteq Nat, tables' \in [DOMAIN tables' -> SUBSET Writer],
         \A f \in DOMAIN tables : f \in DOMAIN tables' /\ tables'[f] = tables[f],
         \A f \in DOMAIN tables' : f < next_file_number_,
         bg_error_' \in BOOLEAN, ~bg_error_' => ~bg_error_ /\ bg.pc \notin {"install", "cinstall"},
         \/ bg' = Idle
         \/ bg' = Bg("merge", 0, NoEdit, bg.c) /\ (bg.c.merged # 0 => bg.c.merged \in pending_outputs_')
  PROVE  DBInv'
<1>1. bg'.pc \in {"idle", "merge"}
  BY BgFields, IdleFields
<1>2. EditInv' /\ FlushInv'
  BY Zenon, <1>1 DEF EditInv, FlushInv
<1>3. CompactionInv'
  <2>1. CASE bg' = Idle
    BY Zenon, <2>1, IdleFields DEF CompactionInv
  <2>2. CASE bg'.c = bg.c /\ (bg.c.merged # 0 => bg.c.merged \in pending_outputs_')
    BY Zenon, <2>2 DEF DBInv, CompactionInv
  <2> QED  BY <2>1, <2>2, BgFields
<1>4. next_file_number_ \in Nat
  BY Zenon DEF DBInv, DataTypes
<1> QED  BY <1>1, <1>2, <1>3, <1>4, TablesGrow

LEMMA TablesStay ==
  ASSUME DBInv, On, UNCHANGED <<tables, next_file_number_>>
  PROVE  /\ DOMAIN tables' \subseteq Nat /\ tables' \in [DOMAIN tables' -> SUBSET Writer]
         /\ \A f \in DOMAIN tables : f \in DOMAIN tables' /\ tables'[f] = tables[f]
         /\ \A f \in DOMAIN tables' : f < next_file_number_
         /\ next_file_number_ \in Nat /\ bg_error_ \in BOOLEAN
BY Zenon DEF DBInv, DataTypes, FileInv

LEMMA TableWritten ==
  ASSUME DBInv, On, NEW f \in Nat, f \notin DOMAIN tables, NEW S \in SUBSET Writer,
         tables' = Put(tables, f, S)
  PROVE  /\ DOMAIN tables' \subseteq Nat /\ tables' \in [DOMAIN tables' -> SUBSET Writer]
         /\ DOMAIN tables' = DOMAIN tables \cup {f} /\ tables'[f] = S
         /\ \A g \in DOMAIN tables : g \in DOMAIN tables' /\ tables'[g] = tables[g] /\ g # f
<1>1. tables' = [g \in DOMAIN tables \cup {f} |-> IF g = f THEN S ELSE tables[g]]
  BY Zenon DEF Put
<1> QED  BY Zenon, <1>1 DEF DBInv, DataTypes

LEMMA BackgroundCallIdleInv ==
  ASSUME DBInv, BackgroundCallIdle  PROVE DBInv'
<1>1. /\ On /\ bg.pc = "idle" /\ bg' = Idle /\ pc' = SignalAll(pc)
      /\ UNCHANGED <<mode, logs, manifest, current, mem_, imm_, logfile_number_, held, acked,
                     res, writers_, group, next_file_number_, tables, bg_error_>>
  BY Zenon DEF BackgroundCallIdle, CanCall, EndCall, On, fvars, vvars
<1> QED  BY Zenon, <1>1, TablesStay, EndOfCall

LEMMA CompactionFailsInv ==
  ASSUME DBInv, CompactionFails  PROVE DBInv'
<1>1. /\ bg.pc = "merge" /\ bg' = Idle /\ pc' = SignalAll(pc) /\ bg_error_' /\ bg_error_' \in BOOLEAN
      /\ UNCHANGED <<mode, logs, manifest, current, mem_, imm_, logfile_number_, held, acked,
                     res, writers_, group, next_file_number_, tables>>
  BY Zenon DEF CompactionFails, EndCall, fvars
<1> QED  BY Zenon, <1>1, BackgroundOn, TablesStay, EndOfCall

LEMMA FlushFailsEffect ==
  ASSUME FlushFails
  PROVE  /\ pc' = SignalAll(pc) /\ bg_error_' /\ bg_error_' \in BOOLEAN
         /\ bg' = Idle \/ bg' = Bg("merge", 0, NoEdit, bg.c)
         /\ UNCHANGED <<mode, imm_, current, held, acked, res, writers_, group>>
BY Zenon DEF FlushFails, EndCall

LEMMA BuildTableFailsInv ==
  ASSUME DBInv, BuildTableFails  PROVE DBInv'
<1>1. /\ bg.pc = "build" /\ FlushFails /\ pending_outputs_' = pending_outputs_ \ {bg.out}
      /\ UNCHANGED <<logs, manifest, mem_, logfile_number_, next_file_number_, tables>>
  BY Zenon DEF BuildTableFails, fvars
<1>2. bg.c.merged # 0 => bg.c.merged \in pending_outputs_'
  BY Zenon, <1>1 DEF DBInv, CompactionInv, FlushInv
<1> QED  BY Zenon, <1>1, <1>2, BackgroundOn, TablesStay, FlushFailsEffect, EndOfCall

LEMMA StartFlushInv ==
  ASSUME DBInv, On, imm_ # {}, bg.pc \in {"idle", "merge"}, StartFlush  PROVE DBInv'
<1> DEFINE n == next_file_number_
<1>1. /\ next_file_number_' = n + 1 /\ pending_outputs_' = pending_outputs_ \cup {n}
      /\ bg' = Bg("build", n, NoEdit, bg.c)
      /\ UNCHANGED <<mode, logs, manifest, current, mem_, imm_, logfile_number_, held, acked,
                     res, writers_, group, pc, tables, bg_error_>>
  BY Zenon DEF StartFlush, wvars, fvars
<1>2. n \in Nat /\ n \notin DOMAIN tables /\ DOMAIN tables \subseteq Nat
      /\ tables \in [DOMAIN tables -> SUBSET Writer] /\ bg_error_ \in BOOLEAN
  BY DEF DBInv, DataTypes, FileInv
<1>3. bg'.pc = "build" /\ bg'.out = n /\ bg'.c = bg.c
  BY ZenonT(40), <1>1 DEF Bg
<1>4. EditInv' /\ FlushInv' /\ CompactionInv'
  BY <1>1, <1>2, <1>3 DEF DBInv, EditInv, FlushInv, CompactionInv
<1>5. \A f \in DOMAIN tables' : f < next_file_number_'
  BY <1>1, <1>2 DEF DBInv, FileInv
<1> QED  BY <1>1, <1>2, <1>3, <1>4, <1>5, TablesGrow

LEMMA FlushStartsInv ==
  ASSUME DBInv, CompactMemTable \/ NestedFlush  PROVE DBInv'
<1>1. On /\ imm_ # {} /\ bg.pc \in {"idle", "merge"} /\ StartFlush
  BY Zenon DEF CompactMemTable, NestedFlush, CanCall, On
<1> QED  BY Zenon, <1>1, StartFlushInv

LEMMA EditFields ==
  ASSUME NEW a, NEW b, NEW d, NEW l
  PROVE  /\ Edit(a, b, d, l).add0 = a /\ Edit(a, b, d, l).add1 = b /\ Edit(a, b, d, l).del = d
         /\ Edit(a, b, d, l).log = l /\ Edit(a, b, d, l).next = next_file_number_
BY Zenon DEF Edit

LEMMA BuildTableInv ==
  ASSUME DBInv, BuildTable  PROVE DBInv'
<1>1. /\ bg.pc = "build" /\ tables' = Put(tables, bg.out, imm_)
      /\ pending_outputs_' = pending_outputs_ \ {bg.out}
      /\ UNCHANGED <<logs, manifest, logfile_number_, mem_, next_file_number_>>
  BY Zenon DEF BuildTable
<1>2. /\ On /\ bg.out \in Nat /\ bg.out \notin DOMAIN tables /\ bg.out < next_file_number_
      /\ imm_ \in SUBSET Writer /\ next_file_number_ \in Nat
  BY Zenon, <1>1, BackgroundOn DEF DBInv, FlushInv, DataTypes
<1>3. /\ DOMAIN tables' \subseteq Nat /\ tables' \in [DOMAIN tables' -> SUBSET Writer]
      /\ DOMAIN tables' = DOMAIN tables \cup {bg.out} /\ tables'[bg.out] = imm_
      /\ \A g \in DOMAIN tables : g \in DOMAIN tables' /\ tables'[g] = tables[g] /\ g # bg.out
  BY Zenon, <1>1, <1>2, TableWritten
<1>4. \A f \in DOMAIN tables' : f < next_file_number_
  BY Zenon, <1>2, <1>3 DEF DBInv, FileInv
<1>5. bg.c.merged # 0 => bg.c.merged \in pending_outputs_'
  BY Zenon, <1>1, <1>3 DEF DBInv, CompactionInv
<1>6. CASE mode = "closing"
  <2>1. FlushFails
    BY Zenon, <1>6 DEF BuildTable
  <2> QED  BY Zenon, <1>1, <1>2, <1>3, <1>4, <1>5, <2>1, FlushFailsEffect, EndOfCall
<1>7. CASE mode # "closing"
  <2>1. PICK a, b : /\ bg' = Bg("apply", bg.out, Edit(a, b, {}, logfile_number_), bg.c)
                    /\ a \cup b = {bg.out}
    BY <1>7 DEF BuildTable
  <2>2. UNCHANGED <<mode, imm_, current, held, acked, res, writers_, group, pc, bg_error_>>
    BY Zenon, <1>7 DEF BuildTable, wvars
  <2>3. /\ bg'.pc = "apply" /\ bg'.out = bg.out /\ bg'.c = bg.c /\ bg'.edit.del = {}
        /\ bg'.edit.log = logfile_number_ /\ bg'.edit.next = next_file_number_
        /\ Added(bg'.edit) = {bg.out}
    BY <2>1, BgFields, EditFields DEF Added
  <2>4. Added(bg.edit)' = {bg.out}
    BY Zenon, <2>3 DEF Added
  <2>5. logfile_number_ \in Nat /\ logfile_number_ < next_file_number_
        /\ manifest.next <= next_file_number_
    BY Zenon, <1>2 DEF DBInv, DataTypes, LogInv, On
  <2>6. EditInv'
    BY <1>1, <1>2, <1>3, <2>2, <2>3, <2>4, <2>5 DEF EditInv
  <2>7. FlushInv'
    BY Zenon, <1>1, <1>2, <1>3, <2>2, <2>3, <2>4 DEF DBInv, FlushInv
  <2>8. CompactionInv'
    BY Zenon, <1>3, <1>5, <2>3 DEF DBInv, CompactionInv
  <2>9. bg_error_' \in BOOLEAN /\ (~bg_error_' => ~bg_error_)
        /\ {bg.pc, bg'.pc} \cap {"install", "cinstall"} = {}
    BY Zenon, <1>1, <2>2, <2>3 DEF DBInv, DataTypes
  <2> QED  BY <1>1, <1>2, <1>3, <1>4, <2>2, <2>6, <2>7, <2>8, <2>9, TablesGrow
<1> QED  BY Zenon, <1>6, <1>7

LEMMA BackgroundCompactionInv ==
  ASSUME DBInv, BackgroundCompaction  PROVE DBInv'
<1>1. /\ On /\ mode # "down" /\ bg.pc = "idle"
      /\ UNCHANGED <<mode, logs, manifest, current, mem_, imm_, logfile_number_, held, acked,
                     res, writers_, group, pc, tables, next_file_number_, bg_error_>>
  BY Zenon DEF BackgroundCompaction, CanCall, On, wvars, fvars, vvars
<1>2. PICK I \in SUBSET current.l0, J \in SUBSET current.l1 :
        \/ bg' = Bg("move", 0, Edit({}, I, I, current.log), NoCompaction)
        \/ bg' = Bg("merge", 0, NoEdit, Compaction(Files(current), I, J, 0))
  BY Zenon DEF BackgroundCompaction
<1>3. Files(current) \subseteq DOMAIN tables /\ I \subseteq Files(current) /\ J \subseteq Files(current)
      /\ \A f \in Files(current) : f < next_file_number_
  BY Zenon, <1>1 DEF DBInv, FileInv, Files
<1>4. bg'.pc \in {"move", "merge"}
  BY <1>2, BgFields
<1>5. FlushInv'
  BY Zenon, <1>4 DEF FlushInv
<1>6. CompactionInv'
  <2>1. \/ bg'.c.base = {} /\ bg'.c.in0 = {} /\ bg'.c.in1 = {} /\ bg'.c.merged = 0
        \/ bg'.c.base = Files(current) /\ bg'.c.in0 = I /\ bg'.c.in1 = J /\ bg'.c.merged = 0
    <3>1. CASE bg' = Bg("move", 0, Edit({}, I, I, current.log), NoCompaction)
      <4>1. bg'.c = NoCompaction
        BY Zenon, <3>1 DEF Bg
      <4> QED  BY Zenon, <4>1, IdleFields
    <3>2. CASE bg' = Bg("merge", 0, NoEdit, Compaction(Files(current), I, J, 0))
      <4>1. bg'.c = Compaction(Files(current), I, J, 0)
        BY Zenon, <3>2 DEF Bg
      <4>2. bg'.c.base = Files(current) /\ bg'.c.in0 = I /\ bg'.c.in1 = J /\ bg'.c.merged = 0
        BY <4>1, CompactionFields
      <4> QED  BY Zenon, <4>2
    <3> QED  BY Zenon, <1>2, <3>1, <3>2
  <2> QED  BY ZenonT(40), <1>1, <1>3, <2>1 DEF CompactionInv
<1>7. EditInv'
  <2>1. CASE bg' = Bg("move", 0, Edit({}, I, I, current.log), NoCompaction)
    <3>1. /\ bg'.pc = "move" /\ bg'.edit.del = I /\ Added(bg.edit)' = I
          /\ bg'.edit.log = current.log /\ bg'.edit.next = next_file_number_
      BY <2>1, BgFields, EditFields DEF Added
    <3>2. /\ current.log \in Nat /\ next_file_number_ \in Nat /\ current.log < next_file_number_
          /\ manifest.next <= next_file_number_
      BY <1>1 DEF DBInv, DataTypes, LogInv, On
    <3> QED  BY SMTT(30), <1>1, <1>3, <3>1, <3>2 DEF EditInv
  <2>2. CASE bg'.pc = "merge"
    BY ZenonT(40), <2>2 DEF EditInv
  <2> QED  BY <1>2, <2>1, <2>2, BgFields
<1> QED  BY <1>1, <1>4, <1>5, <1>6, <1>7, TablesStay, TablesGrow

LEMMA OpenOutputInv ==
  ASSUME DBInv, OpenOutput  PROVE DBInv'
<1> DEFINE n == next_file_number_
           S == UNION {tables[f] : f \in bg.c.in0 \cup bg.c.in1}
<1>1. /\ bg.pc = "merge" /\ next_file_number_' = n + 1 /\ pending_outputs_' = pending_outputs_ \cup {n}
      /\ bg' = Bg("merge", 0, NoEdit, Compaction(bg.c.base, bg.c.in0, bg.c.in1, n))
      /\ tables' = Put(tables, n, S)
      /\ UNCHANGED <<mode, logs, manifest, current, mem_, imm_, logfile_number_, held, acked,
                     res, writers_, group, pc, bg_error_>>
  BY Zenon DEF OpenOutput, wvars
<1>2. On /\ n \in Nat /\ n \notin DOMAIN tables /\ bg_error_ \in BOOLEAN
  BY <1>1, BackgroundOn DEF DBInv, DataTypes, FileInv
<1>3. S \in SUBSET Writer
  BY Zenon DEF DBInv, CompactionInv, DataTypes
<1>4. \A f \in bg.c.in0 \cup bg.c.in1 : tables[f] \subseteq S
  BY Zenon
<1> HIDE DEF S
<1>5. /\ DOMAIN tables' \subseteq Nat /\ tables' \in [DOMAIN tables' -> SUBSET Writer]
      /\ DOMAIN tables' = DOMAIN tables \cup {n} /\ tables'[n] = S
      /\ \A g \in DOMAIN tables : g \in DOMAIN tables' /\ tables'[g] = tables[g] /\ g # n
  BY ZenonT(40), <1>1, <1>2, <1>3, TableWritten
<1>6. /\ bg'.pc = "merge" /\ bg'.c.base = bg.c.base /\ bg'.c.in0 = bg.c.in0
      /\ bg'.c.in1 = bg.c.in1 /\ bg'.c.merged = n
  BY <1>1, BgFields, CompactionFields
<1>7. EditInv' /\ FlushInv'
  BY ZenonT(40), <1>6 DEF EditInv, FlushInv
<1>8. CompactionInv'
  BY ZenonT(40), <1>1, <1>4, <1>5, <1>6 DEF DBInv, CompactionInv
<1>9. \A f \in DOMAIN tables' : f < next_file_number_'
  BY SMTT(30), <1>1, <1>2, <1>5 DEF DBInv, FileInv
<1> QED  BY <1>1, <1>2, <1>5, <1>6, <1>7, <1>8, <1>9, TablesGrow

LEMMA FinishOutputsInv ==
  ASSUME DBInv, FinishOutputs  PROVE DBInv'
<1>1. /\ bg.pc = "merge" /\ bg.c.merged # 0
      /\ bg' = Bg("capply", 0, Edit({}, {bg.c.merged}, bg.c.in0 \cup bg.c.in1, current.log), bg.c)
      /\ UNCHANGED <<mode, logs, manifest, current, mem_, imm_, logfile_number_, held, acked, res, writers_,
                     group, pc, tables, next_file_number_, pending_outputs_, bg_error_>>
  BY Zenon DEF FinishOutputs, wvars, fvars, vvars
<1>2. On
  BY ZenonT(40), <1>1, BackgroundOn
<1>3. /\ bg'.pc = "capply" /\ bg'.c = bg.c /\ Added(bg.edit)' = {bg.c.merged}
      /\ bg'.edit.del = bg.c.in0 \cup bg.c.in1 /\ bg'.edit.log = current.log
      /\ bg'.edit.next = next_file_number_
  <2> DEFINE e == Edit({}, {bg.c.merged}, bg.c.in0 \cup bg.c.in1, current.log)
  <2>1. bg'.pc = "capply" /\ bg'.c = bg.c /\ bg'.edit = e
    BY Zenon, <1>1 DEF Bg
  <2>2. /\ e.add0 = {} /\ e.add1 = {bg.c.merged} /\ e.del = bg.c.in0 \cup bg.c.in1
        /\ e.log = current.log /\ e.next = next_file_number_
    BY Zenon DEF Edit
  <2> HIDE DEF e
  <2>3. Added(bg.edit)' = e.add0 \cup e.add1
    BY Zenon, <2>1 DEF Added
  <2> QED  BY Zenon, <2>1, <2>2, <2>3
<1>4. /\ current.log \in Nat /\ next_file_number_ \in Nat /\ current.log < next_file_number_
      /\ manifest.next <= next_file_number_
  BY <1>2 DEF DBInv, DataTypes, LogInv, On
<1>5. /\ bg.c.merged \in DOMAIN tables /\ bg.c.in0 \cup bg.c.in1 \subseteq DOMAIN tables
      /\ \A f \in bg.c.in0 \cup bg.c.in1 : tables[f] \subseteq tables[bg.c.merged]
      /\ bg.c.merged < next_file_number_
  BY ZenonT(40), <1>1, <1>2 DEF DBInv, CompactionInv, FileInv
<1>6. EditInv'
  <2>1. UNCHANGED <<tables, manifest, current, next_file_number_>>
    BY Zenon, <1>1
  <2>2. UNION {tables'[g] : g \in Added(bg.edit)'} = tables[bg.c.merged]
    BY Zenon, <1>3, <2>1
  <2>3. \A f \in bg'.edit.del : tables'[f] \subseteq UNION {tables'[g] : g \in Added(bg.edit)'}
    BY Zenon, <1>3, <1>5, <2>1, <2>2
  <2>4. Added(bg.edit)' \subseteq DOMAIN tables' /\ bg'.edit.del \subseteq DOMAIN tables'
        /\ \A f \in Added(bg.edit)' : f < bg'.edit.next
    BY Zenon, <1>3, <1>5, <2>1
  <2> QED  BY <1>3, <1>4, <2>1, <2>3, <2>4 DEF EditInv
<1>7. FlushInv' /\ CompactionInv'
  BY Zenon, <1>1, <1>3 DEF DBInv, FlushInv, CompactionInv
<1> QED  BY <1>1, <1>2, <1>3, <1>6, <1>7, TablesStay, TablesGrow

(* LogAndApply: what a version names after an edit.                        *)
LEMMA ApplyFacts ==
  ASSUME NEW v, NEW e
  PROVE  /\ Files(Apply(v, e)) = (Files(v) \ e.del) \cup Added(e)
         /\ Apply(v, e).log = e.log /\ Apply(v, e).next = e.next
BY Zenon DEF Apply, Files, Added

LEMMA EditKeeps ==
  ASSUME DBInv, bg.pc \in {"apply", "install", "move", "capply", "cinstall"}, NEW v, NEW ms
  PROVE  Batches(v, ms) \subseteq Batches(Apply(v, bg.edit), ms)
<1>1. \A f \in bg.edit.del : tables[f] \subseteq UNION {tables[g] : g \in Added(bg.edit)}
  BY Zenon DEF DBInv, EditInv
<1>2. Files(Apply(v, bg.edit)) = (Files(v) \ bg.edit.del) \cup Added(bg.edit)
  BY Zenon, ApplyFacts
<1> QED  BY Zenon, <1>1, <1>2 DEF Batches

(* The manifest after an edit, written whole or not.                       *)
LEMMA ManifestWritten ==
  ASSUME DBInv, bg.pc \in {"apply", "move", "capply"}, manifest' \in {manifest, Apply(manifest, bg.edit)},
         UNCHANGED <<mode, tables, logs, imm_, mem_, current, acked, logfile_number_, next_file_number_>>
  PROVE  /\ LogInv' /\ SafeInv' /\ manifest'.log \in Nat /\ manifest'.next \in Nat
         /\ Files(manifest') \subseteq DOMAIN tables /\ \A f \in Files(manifest') : f < manifest'.next
<1>1. On
  BY Zenon, BackgroundOn
<1>2. CASE manifest' = manifest
  <2>1. LogInv' /\ manifest'.log \in Nat /\ manifest'.next \in Nat
    BY Zenon, <1>2 DEF DBInv, LogInv, DataTypes, On
  <2>2. SafeInv'
    BY Zenon, <1>2, SafeStays DEF DBInv, On
  <2>3. Files(manifest') \subseteq DOMAIN tables /\ \A f \in Files(manifest') : f < manifest'.next
    BY Zenon, <1>2 DEF DBInv, FileInv
  <2> QED  BY Zenon, <2>1, <2>2, <2>3
<1>3. CASE manifest' = Apply(manifest, bg.edit)
  <2>1. /\ manifest'.log = bg.edit.log /\ manifest'.next = bg.edit.next
        /\ Files(manifest') = (Files(manifest) \ bg.edit.del) \cup Added(bg.edit)
    BY Zenon, <1>3, ApplyFacts
  <2>2. /\ bg.edit.log \in Nat /\ bg.edit.next \in Nat /\ bg.edit.log < bg.edit.next
        /\ manifest.next <= bg.edit.next /\ bg.edit.next <= next_file_number_
        /\ Added(bg.edit) \subseteq DOMAIN tables /\ \A f \in Added(bg.edit) : f < bg.edit.next
    BY Zenon DEF DBInv, EditInv
  <2>3. /\ DOMAIN tables \subseteq Nat /\ {manifest.next, manifest.log, current.log} \subseteq Nat
        /\ {next_file_number_, logfile_number_} \subseteq Nat
    BY Zenon DEF DBInv, DataTypes
  <2>4. Files(manifest') \subseteq DOMAIN tables /\ \A f \in Files(manifest') : f < manifest'.next
    BY <2>1, <2>2, <2>3 DEF DBInv, FileInv
  <2>5. /\ bg.pc = "apply" => bg.edit.log = logfile_number_
        /\ bg.pc # "apply" => bg.edit.log = current.log
    BY Zenon DEF DBInv, FlushInv, EditInv
  <2>6. /\ current.log <= manifest.log /\ manifest.log <= logfile_number_
        /\ current.log <= bg.edit.log /\ bg.edit.log <= logfile_number_
    BY <1>1, <2>3, <2>5 DEF DBInv, LogInv
  <2>7. LogInv'
    BY Zenon, <1>1, <2>1, <2>2, <2>6 DEF DBInv, LogInv, On
  <2>8. \A b : Stored(b) => Stored(b)'
    <3>1. Batches(manifest, {}) \subseteq Batches(manifest', {})
      BY Zenon, <1>3, EditKeeps
    <3>2. Batches(manifest', {}) = Batches(manifest, {})'
      BY Zenon DEF Batches, Files
    <3> QED  BY Zenon, <3>1, <3>2 DEF Stored
  <2>9. \A b, l : Kept(b, l) <=> Kept(b, l)'
    BY Zenon DEF Kept
  <2>10. ASSUME NEW b \in imm_, Replays(b)  PROVE Stored(b)' \/ Replays(b)'
    <3>1. CASE bg.pc = "apply"
      <4>1. bg.out \in Files(manifest') /\ tables[bg.out] = imm_
        BY Zenon, <2>1, <3>1 DEF DBInv, FlushInv
      <4> QED  BY Zenon, <4>1 DEF Stored, Batches, Files
    <3>2. CASE bg.pc # "apply"
      <4>1. PICK l \in DOMAIN logs : l >= manifest.log /\ Kept(b, l)
        BY Zenon, <2>10 DEF Replays
      <4>2. l \in Nat
        BY Zenon DEF DBInv, LogTypes
      <4>3. l >= manifest'.log
        BY <2>1, <2>3, <2>5, <2>6, <3>2, <4>1, <4>2
      <4> QED  BY Zenon, <2>9, <4>1, <4>3 DEF Replays
    <3> QED  BY Zenon, <3>1, <3>2
  <2>11. ASSUME NEW b, Kept(b, logfile_number_)  PROVE Kept(b, logfile_number_)' /\ Replays(b)'
    <3>1. logfile_number_ \in DOMAIN logs /\ logfile_number_ >= manifest'.log
      BY Zenon, <1>1, <2>1, <2>2, <2>3, <2>6 DEF DBInv, LogInv, On
    <3> QED  BY Zenon, <2>9, <2>11, <3>1 DEF Replays
  <2>12. Batches(current, mem_ \cup imm_)' = Batches(current, mem_ \cup imm_)
    BY DEF Batches, Files
  <2>13. SafeInv'
    <3>1. ASSUME NEW b \in acked
          PROVE  \/ Stored(b)'
                 \/ b \in imm_ /\ Replays(b)'
                 \/ b \in mem_ /\ Kept(b, logfile_number_)' /\ Replays(b)'
      BY Zenon, <1>1, <2>8, <2>10, <2>11 DEF DBInv, SafeInv
    <3> QED  BY Zenon, <1>1, <2>12, <3>1 DEF DBInv, SafeInv, On
  <2> QED  BY Zenon, <2>1, <2>2, <2>4, <2>7, <2>13
<1> QED  BY Zenon, <1>2, <1>3

LEMMA WriteManifestInv ==
  ASSUME DBInv, WriteManifest  PROVE DBInv'
<1>1. /\ bg.pc \in {"apply", "move", "capply"} /\ manifest' = Apply(manifest, bg.edit)
      /\ bg' = Bg(IF bg.pc = "apply" THEN "install" ELSE "cinstall", bg.out, bg.edit, bg.c)
      /\ UNCHANGED <<mode, tables, logs, imm_, mem_, current, acked, logfile_number_, next_file_number_>>
      /\ UNCHANGED <<pc, res, writers_, group, held, pending_outputs_, bg_error_>>
  BY Zenon DEF WriteManifest, wvars, vvars
<1>2. On /\ On' /\ mode # "down"
  BY Zenon, <1>1, BackgroundOn DEF On
<1>3. /\ LogInv' /\ SafeInv' /\ manifest'.log \in Nat /\ manifest'.next \in Nat
      /\ Files(manifest') \subseteq DOMAIN tables /\ \A f \in Files(manifest') : f < manifest'.next
  BY Zenon, <1>1, ManifestWritten
<1>4. QueueTypes' /\ HeadInv' /\ GroupInv'
  BY Zenon, <1>1, BackgroundQueue
<1>5. LogTypes' /\ DataTypes' /\ MemoryInv'
  BY ZenonT(40), <1>1, <1>2, <1>3 DEF DBInv, LogTypes, DataTypes, MemoryInv
<1>6. /\ bg'.pc = (IF bg.pc = "apply" THEN "install" ELSE "cinstall") /\ bg'.out = bg.out
      /\ bg'.edit = bg.edit /\ bg'.c = bg.c
  BY <1>1, BgFields
<1>7. /\ manifest'.log = bg.edit.log /\ manifest'.next = bg.edit.next
      /\ Files(manifest') = (Files(manifest) \ bg.edit.del) \cup Added(bg.edit)
      /\ Files(Apply(current, bg.edit)) = (Files(current) \ bg.edit.del) \cup Added(bg.edit)
  BY ZenonT(40), <1>1, ApplyFacts
<1>8. FileInv'
  <2>1. Files(manifest)' = Files(manifest') /\ Files(current)' = Files(current)
    BY Zenon, <1>1 DEF Files
  <2>2. ~bg_error_ => Files(manifest') = Files(Apply(current, bg.edit))
    BY Zenon, <1>1, <1>2, <1>7 DEF DBInv, FileInv
  <2>3. Files(Apply(current, bg.edit))' = Files(Apply(current, bg.edit))
    BY Zenon, <1>1, <1>6 DEF Files, Apply
  <2>4. bg'.pc \in {"install", "cinstall"}
    BY ZenonT(40), <1>6
  <2> QED  BY ZenonT(40), <1>1, <1>2, <1>3, <2>1, <2>2, <2>3, <2>4 DEF DBInv, FileInv
<1>9. EditInv'
  <2>1. Added(bg.edit)' = Added(bg.edit)
    BY Zenon, <1>6 DEF Added
  <2>2. bg.edit.next \in Nat
    BY Zenon, <1>1 DEF DBInv, EditInv
  <2>3. bg.edit.next <= bg.edit.next
    BY <2>2
  <2>4. /\ Added(bg.edit) \subseteq DOMAIN tables /\ bg.edit.del \subseteq DOMAIN tables
        /\ \A f \in bg.edit.del : tables[f] \subseteq UNION {tables[g] : g \in Added(bg.edit)}
        /\ \A f \in Added(bg.edit) : f < bg.edit.next
        /\ bg.edit.log \in Nat /\ bg.edit.log < bg.edit.next /\ bg.edit.next <= next_file_number_
        /\ bg.pc # "apply" => bg.edit.log = current.log
    BY Zenon, <1>1 DEF DBInv, EditInv
  <2>5. bg'.pc \in {"move", "capply", "cinstall"} => bg.pc # "apply"
    BY Zenon, <1>6
  <2> QED  BY ZenonT(40), <1>1, <1>6, <1>7, <2>1, <2>2, <2>3, <2>4, <2>5 DEF EditInv
<1>10. FlushInv' /\ CompactionInv'
  <2>1. Added(bg.edit)' = Added(bg.edit) /\ Files(manifest)' = Files(manifest')
    BY Zenon, <1>6 DEF Added, Files
  <2>2. bg.pc = "apply" => Added(bg.edit) = {bg.out}
    BY Zenon DEF DBInv, FlushInv
  <2> QED  BY Zenon, <1>1, <1>6, <1>7, <2>1, <2>2 DEF DBInv, FlushInv, CompactionInv
<1> QED  BY Zenon, <1>3, <1>4, <1>5, <1>8, <1>9, <1>10 DEF DBInv

LEMMA WriteManifestFailsInv ==
  ASSUME DBInv, WriteManifestFails  PROVE DBInv'
<1>1. /\ bg.pc \in {"apply", "move", "capply"} /\ manifest' \in {manifest, Apply(manifest, bg.edit)}
      /\ UNCHANGED <<logs, tables, logfile_number_, mem_, next_file_number_>>
  BY Zenon DEF WriteManifestFails
<1>2. /\ pc' = SignalAll(pc) /\ bg_error_' /\ bg_error_' \in BOOLEAN
      /\ \/ bg' = Idle
         \/ bg' = Bg("merge", 0, NoEdit, bg.c) /\ pending_outputs_' = pending_outputs_
      /\ UNCHANGED <<mode, imm_, current, held, acked, res, writers_, group>>
  <2>1. CASE bg.pc = "apply"
    BY Zenon, <2>1, FlushFailsEffect DEF WriteManifestFails
  <2>2. CASE bg.pc # "apply"
    BY Zenon, <2>2 DEF WriteManifestFails, EndCall
  <2> QED  BY Zenon, <2>1, <2>2
<1>3. On /\ On' /\ mode # "down"
  BY Zenon, <1>1, <1>2, BackgroundOn DEF On
<1>4. /\ LogInv' /\ SafeInv' /\ manifest'.log \in Nat /\ manifest'.next \in Nat
      /\ Files(manifest') \subseteq DOMAIN tables /\ \A f \in Files(manifest') : f < manifest'.next
  BY Zenon, <1>1, <1>2, ManifestWritten
<1>5. QueueTypes' /\ HeadInv' /\ GroupInv'
  BY Zenon, <1>1, <1>2, BackgroundQueue
<1>6. LogTypes' /\ DataTypes' /\ MemoryInv'
  BY ZenonT(40), <1>1, <1>2, <1>3, <1>4 DEF DBInv, LogTypes, DataTypes, MemoryInv
<1>7. FileInv'
  <2>1. Files(manifest)' = Files(manifest') /\ Files(current)' = Files(current)
    BY Zenon, <1>2 DEF Files
  <2> QED  BY <1>1, <1>2, <1>3, <1>4, <2>1 DEF DBInv, FileInv
<1>8. bg'.pc \in {"idle", "merge"}
  BY <1>2, BgFields, IdleFields
<1>9. EditInv' /\ FlushInv'
  BY Zenon, <1>8 DEF EditInv, FlushInv
<1>10. CompactionInv'
  <2>1. CASE bg' = Idle
    BY Zenon, <2>1, IdleFields DEF CompactionInv
  <2>2. CASE bg'.c = bg.c /\ pending_outputs_' = pending_outputs_
    BY Zenon, <1>1, <2>2 DEF DBInv, CompactionInv
  <2> QED  BY <1>2, <2>1, <2>2, BgFields
<1> QED  BY Zenon, <1>4, <1>5, <1>6, <1>7, <1>9, <1>10 DEF DBInv

(* DeleteObsoleteFiles keeps what the version, the pending outputs, the    *)
(* input of a compaction and the readers name, and the logs from that of   *)
(* the version on.                                                         *)
LEMMA Deleted ==
  ASSUME DBInv, NEW v, NEW pend, NEW base, NEW err \in BOOLEAN, Delete(v, pend, base, err), UNCHANGED held,
         Files(v) \subseteq DOMAIN tables, base \subseteq DOMAIN tables
  PROVE  /\ DOMAIN tables' \subseteq DOMAIN tables /\ \A f \in DOMAIN tables' : tables'[f] = tables[f]
         /\ tables' \in [DOMAIN tables' -> SUBSET Writer]
         /\ err => tables' = tables
         /\ Files(v) \subseteq DOMAIN tables' /\ base \subseteq DOMAIN tables'
         /\ \A f \in pend : f \in DOMAIN tables => f \in DOMAIN tables'
         /\ \A r \in Reader : held[r].files \subseteq DOMAIN tables'
         /\ DOMAIN logs' \subseteq DOMAIN logs /\ \A l \in DOMAIN logs' : logs'[l] = logs[l]
         /\ logs' \in [DOMAIN logs' -> LogFile]
         /\ \A l \in DOMAIN logs : l >= v.log => l \in DOMAIN logs'
<1>1. \A r \in Reader : held[r].files \subseteq DOMAIN tables
  BY Zenon DEF DBInv, FileInv
<1>2. tables \in [DOMAIN tables -> SUBSET Writer] /\ logs \in [DOMAIN logs -> LogFile]
  BY Zenon DEF DBInv, DataTypes, LogTypes
<1>3. CASE err
  BY Zenon, <1>1, <1>2, <1>3 DEF Delete
<1>4. CASE ~err
  <2>1. /\ tables' = [f \in DOMAIN tables \cap LiveTables(v, pend, base) |-> tables[f]]
        /\ logs' = [l \in {n \in DOMAIN logs : n >= v.log} |-> logs[l]]
    BY Zenon, <1>4 DEF Delete
  <2>2. DOMAIN tables' = DOMAIN tables \cap LiveTables(v, pend, base)
        /\ \A f \in DOMAIN tables' : f \in DOMAIN tables /\ tables'[f] = tables[f]
    BY Zenon, <2>1
  <2>3. \A r \in Reader : held[r].files \subseteq LiveTables(v, pend, base)
    BY Zenon DEF LiveTables
  <2>4. Files(v) \cup base \cup pend \subseteq LiveTables(v, pend, base)
    BY Zenon DEF LiveTables
  <2>5. tables' \in [DOMAIN tables' -> SUBSET Writer] /\ logs' \in [DOMAIN logs' -> LogFile]
    BY Zenon, <1>2, <2>1
  <2>6. /\ DOMAIN logs' \subseteq DOMAIN logs /\ \A l \in DOMAIN logs' : logs'[l] = logs[l]
        /\ \A l \in DOMAIN logs : l >= v.log => l \in DOMAIN logs'
    BY Zenon, <2>1
  <2> QED  BY Zenon, <1>1, <1>4, <2>2, <2>3, <2>4, <2>5, <2>6
<1> QED  BY Zenon, <1>3, <1>4

(* The edit reaches the current version, and files are deleted.            *)
LEMMA Installed ==
  ASSUME DBInv, bg.pc \in {"install", "cinstall"}, current' = Apply(current, bg.edit),
         imm_' = (IF bg.pc = "install" THEN {} ELSE imm_), pc' = SignalAll(pc),
         UNCHANGED <<mode, res, writers_, group, manifest, logfile_number_, mem_, next_file_number_,
                     held, acked, bg_error_>>,
         DOMAIN tables' \subseteq DOMAIN tables, \A f \in DOMAIN tables' : tables'[f] = tables[f],
         tables' \in [DOMAIN tables' -> SUBSET Writer],
         bg_error_ => tables' = tables,
         Files(current') \subseteq DOMAIN tables',
         \A r \in Reader : held[r].files \subseteq DOMAIN tables',
         DOMAIN logs' \subseteq DOMAIN logs, \A l \in DOMAIN logs' : logs'[l] = logs[l],
         logs' \in [DOMAIN logs' -> LogFile],
         \A l \in DOMAIN logs : l >= current'.log => l \in DOMAIN logs',
         \/ bg' = Idle
         \/ /\ bg' = Bg("merge", 0, NoEdit, bg.c) /\ bg.c.base \subseteq DOMAIN tables'
            /\ bg.c.merged # 0 => bg.c.merged \in pending_outputs_' /\ bg.c.merged \in DOMAIN tables'
  PROVE  DBInv'
<1>1. On /\ On' /\ mode # "down"
  BY ZenonT(40), BackgroundOn DEF On
<1>2. /\ current'.log = manifest.log /\ Files(current') = (Files(current) \ bg.edit.del) \cup Added(bg.edit)
      /\ manifest.log \in Nat /\ logfile_number_ \in Nat
  BY ApplyFacts DEF DBInv, EditInv, DataTypes
<1>3. logfile_number_ \in DOMAIN logs /\ logfile_number_ >= manifest.log
  BY Zenon, <1>1, <1>2 DEF DBInv, LogInv
<1>4. logfile_number_ \in DOMAIN logs' /\ logs'[logfile_number_] = logs[logfile_number_]
  BY Zenon, <1>2, <1>3
<1>5. QueueTypes' /\ HeadInv' /\ GroupInv'
  BY Zenon, <1>4, BackgroundQueue
<1>6. LogTypes' /\ DataTypes' /\ MemoryInv'
  BY ZenonT(40), <1>1, <1>2 DEF DBInv, LogTypes, DataTypes, MemoryInv
<1>7. LogInv'
  BY SMTT(30), <1>1, <1>2, <1>3, <1>4 DEF DBInv, LogInv, On
<1>8. bg'.pc \in {"idle", "merge"}
  BY BgFields, IdleFields
<1>9. EditInv' /\ FlushInv'
  BY Zenon, <1>8 DEF EditInv, FlushInv
<1>10. Files(manifest) \subseteq DOMAIN tables' /\ (~bg_error_ => Files(manifest) = Files(current'))
  BY Zenon, <1>1 DEF DBInv, FileInv, DataTypes
<1>11. FileInv'
  <2>1. Files(manifest)' = Files(manifest) /\ Files(current)' = Files(current')
    BY Zenon DEF Files
  <2>2. \A f \in Files(current') : f \in DOMAIN tables /\ f < next_file_number_
    BY ZenonT(40), <1>1 DEF DBInv, FileInv
  <2>3. ASSUME NEW r \in Reader
        PROVE  held[r].snap \subseteq held[r].mems \cup UNION {tables'[f] : f \in held[r].files}
    BY DEF DBInv, FileInv
  <2> QED  BY Zenon, <1>1, <1>8, <1>10, <2>1, <2>2, <2>3 DEF DBInv, FileInv
<1>12. CompactionInv'
  <2>1. CASE bg' = Idle
    BY Zenon, <2>1, IdleFields DEF CompactionInv
  <2>2. CASE bg'.c = bg.c /\ bg.c.base \subseteq DOMAIN tables'
             /\ (bg.c.merged # 0 => bg.c.merged \in pending_outputs_' /\ bg.c.merged \in DOMAIN tables')
    BY Zenon, <2>2 DEF DBInv, CompactionInv
  <2> QED  BY <2>1, <2>2, BgFields
<1>13. \A b : (Stored(b) => Stored(b)') /\ (Replays(b) => Replays(b)')
              /\ (Kept(b, logfile_number_) => Kept(b, logfile_number_)')
  <2>1. \A b : Stored(b) => Stored(b)'
    BY <1>10 DEF Stored, Batches, Files
  <2>2. \A l \in DOMAIN logs : l >= manifest.log => l \in DOMAIN logs' /\ \A b : Kept(b, l) => Kept(b, l)'
    BY Zenon, <1>2, LogStays
  <2>3. \A b : Replays(b) => Replays(b)'
    BY Zenon, <2>2 DEF Replays
  <2> QED  BY ZenonT(40), <1>3, <2>1, <2>2, <2>3
<1>14. bg.pc = "install" => bg.out \in Files(manifest) /\ bg.out \in Files(current') /\ tables[bg.out] = imm_
  BY Zenon, <1>2 DEF DBInv, FlushInv
<1>15. Batches(current, mem_ \cup imm_) \subseteq Batches(current, mem_ \cup imm_)'
  <2>1. Batches(current, mem_ \cup imm_) \subseteq Batches(current', mem_ \cup imm_)
    BY Zenon, EditKeeps
  <2>2. Batches(current', mem_ \cup imm_) = mem_ \cup imm_ \cup UNION {tables'[f] : f \in Files(current')}
    BY DEF Batches
  <2>3. imm_ \subseteq imm_' \cup UNION {tables'[f] : f \in Files(current')}
    BY <1>14
  <2>4. Batches(current, mem_ \cup imm_)' = mem_ \cup imm_' \cup UNION {tables'[f] : f \in Files(current')}
    BY Zenon DEF Batches, Files
  <2> QED  BY Zenon, <2>1, <2>2, <2>3, <2>4
<1>16. \A b \in imm_ : bg.pc = "install" => Stored(b)
  BY <1>14 DEF Stored, Batches
<1>17. SafeInv'
  BY Zenon, <1>1, <1>13, <1>15, <1>16 DEF DBInv, SafeInv, On
<1> QED  BY Zenon, <1>5, <1>6, <1>7, <1>9, <1>11, <1>12, <1>17 DEF DBInv

LEMMA InstallInv ==
  ASSUME DBInv, Install  PROVE DBInv'
<1> DEFINE v == Apply(current, bg.edit)
<1>1. /\ bg.pc = "install" /\ current' = v /\ imm_' = {} /\ pc' = SignalAll(pc)
      /\ Delete(v, pending_outputs_, bg.c.base, bg_error_)
      /\ bg' = Idle \/ bg' = Bg("merge", 0, NoEdit, bg.c)
      /\ UNCHANGED <<mode, res, writers_, group, manifest, logfile_number_, mem_, next_file_number_,
                     held, acked, bg_error_, pending_outputs_>>
  BY Zenon DEF Install, EndCall
<1>2. Files(v) \subseteq DOMAIN tables
  <2>1. Files(v) = (Files(current) \ bg.edit.del) \cup Added(bg.edit)
    BY Zenon, ApplyFacts
  <2>2. Files(current) \subseteq DOMAIN tables
    BY Zenon, <1>1, BackgroundOn DEF DBInv, FileInv, On
  <2>3. Added(bg.edit) \subseteq DOMAIN tables
    BY Zenon, <1>1 DEF DBInv, EditInv
  <2> QED  BY Zenon, <2>1, <2>2, <2>3
<1>3. bg_error_ \in BOOLEAN /\ bg.c.base \subseteq DOMAIN tables
      /\ (bg.c.merged # 0 => bg.c.merged \in pending_outputs_ /\ bg.c.merged \in DOMAIN tables)
  BY Zenon DEF DBInv, DataTypes, CompactionInv
<1> HIDE DEF v
<1>4. /\ DOMAIN tables' \subseteq DOMAIN tables /\ \A f \in DOMAIN tables' : tables'[f] = tables[f]
      /\ tables' \in [DOMAIN tables' -> SUBSET Writer]
      /\ bg_error_ => tables' = tables
      /\ Files(v) \subseteq DOMAIN tables' /\ bg.c.base \subseteq DOMAIN tables'
      /\ \A f \in pending_outputs_ : f \in DOMAIN tables => f \in DOMAIN tables'
      /\ \A r \in Reader : held[r].files \subseteq DOMAIN tables'
      /\ DOMAIN logs' \subseteq DOMAIN logs /\ \A l \in DOMAIN logs' : logs'[l] = logs[l]
      /\ logs' \in [DOMAIN logs' -> LogFile]
      /\ \A l \in DOMAIN logs : l >= v.log => l \in DOMAIN logs'
  BY <1>1, <1>2, <1>3, Deleted
<1> QED  BY Zenon, <1>1, <1>3, <1>4, Installed DEF v

LEMMA InstallCompactionResultsInv ==
  ASSUME DBInv, InstallCompactionResults  PROVE DBInv'
<1> DEFINE v == Apply(current, bg.edit)
<1>1. /\ bg.pc = "cinstall" /\ current' = v /\ imm_' = imm_ /\ pc' = SignalAll(pc) /\ bg' = Idle
      /\ UNCHANGED <<tables, logs>> \/ Delete(v, pending_outputs_', {}, bg_error_)
      /\ UNCHANGED <<mode, res, writers_, group, manifest, logfile_number_, mem_, next_file_number_,
                     held, acked, bg_error_>>
  BY Zenon DEF InstallCompactionResults, EndCall
<1>2. Files(v) \subseteq DOMAIN tables
  <2>1. Files(v) = (Files(current) \ bg.edit.del) \cup Added(bg.edit)
    BY Zenon, ApplyFacts
  <2>2. Files(current) \subseteq DOMAIN tables
    BY Zenon, <1>1, BackgroundOn DEF DBInv, FileInv, On
  <2>3. Added(bg.edit) \subseteq DOMAIN tables
    BY Zenon, <1>1 DEF DBInv, EditInv
  <2> QED  BY Zenon, <2>1, <2>2, <2>3
<1>3. bg_error_ \in BOOLEAN
  BY Zenon DEF DBInv, DataTypes
<1> HIDE DEF v
<1>4. /\ DOMAIN tables' \subseteq DOMAIN tables /\ \A f \in DOMAIN tables' : tables'[f] = tables[f]
      /\ tables' \in [DOMAIN tables' -> SUBSET Writer]
      /\ bg_error_ => tables' = tables
      /\ Files(v) \subseteq DOMAIN tables'
      /\ \A r \in Reader : held[r].files \subseteq DOMAIN tables'
      /\ DOMAIN logs' \subseteq DOMAIN logs /\ \A l \in DOMAIN logs' : logs'[l] = logs[l]
      /\ logs' \in [DOMAIN logs' -> LogFile]
      /\ \A l \in DOMAIN logs : l >= v.log => l \in DOMAIN logs'
  <2>1. CASE UNCHANGED <<tables, logs>>
    BY Zenon, <1>2, <2>1 DEF DBInv, DataTypes, LogTypes, FileInv
  <2>2. CASE Delete(v, pending_outputs_', {}, bg_error_)
    BY <1>1, <1>2, <1>3, <2>2, Deleted
  <2> QED  BY Zenon, <1>1, <2>1, <2>2
<1> QED  BY Zenon, <1>1, <1>4, Installed DEF v

-----------------------------------------------------------------------------
(* Readers.                                                                *)
LEMMA ReaderInv ==
  ASSUME DBInv, On, held' \in [Reader -> [files : SUBSET Nat, mems : SUBSET Writer, snap : SUBSET Writer]],
         \A r \in Reader :
           /\ held'[r].files \subseteq DOMAIN tables
           /\ held'[r].snap \subseteq held'[r].mems \cup UNION {tables[f] : f \in held'[r].files},
         UNCHANGED <<mode, wvars, fvars, vvars, bvars, acked>>
  PROVE  DBInv'
<1>1. UNCHANGED <<mode, pc, res, writers_, group, logs, tables, manifest, logfile_number_, mem_, imm_,
                  current, next_file_number_, pending_outputs_, bg, bg_error_, acked>>
  BY Zenon DEF wvars, fvars, vvars, bvars
<1>2. QueueTypes' /\ HeadInv' /\ GroupInv'
  BY Zenon, <1>1, BackgroundQueue
<1>3. LogTypes' /\ DataTypes' /\ MemoryInv' /\ LogInv'
  BY ZenonT(40), <1>1 DEF DBInv, LogTypes, DataTypes, MemoryInv, LogInv, On
<1>4. FileInv'
  <2>1. /\ Files(manifest)' = Files(manifest) /\ Files(current)' = Files(current)
        /\ Files(Apply(current, bg.edit))' = Files(Apply(current, bg.edit)) /\ On' = On
    BY ZenonT(40), <1>1 DEF Files, Apply, On
  <2> QED  BY ZenonT(40), <1>1, <2>1 DEF DBInv, FileInv
<1>5. EditInv' /\ FlushInv' /\ CompactionInv'
  <2>1. Files(manifest)' = Files(manifest) /\ Files(current)' = Files(current) /\ Added(bg.edit)' = Added(bg.edit)
    BY Zenon, <1>1 DEF Files, Added
  <2>2. EditInv'
    BY Zenon, <1>1, EditStays DEF DBInv
  <2>3. FlushInv'
    BY ZenonT(40), <1>1, <2>1 DEF DBInv, FlushInv
  <2>4. CompactionInv'
    BY ZenonT(40), <1>1, <2>1 DEF DBInv, CompactionInv
  <2> QED  BY Zenon, <2>2, <2>3, <2>4
<1>6. SafeInv'
  BY Zenon, <1>1, SafeStays DEF DBInv, On
<1> QED  BY Zenon, <1>2, <1>3, <1>4, <1>5, <1>6 DEF DBInv

LEMMA NoHeldFacts ==
  /\ NoHeld \in [files : SUBSET Nat, mems : SUBSET Writer, snap : SUBSET Writer]
  /\ NoHeld.files = {} /\ NoHeld.mems = {} /\ NoHeld.snap = {}
BY Zenon DEF NoHeld

LEMMA BeginReadInv ==
  ASSUME DBInv, NEW r \in Reader, BeginRead(r)  PROVE DBInv'
<1> DEFINE S == {b \in Batches(current, mem_ \cup imm_) : seq[b] <= last_sequence_}
           h == [files |-> Files(current), mems |-> mem_ \cup imm_, snap |-> S]
<1>1. On /\ mode # "down" /\ held' = [held EXCEPT ![r] = h] /\ UNCHANGED <<mode, wvars, fvars, vvars, bvars, acked>>
  BY Zenon DEF BeginRead, On
<1>2. held \in [Reader -> [files : SUBSET Nat, mems : SUBSET Writer, snap : SUBSET Writer]]
  BY Zenon DEF DBInv, DataTypes
<1>3. Files(current) \subseteq DOMAIN tables /\ DOMAIN tables \subseteq Nat /\ mem_ \cup imm_ \subseteq Writer
      /\ tables \in [DOMAIN tables -> SUBSET Writer]
  BY Zenon, <1>1 DEF DBInv, FileInv, DataTypes
<1>4. S \subseteq (mem_ \cup imm_) \cup UNION {tables[f] : f \in Files(current)} /\ S \subseteq Writer
  BY Zenon, <1>3 DEF Batches
<1> HIDE DEF S
<1>5. h \in [files : SUBSET Nat, mems : SUBSET Writer, snap : SUBSET Writer]
      /\ h.files = Files(current) /\ h.mems = mem_ \cup imm_ /\ h.snap = S
  BY Zenon, <1>3, <1>4
<1> HIDE DEF h
<1>6. held' \in [Reader -> [files : SUBSET Nat, mems : SUBSET Writer, snap : SUBSET Writer]]
      /\ held'[r] = h /\ \A x \in Reader : x # r => held'[x] = held[x]
  BY Zenon, <1>1, <1>2, <1>5
<1>7. ASSUME NEW x \in Reader
      PROVE  /\ held'[x].files \subseteq DOMAIN tables
             /\ held'[x].snap \subseteq held'[x].mems \cup UNION {tables[f] : f \in held'[x].files}
  <2>1. CASE x = r
    BY Zenon, <1>3, <1>4, <1>5, <1>6, <2>1
  <2>2. CASE x # r
    BY Zenon, <1>6, <2>2 DEF DBInv, FileInv
  <2> QED  BY Zenon, <2>1, <2>2
<1> QED  BY Zenon, <1>1, <1>6, <1>7, ReaderInv

LEMMA EndReadInv ==
  ASSUME DBInv, NEW r \in Reader, EndRead(r)  PROVE DBInv'
<1>1. held' = [held EXCEPT ![r] = NoHeld] /\ UNCHANGED <<mode, wvars, fvars, vvars, bvars, acked>>
  BY Zenon DEF EndRead
<1>2. held \in [Reader -> [files : SUBSET Nat, mems : SUBSET Writer, snap : SUBSET Writer]]
  BY Zenon DEF DBInv, DataTypes
<1>3. On
  BY Zenon DEF EndRead, DBInv, MemoryInv
<1>4. held' \in [Reader -> [files : SUBSET Nat, mems : SUBSET Writer, snap : SUBSET Writer]]
      /\ held'[r] = NoHeld /\ \A x \in Reader : x # r => held'[x] = held[x]
  BY Zenon, <1>1, <1>2, NoHeldFacts
<1>5. ASSUME NEW x \in Reader
      PROVE  /\ held'[x].files \subseteq DOMAIN tables
             /\ held'[x].snap \subseteq held'[x].mems \cup UNION {tables[f] : f \in held'[x].files}
  <2>1. CASE x = r
    BY Zenon, <1>4, <2>1, NoHeldFacts
  <2>2. CASE x # r
    BY Zenon, <1>4, <2>2 DEF DBInv, FileInv
  <2> QED  BY Zenon, <2>1, <2>2
<1> QED  BY Zenon, <1>1, <1>3, <1>4, <1>5, ReaderInv

-----------------------------------------------------------------------------
(* Closing, crashes and recovery.                                          *)
LEMMA CloseInv ==
  ASSUME DBInv, Close  PROVE DBInv'
<1>1. /\ mode = "run" /\ mode' = "closing"
      /\ UNCHANGED <<pc, res, writers_, group, logs, tables, manifest, logfile_number_, mem_, imm_,
                     current, next_file_number_, pending_outputs_, held, bg, bg_error_, acked>>
  BY Zenon DEF Close, wvars, fvars, vvars, bvars
<1>2. On /\ On'
  BY Zenon, <1>1 DEF On
<1>3. QueueTypes' /\ HeadInv' /\ GroupInv'
  BY Zenon, <1>1, BackgroundQueue
<1>4. LogTypes' /\ DataTypes' /\ MemoryInv' /\ LogInv'
  BY ZenonT(40), <1>1, <1>2 DEF DBInv, LogTypes, DataTypes, MemoryInv, LogInv
<1>5. FileInv'
  <2>1. /\ Files(manifest)' = Files(manifest) /\ Files(current)' = Files(current)
        /\ Files(Apply(current, bg.edit))' = Files(Apply(current, bg.edit))
    BY ZenonT(40), <1>1 DEF Files, Apply
  <2> QED  BY ZenonT(40), <1>1, <1>2, <2>1 DEF DBInv, FileInv
<1>6. EditInv' /\ FlushInv' /\ CompactionInv'
  BY <1>1 DEF DBInv, EditInv, FlushInv, CompactionInv, Files, Added
<1>7. SafeInv'
  BY Zenon, <1>1, <1>2, SafeStays DEF DBInv, On
<1> QED  BY Zenon, <1>3, <1>4, <1>5, <1>6, <1>7 DEF DBInv

(* What is lost with the memory of the process.                            *)
LEMMA LostInv ==
  ASSUME DBInv, Lost, LogTypes', DOMAIN logs' = DOMAIN logs, acked' \subseteq acked,
         \A b \in acked', l \in DOMAIN logs : Kept(b, l) => Kept(b, l)'
  PROVE  DBInv'
<1>1. /\ mode' = "down" /\ pc' = [w \in Writer |-> IF pc[w] = "idle" THEN "idle" ELSE "done"]
      /\ writers_' = <<>> /\ group' = {} /\ mem_' = {} /\ imm_' = {} /\ pending_outputs_' = {}
      /\ held' = [r \in Reader |-> NoHeld] /\ bg' = Idle /\ bg_error_' = FALSE
      /\ UNCHANGED <<res, tables, manifest, logfile_number_, current, next_file_number_>>
  BY Zenon DEF Lost
<1>2. ~On'
  BY Zenon, <1>1 DEF On
<1>3. QueueTypes'
  <2>1. writers_' \in Seq(Writer)
    BY Zenon, <1>1, EmptySeq
  <2> QED  BY ZenonT(40), <1>1, <2>1, FS_EmptySet DEF QueueTypes
<1>4. HeadInv' /\ GroupInv'
  BY Zenon, <1>1 DEF HeadInv, GroupInv, AtHead
<1>5. DataTypes' /\ MemoryInv'
  BY Zenon, <1>1, <1>2, NoHeldFacts DEF DBInv, DataTypes, MemoryInv
<1>6. LogInv'
  BY Zenon, <1>1, <1>2 DEF DBInv, LogInv
<1>7. FileInv'
  BY Zenon, <1>1, <1>2, NoHeldFacts DEF DBInv, FileInv, Files
<1>8. bg'.pc = "idle" /\ EditInv' /\ FlushInv' /\ CompactionInv'
  BY Zenon, <1>1, IdleFields DEF EditInv, FlushInv, CompactionInv
<1>9. SafeInv'
  <2>1. \A b : Stored(b) => Stored(b)'
    BY Zenon, <1>1 DEF Stored, Batches, Files
  <2>2. \A b \in acked' : Replays(b) => Replays(b)'
    BY Zenon, <1>1 DEF Replays
  <2> QED  BY Zenon, <1>1, <1>2, <2>1, <2>2 DEF DBInv, SafeInv
<1> QED  BY Zenon, <1>3, <1>4, <1>5, <1>6, <1>7, <1>8, <1>9 DEF DBInv

LEMMA ClosedInv ==
  ASSUME DBInv, Closed \/ ProcessCrash  PROVE DBInv'
<1>1. Lost /\ UNCHANGED <<logs, acked>>
  BY Zenon DEF Closed, ProcessCrash
<1>2. LogTypes' /\ \A b, l : Kept(b, l) => Kept(b, l)'
  BY Zenon, <1>1 DEF DBInv, LogTypes, Kept
<1> QED  BY Zenon, <1>1, <1>2, LostInv

LEMMA MachineCrashInv ==
  ASSUME DBInv, MachineCrash  PROVE DBInv'
<1>1. PICK cut \in [DOMAIN logs -> 0..Cardinality(Writer)] :
        /\ \A l \in DOMAIN logs : cut[l] \in logs[l].synced..Len(logs[l].recs)
        /\ logs' = [l \in DOMAIN logs |-> [recs |-> SubSeq(logs[l].recs, 1, cut[l]), synced |-> cut[l],
                                           torn |-> logs[l].torn]]
  BY Zenon DEF MachineCrash
<1>2. Lost /\ acked' = acked \cap SyncWriter
  BY Zenon DEF MachineCrash
<1>3. ASSUME NEW l \in DOMAIN logs
      PROVE  /\ logs'[l] \in LogFile /\ logs'[l].synced = cut[l] /\ Len(logs'[l].recs) = cut[l]
             /\ logs'[l].torn = logs[l].torn
             /\ \A i \in 1..cut[l] : logs'[l].recs[i] = logs[l].recs[i]
             /\ cut[l] \in Nat /\ logs[l].synced \in Nat /\ logs[l].synced <= cut[l]
  <2> DEFINE r == logs[l].recs  n == cut[l]
  <2>1. r \in Seq(SUBSET Writer) /\ logs[l].synced \in Nat /\ logs[l].torn \subseteq Nat
    BY Zenon DEF DBInv, LogTypes, LogFile
  <2>2. Len(r) \in Nat /\ n \in logs[l].synced..Len(r)
    BY Zenon, <1>1, <2>1, LenProperties
  <2>3. n \in Nat /\ n <= Len(r) /\ logs[l].synced <= n
    BY <2>1, <2>2
  <2>4. logs'[l] = [recs |-> SubSeq(r, 1, n), synced |-> n, torn |-> logs[l].torn]
    BY Zenon, <1>1
  <2> HIDE DEF n, r
  <2>5. \A i \in 1..n : r[i] \in SUBSET Writer
    BY <2>1, <2>3, ElementOfSeq
  <2>6. SubSeq(r, 1, n) \in Seq(SUBSET Writer) /\ Len(SubSeq(r, 1, n)) = n
        /\ \A i \in 1..n : SubSeq(r, 1, n)[i] = r[i]
    <3>1. n \in 1 - 1 .. Len(r) /\ n - 1 + 1 = n /\ \A i \in 1..n : 1 + i - 1 = i
      BY <2>2, <2>3
    <3> QED  BY <2>1, <2>2, <2>3, <2>5, <3>1, SubSeqProperties
  <2> QED  BY <2>1, <2>3, <2>4, <2>6 DEF LogFile, n, r
<1>4. DOMAIN logs' = DOMAIN logs
  BY Zenon, <1>1
<1>5. LogTypes'
  <2>1. logs' \in [DOMAIN logs -> LogFile]
    <3>1. logs' = [l \in DOMAIN logs |-> logs'[l]]
      BY Zenon, <1>1
    <3> QED  BY Zenon, <1>3, <3>1
  <2>2. \A l \in DOMAIN logs : logs'[l].synced <= Len(logs'[l].recs)
    BY <1>3
  <2> QED  BY Zenon, <1>4, <2>1, <2>2 DEF DBInv, LogTypes
<1>6. ASSUME NEW b \in acked', NEW l \in DOMAIN logs, Kept(b, l)  PROVE Kept(b, l)'
  <2>1. PICK i \in 1..Len(logs[l].recs) :
          b \in logs[l].recs[i] /\ i <= logs[l].synced /\ \A t \in logs[l].torn : i <= t
    BY Zenon, <1>2, <1>6 DEF Kept
  <2>2. i \in 1..cut[l]
    BY <1>3, <2>1
  <2> QED  BY <1>3, <2>1, <2>2 DEF Kept
<1> QED  BY Zenon, <1>2, <1>4, <1>5, <1>6, LostInv

(* The numbers that the tables of the logs get, after those of the         *)
(* manifest: each log that is read makes the next one larger.              *)
LEMMA NextNumberFacts ==
  ASSUME DBInv, NEW D, D \subseteq DOMAIN logs, NEW F, F \subseteq DOMAIN logs
  PROVE  /\ NextNumber(D, F) \in Nat /\ NextNumber(D, F) > manifest.next
         /\ \A j \in D : NextNumber(D, F) > j
         /\ IsFiniteSet(F) /\ Cardinality(F) \in Nat /\ NextNumber(D, F) >= manifest.next + 1 + Cardinality(F)
         /\ \A j \in D : NextNumber(D, F) >= j + 1 + Cardinality({k \in F : k > j})
         /\ \/ NextNumber(D, F) = manifest.next + 1 + Cardinality(F)
            \/ \E j \in D : NextNumber(D, F) = j + 1 + Cardinality({k \in F : k > j})
<1> DEFINE c(j) == Cardinality({k \in F : k > j})
           S == {manifest.next + 1 + Cardinality(F)} \cup {j + 1 + c(j) : j \in D}
           n == manifest.next + 1 + next_file_number_ + Cardinality(F)
<1>1. next_file_number_ \in Nat /\ manifest.next \in Nat
      /\ \A l \in DOMAIN logs : l \in Nat /\ l < next_file_number_
  BY Zenon DEF DBInv, DataTypes, LogTypes, LogInv
<1>2. IsFiniteSet(F)
  <2>1. F \subseteq 0..next_file_number_
    BY <1>1
  <2>2. IsFiniteSet(0..next_file_number_)
    BY <1>1, FS_Interval
  <2> QED  BY Zenon, <2>1, <2>2, FS_Subset
<1>3. Cardinality(F) \in Nat
  BY Zenon, <1>2, FS_CardinalityType
<1>4. ASSUME NEW j  PROVE c(j) \in Nat /\ c(j) <= Cardinality(F)
  <2>1. {k \in F : k > j} \subseteq F
    BY Zenon
  <2>2. IsFiniteSet({k \in F : k > j}) /\ c(j) <= Cardinality(F)
    BY Zenon, <1>2, <2>1, FS_Subset
  <2> QED  BY Zenon, <2>2, FS_CardinalityType
<1> HIDE DEF c
<1>5. S \subseteq Nat /\ S # {} /\ n \in Nat /\ \A x \in S : x <= n
  BY <1>1, <1>3, <1>4
<1>6. NextNumber(D, F) = Max(S)
  BY Zenon DEF NextNumber, c
<1> HIDE DEF n
<1>7. NextNumber(D, F) \in S /\ \A x \in S : NextNumber(D, F) >= x
  <2> HIDE DEF S
  <2> QED  BY Zenon, <1>5, <1>6, NatMax
<1>8. NextNumber(D, F) \in Nat /\ manifest.next + 1 + Cardinality(F) \in S /\ \A j \in D : j + 1 + c(j) \in S
  BY Zenon, <1>5, <1>7
<1>9. NextNumber(D, F) >= manifest.next + 1 + Cardinality(F) /\ \A j \in D : NextNumber(D, F) >= j + 1 + c(j)
  BY Zenon, <1>7, <1>8
<1>10. NextNumber(D, F) = manifest.next + 1 + Cardinality(F) \/ \E j \in D : NextNumber(D, F) = j + 1 + c(j)
  BY Zenon, <1>7
<1>11. NextNumber(D, F) > manifest.next /\ \A j \in D : NextNumber(D, F) > j
  BY <1>1, <1>3, <1>4, <1>8, <1>9
<1> QED  BY Zenon, <1>2, <1>3, <1>8, <1>9, <1>10, <1>11 DEF c

LEMMA NextNumberGrows ==
  ASSUME DBInv, NEW E, E \subseteq DOMAIN logs, NEW D, D \subseteq E,
         NEW G, G \subseteq DOMAIN logs, NEW F, F \subseteq G, NEW x \in G, x \notin F, \A j \in D : j < x
  PROVE  NextNumber(D, F) < NextNumber(E, G)
<1>1. /\ NextNumber(D, F) \in Nat /\ IsFiniteSet(F) /\ Cardinality(F) \in Nat
      /\ \/ NextNumber(D, F) = manifest.next + 1 + Cardinality(F)
         \/ \E j \in D : NextNumber(D, F) = j + 1 + Cardinality({k \in F : k > j})
  BY Zenon, NextNumberFacts
<1>2. /\ NextNumber(E, G) \in Nat /\ IsFiniteSet(G) /\ Cardinality(G) \in Nat
      /\ NextNumber(E, G) >= manifest.next + 1 + Cardinality(G)
      /\ \A j \in E : NextNumber(E, G) >= j + 1 + Cardinality({k \in G : k > j})
  BY Zenon, NextNumberFacts
<1>3. ASSUME NEW T, T \subseteq G, NEW S, S \subseteq T, S # T
      PROVE  Cardinality(S) \in Nat /\ Cardinality(T) \in Nat /\ Cardinality(S) < Cardinality(T)
  <2>1. IsFiniteSet(T)
    BY Zenon, <1>2, <1>3, FS_Subset
  <2>2. IsFiniteSet(S) /\ Cardinality(S) <= Cardinality(T) /\ (Cardinality(S) = Cardinality(T) => S = T)
    BY Zenon, <1>3, <2>1, FS_Subset
  <2>3. Cardinality(S) \in Nat /\ Cardinality(T) \in Nat
    BY Zenon, <2>1, <2>2, FS_CardinalityType
  <2> QED  BY <1>3, <2>2, <2>3
<1>4. manifest.next \in Nat /\ \A l \in DOMAIN logs : l \in Nat
  BY Zenon DEF DBInv, DataTypes, LogTypes
<1>5. CASE NextNumber(D, F) = manifest.next + 1 + Cardinality(F)
  <2>1. Cardinality(F) < Cardinality(G)
    BY Zenon, <1>3
  <2> QED  BY <1>1, <1>2, <1>4, <1>5, <2>1
<1>6. ASSUME NEW j \in D, NextNumber(D, F) = j + 1 + Cardinality({k \in F : k > j})
      PROVE  NextNumber(D, F) < NextNumber(E, G)
  <2>1. x > j /\ j \in E /\ j \in Nat
    BY Zenon, <1>4
  <2>2. {k \in F : k > j} \subseteq {k \in G : k > j} /\ x \in {k \in G : k > j} /\ x \notin {k \in F : k > j}
        /\ {k \in G : k > j} \subseteq G
    BY Zenon, <2>1
  <2>3. /\ Cardinality({k \in F : k > j}) \in Nat /\ Cardinality({k \in G : k > j}) \in Nat
        /\ Cardinality({k \in F : k > j}) < Cardinality({k \in G : k > j})
    BY Zenon, <1>3, <2>2
  <2>4. NextNumber(E, G) >= j + 1 + Cardinality({k \in G : k > j})
    BY Zenon, <1>2, <2>1
  <2> QED  BY <1>2, <1>6, <2>1, <2>3, <2>4
<1> QED  BY Zenon, <1>1, <1>5, <1>6

LEMMA RecoverInv ==
  ASSUME DBInv, NEW lost \in SUBSET Unsure, RecoverWith(lost)  PROVE DBInv'
<1> DEFINE read == {l \in DOMAIN logs : l >= manifest.log}
           found == {l \in Replayed : LogBatches(l, lost) # {}}
           num(l) == NextNumber({k \in read : k < l}, {k \in found : k < l})
           new  == {num(l) : l \in found}
           next == NextNumber(read, found)
<1>1. /\ mode = "down" /\ mode' = "recover" /\ logfile_number_' = next /\ next_file_number_' = next + 1
      /\ tables' = [f \in DOMAIN tables \cup new |->
                      IF f \in new THEN LogBatches(CHOOSE l \in found : num(l) = f, lost) ELSE tables[f]]
      /\ logs' = Put(logs, next, NewLog)
      /\ current' = [l0 |-> manifest.l0 \cup new, l1 |-> manifest.l1, log |-> next, next |-> next + 1,
                     last |-> LastSequence(lost)]
      /\ UNCHANGED <<pc, res, writers_, group, manifest, mem_, imm_, pending_outputs_, held, bg, bg_error_, acked>>
  BY Zenon DEF RecoverWith, bvars
<1>2. found \subseteq DOMAIN logs /\ read \subseteq DOMAIN logs
  BY Zenon DEF Replayed
<1> HIDE DEF found
<1>3. /\ manifest.next \in Nat /\ manifest.log \in Nat /\ manifest.log < manifest.next
      /\ next_file_number_ \in Nat /\ \A l \in DOMAIN logs : l \in Nat /\ l < next_file_number_
  BY Zenon DEF DBInv, DataTypes, LogTypes, LogInv
<1>4. ASSUME NEW l \in found
      PROVE  /\ num(l) \in Nat /\ num(l) > manifest.next /\ num(l) < next
             /\ \A m \in found : l < m => num(l) < num(m)
  <2> DEFINE D(x) == {k \in read : k < x}
             F(x) == {k \in found : k < x}
  <2>1. \A x : D(x) \subseteq read /\ D(x) \subseteq DOMAIN logs /\ F(x) \subseteq found /\ F(x) \subseteq DOMAIN logs
    BY Zenon, <1>2
  <2>2. l \in Nat /\ l \in DOMAIN logs /\ l \notin F(l) /\ \A j \in D(l) : j < l
    BY <1>2, <1>3
  <2>3. ASSUME NEW m \in found, l < m  PROVE D(l) \subseteq D(m) /\ F(l) \subseteq F(m) /\ l \in F(m)
    BY <1>2, <1>3, <2>3
  <2>4. \A x : num(x) = NextNumber(D(x), F(x))
    BY Zenon
  <2> HIDE DEF D, F, num, read, next
  <2>5. num(l) \in Nat /\ num(l) > manifest.next
    BY Zenon, <2>1, <2>4, NextNumberFacts
  <2>6. num(l) < next
    BY Zenon, <1>2, <2>1, <2>2, <2>4, NextNumberGrows DEF next
  <2>7. ASSUME NEW m \in found, l < m  PROVE num(l) < num(m)
    BY Zenon, <2>1, <2>2, <2>3, <2>4, <2>7, NextNumberGrows
  <2> QED  BY Zenon, <2>5, <2>6, <2>7
<1>5. \A l, m \in found : num(l) = num(m) => l = m
  <2>1. \A l \in found : l \in Nat
    BY Zenon, <1>2, <1>3
  <2> HIDE DEF num, next
  <2>2. \A l, m \in found : l < m => num(l) < num(m)
    BY Zenon, <1>4
  <2>3. \A l \in found : num(l) \in Nat
    BY Zenon, <1>4
  <2> HIDE DEF new, read
  <2> QED  BY <2>1, <2>2, <2>3
<1>6. next \in Nat /\ next > manifest.next /\ \A l \in DOMAIN logs : l < next
  <2>1. next \in Nat /\ next > manifest.next /\ \A l \in read : next > l
    BY Zenon, <1>2, NextNumberFacts
  <2>2. \A l \in DOMAIN logs : l \in read \/ l < manifest.log
    BY <1>3
  <2> HIDE DEF read, next
  <2> QED  BY <1>3, <2>1, <2>2
<1>7. \A f \in new : f \in Nat /\ f > manifest.next /\ f < next
  <2> HIDE DEF num, next
  <2> QED  BY Zenon, <1>4
<1>8. ASSUME NEW l \in found  PROVE num(l) \in new /\ tables'[num(l)] = LogBatches(l, lost)
  <2>1. num(l) \in new
    BY Zenon
  <2>2. (CHOOSE k \in found : num(k) = num(l)) = l
    BY Zenon, <1>5
  <2> QED  BY Zenon, <1>1, <2>1, <2>2
<1>9. \A f \in new : \E l \in found : f = num(l)
  BY Zenon
<1> HIDE DEF num, new, next
<1>10. \A l \in found : LogBatches(l, lost) \subseteq Writer
  <2>1. ASSUME NEW l \in found, NEW i \in 1..Len(logs[l].recs)  PROVE logs[l].recs[i] \subseteq Writer
    BY <1>2, <2>1, ElementOfSeq DEF DBInv, LogTypes, LogFile
  <2> QED  BY Zenon, <2>1 DEF LogBatches
<1>11. /\ DOMAIN tables' = DOMAIN tables \cup new
       /\ \A f \in DOMAIN tables : f \notin new => tables'[f] = tables[f]
  BY Zenon, <1>1
<1>12. tables' \in [DOMAIN tables' -> SUBSET Writer] /\ DOMAIN tables' \subseteq Nat
  <2>1. \A f \in new : tables'[f] \in SUBSET Writer
    BY Zenon, <1>8, <1>9, <1>10
  <2>2. \A f \in DOMAIN tables : f \notin new => tables'[f] \in SUBSET Writer
    BY ZenonT(40), <1>11 DEF DBInv, DataTypes
  <2>3. \A f \in DOMAIN tables \cup new :
          tables'[f] = IF f \in new THEN LogBatches(CHOOSE l \in found : num(l) = f, lost) ELSE tables[f]
    BY Zenon, <1>1
  <2>4. tables' \in [DOMAIN tables \cup new -> SUBSET Writer]
    BY Zenon, <1>1, <2>1, <2>2, <2>3
  <2> QED  BY Zenon, <1>7, <1>11, <2>4 DEF DBInv, DataTypes
<1>13. /\ current'.log = next /\ current'.next = next + 1 /\ Files(current') = Files(manifest) \cup new
  BY Zenon, <1>1 DEF Files
<1>14. NewLog \in LogFile /\ NewLog.synced = 0 /\ NewLog.recs = <<>>
  <2>1. <<>> \in Seq(SUBSET Writer)
    OBVIOUS
  <2> QED  BY Zenon, <2>1 DEF NewLog, LogFile
<1>15. /\ DOMAIN logs' = DOMAIN logs \cup {next} /\ logs'[next] = NewLog
       /\ \A l \in DOMAIN logs : logs'[l] = logs[l]
       /\ logs' \in [DOMAIN logs' -> LogFile]
  <2>1. logs' = [l \in DOMAIN logs \cup {next} |-> IF l = next THEN NewLog ELSE logs[l]]
    BY Zenon, <1>1 DEF Put
  <2>2. \A l \in DOMAIN logs : l # next /\ logs[l] \in LogFile
    BY <1>3, <1>6 DEF DBInv, LogTypes
  <2> QED  BY Zenon, <1>14, <2>1, <2>2
<1>16. LogTypes'
  <2>1. \A l \in DOMAIN logs' : logs'[l].synced <= Len(logs'[l].recs)
    BY <1>14, <1>15 DEF DBInv, LogTypes
  <2> QED  BY Zenon, <1>6, <1>15, <2>1 DEF DBInv, LogTypes
<1>17. /\ mem_ = {} /\ imm_ = {} /\ bg = Idle /\ ~bg_error_ /\ pending_outputs_ = {}
       /\ held = [r \in Reader |-> NoHeld] /\ writers_ = <<>>
  BY Zenon, <1>1 DEF DBInv, MemoryInv, On
<1>18. QueueTypes' /\ HeadInv' /\ GroupInv'
  <2>1. QueueTypes' /\ HeadInv'
    BY Zenon, <1>1 DEF DBInv, QueueTypes, HeadInv
  <2>2. \A w \in Writer : pc'[w] \notin AtHead
    BY ZenonT(40), <1>1, <1>17 DEF DBInv, HeadInv
  <2> QED  BY Zenon, <2>1, <2>2 DEF GroupInv, AtHead
<1>19. DataTypes' /\ MemoryInv' /\ ~On'
  BY SMTT(30), <1>1, <1>6, <1>12, <1>13, <1>17 DEF DBInv, DataTypes, MemoryInv, On
<1>20. LogInv'
  BY SMTT(30), <1>1, <1>3, <1>6, <1>13, <1>15, <1>19 DEF LogInv
<1>21. \A f \in Files(manifest) : f \in DOMAIN tables /\ f < manifest.next /\ f \notin new /\ f \in Nat
  BY <1>3, <1>7 DEF DBInv, FileInv, DataTypes
<1>22. FileInv'
  <2>1. Files(manifest)' = Files(manifest) /\ Files(current)' = Files(current')
    BY Zenon, <1>1 DEF Files
  <2>2. \A f \in Files(current') : f \in DOMAIN tables' /\ f < next_file_number_'
    BY <1>1, <1>3, <1>6, <1>7, <1>11, <1>13, <1>21
  <2>3. Files(manifest) \subseteq DOMAIN tables'
    BY Zenon, <1>11, <1>21
  <2>4. \A r \in Reader : held'[r] = NoHeld
    BY Zenon, <1>1, <1>17
  <2> QED  BY Zenon, <1>1, <1>19, <1>21, <2>1, <2>2, <2>3, <2>4, NoHeldFacts DEF FileInv
<1>23. EditInv' /\ FlushInv' /\ CompactionInv'
  BY ZenonT(40), <1>1, <1>17, IdleFields DEF EditInv, FlushInv, CompactionInv
<1>24. SafeInv'
  <2>1. \A b : Stored(b) => Stored(b)'
    BY Zenon, <1>1, <1>11, <1>21 DEF Stored, Batches, Files
  <2>2. \A l \in DOMAIN logs : \A b : Kept(b, l) => Kept(b, l)'
    BY Zenon, <1>15 DEF Kept
  <2>3. \A b : Replays(b) => Replays(b)'
    BY Zenon, <1>1, <1>15, <2>2 DEF Replays
  <2>4. Batches(current, mem_ \cup imm_)' = UNION {tables'[f] : f \in Files(current')}
    BY Zenon, <1>1, <1>17 DEF Batches, Files
  <2>5. ASSUME NEW b, Stored(b)  PROVE \E f \in Files(current') : b \in tables'[f]
    BY Zenon, <1>11, <1>13, <1>21, <2>5 DEF Stored, Batches
  <2>6. ASSUME NEW b, Replays(b)  PROVE \E f \in Files(current') : b \in tables'[f]
    <3>1. PICK l \in DOMAIN logs : l >= manifest.log /\ Kept(b, l)
      BY Zenon, <2>6 DEF Replays
    <3>2. PICK i \in 1..Len(logs[l].recs) : b \in logs[l].recs[i] /\ \A t \in logs[l].torn : i <= t
      BY Zenon, <3>1 DEF Kept
    <3>3. Len(logs[l].recs) \in Nat /\ logs[l].torn \subseteq Nat
      BY ZenonT(40), LenProperties DEF DBInv, LogTypes, LogFile
    <3>4. \A t \in logs[l].torn : ~(t < i)
      BY <3>2, <3>3
    <3>5. <<l, i>> \notin Unsure
      BY <3>4 DEF Unsure
    <3>6. l \in Replayed /\ b \in LogBatches(l, lost)
      BY <3>1, <3>2, <3>5 DEF Replayed, LogBatches
    <3>7. l \in found
      BY Zenon, <3>6 DEF found
    <3> QED  BY Zenon, <1>8, <1>13, <3>6, <3>7
  <2> QED  BY ZenonT(40), <1>1, <1>19, <2>1, <2>3, <2>4, <2>5, <2>6 DEF DBInv, SafeInv
<1> QED  BY Zenon, <1>16, <1>18, <1>19, <1>20, <1>22, <1>23, <1>24 DEF DBInv

LEMMA SetCurrentFileInv ==
  ASSUME DBInv, SetCurrentFile  PROVE DBInv'
<1>1. /\ mode = "recover" /\ mode' = "install" /\ manifest' = current
      /\ UNCHANGED <<pc, res, writers_, group, logs, tables, logfile_number_, mem_, imm_,
                     current, next_file_number_, pending_outputs_, held, bg, bg_error_, acked>>
  BY Zenon DEF SetCurrentFile, wvars, vvars, bvars
<1>2. ~On /\ ~On'
  BY Zenon, <1>1 DEF On
<1>3. mem_ = {} /\ imm_ = {} /\ bg.pc = "idle"
  BY Zenon, <1>2, IdleFields DEF DBInv, MemoryInv
<1>4. /\ current.log = logfile_number_ /\ current.next = next_file_number_
      /\ logfile_number_ \in Nat /\ next_file_number_ \in Nat /\ logfile_number_ < next_file_number_
  BY Zenon, <1>1 DEF DBInv, LogInv, DataTypes
<1>5. QueueTypes' /\ HeadInv' /\ GroupInv'
  BY Zenon, <1>1, BackgroundQueue
<1>6. LogTypes' /\ DataTypes' /\ MemoryInv'
  BY Zenon, <1>1, <1>2, <1>4 DEF DBInv, LogTypes, DataTypes, MemoryInv
<1>7. LogInv'
  BY SMTT(30), <1>1, <1>2, <1>4 DEF DBInv, LogInv
<1>8. FileInv'
  <2>1. Files(manifest)' = Files(current) /\ Files(current)' = Files(current)
    BY Zenon, <1>1 DEF Files
  <2> QED  BY <1>1, <1>2, <1>3, <1>4, <2>1 DEF DBInv, FileInv
<1>9. EditInv' /\ FlushInv' /\ CompactionInv'
  BY Zenon, <1>1, <1>3 DEF DBInv, EditInv, FlushInv, CompactionInv
<1>10. SafeInv'
  <2>1. acked \subseteq Batches(current, mem_ \cup imm_)
    BY Zenon, <1>1 DEF DBInv, SafeInv
  <2>2. Batches(current, mem_ \cup imm_)' = Batches(current, mem_ \cup imm_)
        /\ Batches(manifest, {})' = Batches(current, mem_ \cup imm_)
    BY <1>1, <1>3 DEF Batches, Files
  <2> QED  BY Zenon, <1>1, <2>1, <2>2 DEF SafeInv, Stored
<1> QED  BY Zenon, <1>5, <1>6, <1>7, <1>8, <1>9, <1>10 DEF DBInv

LEMMA OpenedInv ==
  ASSUME DBInv, Opened  PROVE DBInv'
<1>1. /\ mode = "install" /\ mode' = "run" /\ Delete(current, {}, {}, FALSE)
      /\ UNCHANGED <<pc, res, writers_, group, manifest, logfile_number_, mem_, imm_,
                     current, next_file_number_, pending_outputs_, held, bg, bg_error_, acked>>
  BY Zenon DEF Opened, wvars, vvars
<1>2. ~On /\ On'
  BY Zenon, <1>1 DEF On
<1>3. /\ mem_ = {} /\ imm_ = {} /\ bg.pc = "idle" /\ bg.c = NoCompaction /\ ~bg_error_
      /\ \A r \in Reader : held[r] = NoHeld
  BY Zenon, <1>2, IdleFields DEF DBInv, MemoryInv
<1>4. /\ current.log = logfile_number_ /\ current.log \in Nat /\ manifest.log \in Nat
      /\ manifest.log = logfile_number_ /\ logfile_number_ \in DOMAIN logs
  BY <1>1 DEF DBInv, LogInv, DataTypes
<1>5. Files(current) \subseteq DOMAIN tables /\ \A f \in Files(current) : f < next_file_number_
  BY Zenon, <1>1 DEF DBInv, FileInv
<1>6. /\ DOMAIN tables' \subseteq DOMAIN tables /\ \A f \in DOMAIN tables' : tables'[f] = tables[f]
      /\ tables' \in [DOMAIN tables' -> SUBSET Writer] /\ Files(current) \subseteq DOMAIN tables'
      /\ DOMAIN logs' \subseteq DOMAIN logs /\ \A l \in DOMAIN logs' : logs'[l] = logs[l]
      /\ logs' \in [DOMAIN logs' -> LogFile]
      /\ \A l \in DOMAIN logs : l >= current.log => l \in DOMAIN logs'
  <2>1. PICK err \in BOOLEAN : ~err /\ Delete(current, {}, {}, err)
    BY Zenon, <1>1
  <2>2. {} \subseteq DOMAIN tables /\ UNCHANGED held
    BY Zenon, <1>1
  <2> QED  BY <1>5, <2>1, <2>2, Deleted
<1>7. DOMAIN tables' \subseteq Files(current)
  <2>1. DOMAIN tables' \subseteq LiveTables(current, {}, {})
    BY Zenon, <1>1 DEF Delete
  <2>2. LiveTables(current, {}, {}) = Files(current)
    BY Zenon, <1>3, NoHeldFacts DEF LiveTables
  <2> QED  BY Zenon, <2>1, <2>2
<1>8. logfile_number_ \in DOMAIN logs' /\ logs'[logfile_number_] = logs[logfile_number_]
  BY <1>4, <1>6
<1>9. QueueTypes' /\ HeadInv' /\ GroupInv'
  BY Zenon, <1>1, <1>8, BackgroundQueue
<1>10. LogTypes' /\ DataTypes' /\ MemoryInv'
  BY Zenon, <1>1, <1>2, <1>6 DEF DBInv, LogTypes, DataTypes, MemoryInv
<1>11. LogInv'
  BY Zenon, <1>1, <1>2, <1>4, <1>6, <1>8 DEF DBInv, LogInv
<1>12. Files(manifest) = Files(current)
  BY Zenon, <1>1, <1>3 DEF DBInv, FileInv
<1>13. FileInv'
  <2>1. Files(manifest)' = Files(manifest) /\ Files(current)' = Files(current)
    BY Zenon, <1>1 DEF Files
  <2>2. \A f \in Files(manifest) : f < manifest.next
    BY Zenon DEF DBInv, FileInv
  <2>3. \A r \in Reader : held'[r].files = {} /\ held'[r].snap = {}
    BY Zenon, <1>1, <1>3, NoHeldFacts
  <2> QED  BY Zenon, <1>1, <1>2, <1>3, <1>5, <1>6, <1>7, <1>12, <2>1, <2>2, <2>3 DEF FileInv
<1>14. EditInv' /\ FlushInv' /\ CompactionInv'
  BY Zenon, <1>1, <1>3, IdleFields DEF EditInv, FlushInv, CompactionInv
<1>15. SafeInv'
  <2>1. \A b \in acked : Stored(b)
    BY Zenon, <1>1, <1>3 DEF DBInv, SafeInv
  <2>2. \A b : Stored(b) => Stored(b)'
    BY <1>1, <1>6, <1>12 DEF Stored, Batches, Files
  <2>3. Batches(manifest, {})' \subseteq Batches(current, mem_ \cup imm_)'
    BY Zenon, <1>1, <1>3, <1>12 DEF Batches, Files
  <2> QED  BY Zenon, <1>1, <2>1, <2>2, <2>3 DEF SafeInv, Stored
<1> QED  BY Zenon, <1>9, <1>10, <1>11, <1>13, <1>14, <1>15 DEF DBInv

LEMMA StutterInv ==
  ASSUME DBInv, UNCHANGED vars  PROVE DBInv'
<1>1. UNCHANGED <<mode, pc, res, writers_, group, logs, tables, manifest, logfile_number_, mem_, imm_,
                  current, next_file_number_, pending_outputs_, held, bg, bg_error_, acked>>
  BY Zenon DEF vars, wvars, fvars, vvars, bvars
<1>2. QueueTypes' /\ HeadInv' /\ GroupInv'
  BY Zenon, <1>1, BackgroundQueue
<1>3. LogTypes' /\ DataTypes' /\ MemoryInv' /\ LogInv'
  BY ZenonT(40), <1>1 DEF DBInv, LogTypes, DataTypes, MemoryInv, LogInv, On
<1>4. FileInv'
  <2>1. /\ Files(manifest)' = Files(manifest) /\ Files(current)' = Files(current)
        /\ Files(Apply(current, bg.edit))' = Files(Apply(current, bg.edit)) /\ On' = On
    BY Zenon, <1>1 DEF Files, Apply, On
  <2> QED  BY ZenonT(40), <1>1, <2>1 DEF DBInv, FileInv
<1>5. EditInv' /\ FlushInv' /\ CompactionInv'
  BY ZenonT(40), <1>1 DEF DBInv, EditInv, FlushInv, CompactionInv, Files, Added
<1>6. SafeInv'
  BY Zenon, <1>1, SafeStays DEF DBInv, On
<1> QED  BY Zenon, <1>2, <1>3, <1>4, <1>5, <1>6 DEF DBInv

LEMMA InitInv ==
  ASSUME Init  PROVE DBInv
<1>1. On /\ bg.pc = "idle" /\ bg.c = NoCompaction
  BY Zenon, IdleFields DEF Init, On
<1>2. QueueTypes /\ HeadInv /\ GroupInv
  <2>1. writers_ \in Seq(Writer) /\ IsFiniteSet(group)
    BY FS_EmptySet DEF Init
  <2> QED  BY Zenon, <2>1 DEF Init, QueueTypes, HeadInv, GroupInv, AtHead
<1>3. LogTypes
  <2>1. NewLog \in LogFile /\ NewLog.synced = 0 /\ NewLog.recs = <<>>
    <3>1. <<>> \in Seq(SUBSET Writer)
      OBVIOUS
    <3> QED  BY Zenon, <3>1 DEF NewLog, LogFile
  <2>2. logs = [l \in {2} |-> NewLog]
    BY Zenon DEF Init
  <2> QED  BY <2>1, <2>2 DEF LogTypes
<1>4. DOMAIN tables = {} /\ tables \in [DOMAIN tables -> SUBSET Writer]
  <2>1. tables \in Seq(SUBSET Writer) /\ DOMAIN tables = {}
    BY DEF Init
  <2> QED  BY Zenon, <2>1, LenProperties
<1>5. DataTypes
  BY Zenon, <1>4, NoHeldFacts DEF Init, DataTypes
<1>6. MemoryInv /\ LogInv
  BY <1>1 DEF Init, MemoryInv, LogInv
<1>7. FileInv
  BY Zenon, <1>1, <1>4, NoHeldFacts DEF Init, FileInv, Files
<1>8. EditInv /\ FlushInv /\ CompactionInv
  BY Zenon, <1>1, IdleFields DEF EditInv, FlushInv, CompactionInv
<1>9. SafeInv
  BY Zenon DEF Init, SafeInv
<1> QED  BY Zenon, <1>2, <1>3, <1>5, <1>6, <1>7, <1>8, <1>9 DEF DBInv

LEMMA NextInv ==
  ASSUME DBConstants, DBInv, [Next]_vars  PROVE DBInv'
<1>1. ASSUME NEW w \in Writer, Enter(w) \/ WriteStep(w) \/ SwitchFails(w) \/ AddRecordFails(w) \/ SyncFails(w)
      PROVE  DBInv'
  BY Zenon, <1>1, EnterInv, WakeInv, WaitInv, RoomFailsInv, RoomFoundInv, SwitchInv, AddRecordInv, AddRecordFailsInv,
     SyncInv, SyncFailsInv, InsertIntoInv DEF WriteStep
<1>2. CASE Background \/ BuildTableFails \/ WriteManifestFails
  BY Zenon, <1>2, BackgroundCallIdleInv, FlushStartsInv, BuildTableInv, WriteManifestInv, InstallInv,
     BackgroundCompactionInv, OpenOutputInv, FinishOutputsInv, CompactionFailsInv, InstallCompactionResultsInv,
     BuildTableFailsInv, WriteManifestFailsInv DEF Background
<1>3. ASSUME NEW r \in Reader, BeginRead(r) \/ EndRead(r)  PROVE DBInv'
  BY Zenon, <1>3, BeginReadInv, EndReadInv
<1>4. CASE Close \/ Closed \/ ProcessCrash \/ MachineCrash
  BY Zenon, <1>4, CloseInv, ClosedInv, MachineCrashInv
<1>5. CASE Open
  BY Zenon, <1>5, RecoverInv, SetCurrentFileInv, OpenedInv DEF Open, Recover
<1>6. CASE UNCHANGED vars
  BY Zenon, <1>6, StutterInv
<1> QED  BY Zenon, <1>1, <1>2, <1>3, <1>4, <1>5, <1>6 DEF Next

-----------------------------------------------------------------------------
(* The invariant holds of every behaviour of DBImpl, whatever the writers, *)
(* readers, triggers and faults are.                                       *)
THEOREM Invariance ==
  ASSUME DBConstants  PROVE Spec => []DBInv
<1>1. Init => DBInv
  BY Zenon, InitInv
<1>2. DBInv /\ [Next]_vars => DBInv'
  BY Zenon, NextInv
<1> QED  BY <1>1, <1>2, PTL DEF Spec

(* Nothing that is needed is lost.  A Write that returned OK stays, unless *)
(* an earlier write of its log had failed: after switching memtables,      *)
(* flushes, compactions, failed writes, closing, and crashes of the        *)
(* process or, with sync, of the machine, reads find it.                   *)
(* DeleteObsoleteFiles removes no table of the current version, of the     *)
(* manifest or of a version that a reader holds, and not the log that is   *)
(* written.                                                                *)
THEOREM Durability ==
  ASSUME DBConstants  PROVE Spec => []NothingLost
<1>1. DBInv => AckedKept
  BY Zenon DEF DBInv, SafeInv, AckedKept
<1>2. DBInv => FilesLive
  <2> SUFFICES ASSUME DBInv  PROVE FilesLive
    BY Zenon
  <2>1. FileInv /\ LogInv /\ DOMAIN held = Reader
    BY Zenon DEF DBInv, DataTypes
  <2> QED  BY Zenon, <2>1 DEF FileInv, LogInv, FilesLive
<1> QED  BY <1>1, <1>2, Invariance, PTL DEF NothingLost
=============================================================================
