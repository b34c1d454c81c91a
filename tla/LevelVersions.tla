--------------------------- MODULE LevelVersions ---------------------------
(***************************************************************************)
(* The versions of a leveldb database: the tables of its levels, the reads *)
(* that go through them, and the compactions that move entries down, from  *)
(* src/src/leveldb/db/version_set.cc and the background work of            *)
(* src/src/leveldb/db/db_impl.cc.                                          *)
(*                                                                         *)
(* An entry is its sequence number: hist says which user key it is for and *)
(* whether it deletes it.  A table is a set of entries with its number,    *)
(* and its size is how many it holds.                                      *)
(***************************************************************************)
EXTENDS Integers, Sequences, FiniteSets, FiniteSetsExt, SequencesExt

CONSTANTS Key,               \* user keys: integers
          kNumLevels,
          kMaxMemCompactLevel,
          kL0_CompactionTrigger,
          MaxBytes,          \* level -> MaxBytesForLevel
          MaxOutput,         \* MaxFileSizeForLevel
          MaxGrandParent,    \* MaxGrandParentOverlapBytes
          MaxExpanded,       \* ExpandedCompactionByteSizeLimit
          MaxSeq,            \* bound: writes
          MaxSnapshot,       \* bound: snapshots held at a time
          Manual,            \* CompactRange is called
          Deletes            \* the kinds of writes: FALSE a Put, TRUE a Delete

VARIABLES hist,              \* sequence number -> [k, del]
          mem, imm,          \* the entries of the memtables
          files,             \* level -> tables of the current version
          pointer,           \* compact_pointer_: level -> an entry, or 0
          seek,              \* file_to_compact_ of the current version
          snaps,             \* the sequence numbers of the snapshots held
          next,              \* next_file_number_
          work               \* the compaction at work, or Idle

vars == <<hist, mem, imm, files, pointer, seek, snaps, next, work>>

Level == 0..kNumLevels - 1

NoFile == [num |-> 0, ents |-> {}]
NoSeek == [file |-> NoFile, level |-> 0]
Idle == [level |-> 0, in |-> <<{}, {}>>, grand |-> {}, snap |-> 0, base |-> [l \in Level |-> {}]]

LastSequence == Len(hist)

\* InternalKeyComparator: user keys up, sequence numbers down
Before(a, b) == hist[a].k < hist[b].k \/ (hist[a].k = hist[b].k /\ a > b)

smallest(f) == CHOOSE a \in f.ents : \A b \in f.ents \ {a} : Before(a, b)
largest(f) == CHOOSE a \in f.ents : \A b \in f.ents \ {a} : Before(b, a)
MinKey(f) == Min({hist[a].k : a \in f.ents})
MaxKey(f) == Max({hist[a].k : a \in f.ents})

TotalFileSize(F) == MapThenSumSet(LAMBDA f : Cardinality(f.ents), F)

\* the files of a level by their smallest keys (Builder::SaveTo)
Sorted(F) == SetToSortSeq(F, LAMBDA f, g : Before(smallest(f), smallest(g)))
-----------------------------------------------------------------------------
(***************************************************************************)
(* Reads.                                                                  *)
(***************************************************************************)
\* the newest entry of a table or memtable for key k at snapshot s, or 0
Hit(ents, k, s) == Max({0} \cup {a \in ents : hist[a].k = k /\ a <= s})

\* the first file whose largest key is not before (k, s)
FindFile(F, k, s) ==
    LET C == {f \in F : hist[largest(f)].k > k \/ (hist[largest(f)].k = k /\ largest(f) <= s)}
    IN  IF C = {} THEN {}
        ELSE {CHOOSE f \in C : \A g \in C \ {f} : Before(largest(f), largest(g))}

\* the files of a level that are searched for key k
Candidates(l, k, s) ==
    IF l = 0 THEN {f \in files[0] : MinKey(f) <= k /\ k <= MaxKey(f)}
    ELSE {f \in FindFile(files[l], k, s) : MinKey(f) <= k}

NewestFirst(F) == SetToSortSeq(F, LAMBDA f, g : f.num > g.num)

\* the files in the order Version::Get and ForEachOverlapping go through them
Search(k, s) == FlattenSeq([i \in 1..kNumLevels |->
                   LET F == NewestFirst(Candidates(i - 1, k, s))
                   IN  [j \in DOMAIN F |-> [file |-> F[j], level |-> i - 1]]])

\* DBImpl::Get: the memtables, then Version::Get
Get(k, s) ==
    LET F    == Search(k, s)
        hits == <<Hit(mem, k, s), Hit(imm, k, s)>> \o [i \in 1..Len(F) |-> Hit(F[i].file.ents, k, s)]
        S    == {i \in 1..Len(hits) : hits[i] # 0}
    IN  IF S = {} THEN 0 ELSE hits[Min(S)]

\* UpdateStats and RecordReadSample: enough reads that go through two files or
\* more charge the first of them
RecordReadSample(k) ==
    /\ seek = NoSeek
    /\ \E F \in {Search(k, LastSequence)} : Len(F) >= 2 /\ seek' = F[1]
    /\ UNCHANGED <<hist, mem, imm, files, pointer, snaps, next, work>>
-----------------------------------------------------------------------------
(***************************************************************************)
(* Overlaps.                                                               *)
(***************************************************************************)
Overlaps(f, lo, hi) == MaxKey(f) >= lo /\ MinKey(f) <= hi

\* level 0: a file that widens the range starts the search again
RECURSIVE Widened(_, _, _)
Widened(F, lo, hi) ==
    LET O == {f \in F : Overlaps(f, lo, hi)}
        a == Min({lo} \cup {MinKey(f) : f \in O})
        b == Max({hi} \cup {MaxKey(f) : f \in O})
    IN  IF a = lo /\ b = hi THEN O ELSE Widened(F, a, b)

GetOverlappingInputs(l, lo, hi) ==
    IF l = 0 THEN Widened(files[0], lo, hi) ELSE {f \in files[l] : Overlaps(f, lo, hi)}

OverlapInLevel(l, lo, hi) == \E f \in files[l] : Overlaps(f, lo, hi)

Lo(F) == Min({MinKey(f) : f \in F})
Hi(F) == Max({MaxKey(f) : f \in F})

\* the entry that is the largest internal key of the files
RangeEnd(F) == largest([ents |-> UNION {f.ents : f \in F}])

\* how far a new table goes down: no further than it is free of overlaps
PickLevelForMemTableOutput(lo, hi) ==
    LET May(l) == /\ ~OverlapInLevel(l + 1, lo, hi)
                  /\ l + 2 < kNumLevels => TotalFileSize(GetOverlappingInputs(l + 2, lo, hi)) <= MaxGrandParent
    IN  IF OverlapInLevel(0, lo, hi) THEN 0
        ELSE CHOOSE l \in 0..kMaxMemCompactLevel :
                /\ \A m \in 0..l - 1 : May(m)
                /\ l = kMaxMemCompactLevel \/ ~May(l)
-----------------------------------------------------------------------------
(***************************************************************************)
(* Writes and memtables.                                                   *)
(***************************************************************************)
Write(k, del) ==
    /\ LastSequence < MaxSeq
    /\ hist' = Append(hist, [k |-> k, del |-> del])
    /\ mem' = mem \cup {LastSequence + 1}
    /\ UNCHANGED <<imm, files, pointer, seek, snaps, next, work>>

\* MakeRoomForWrite: the memtable is full
Switch ==
    /\ mem # {} /\ imm = {}
    /\ imm' = mem /\ mem' = {}
    /\ UNCHANGED <<hist, files, pointer, seek, snaps, next, work>>

\* CompactMemTable, alone or in the middle of a compaction
CompactMemTable ==
    /\ imm # {}
    /\ \E f \in {[num |-> next, ents |-> imm]} :
       \E l \in {PickLevelForMemTableOutput(MinKey(f), MaxKey(f))} :
          files' = [files EXCEPT ![l] = @ \cup {f}]
    /\ imm' = {} /\ next' = next + 1 /\ seek' = NoSeek
    /\ UNCHANGED <<hist, mem, pointer, snaps, work>>

GetSnapshot ==
    /\ Cardinality(snaps) < MaxSnapshot
    /\ snaps' = snaps \cup {LastSequence}
    /\ UNCHANGED <<hist, mem, imm, files, pointer, seek, next, work>>

ReleaseSnapshot(s) ==
    /\ snaps' = snaps \ {s}
    /\ UNCHANGED <<hist, mem, imm, files, pointer, seek, next, work>>
-----------------------------------------------------------------------------
(***************************************************************************)
(* Picking a compaction.                                                   *)
(***************************************************************************)
\* Finalize: a level's score is Count / Limit
Count(l) == IF l = 0 THEN Cardinality(files[0]) ELSE TotalFileSize(files[l])
Limit(l) == IF l = 0 THEN kL0_CompactionTrigger ELSE MaxBytes[l]

BestLevel == CHOOSE l \in 0..kNumLevels - 2 :
                /\ \A m \in 0..kNumLevels - 2 : Count(m) * Limit(l) <= Count(l) * Limit(m)
                /\ \A m \in 0..l - 1 : Count(m) * Limit(l) < Count(l) * Limit(m)

SizeCompaction == Count(BestLevel) >= Limit(BestLevel)

NeedsCompaction == SizeCompaction \/ seek # NoSeek

\* the first file after the pointer, around to the beginning
FirstAfterPointer(l) ==
    LET F == Sorted(files[l])
        I == {i \in 1..Len(F) : pointer[l] = 0 \/ Before(pointer[l], largest(F[i]))}
    IN  F[IF I = {} THEN 1 ELSE Min(I)]

\* the files of the level that can join without another file of the next level
Expanded(l, in0, in1) ==
    LET all == in0 \cup in1
        ex0 == GetOverlappingInputs(l, Lo(all), Hi(all))
    IN  IF /\ in1 # {} /\ Cardinality(ex0) > Cardinality(in0)
           /\ TotalFileSize(in1) + TotalFileSize(ex0) < MaxExpanded
           /\ Cardinality(GetOverlappingInputs(l + 1, Lo(ex0), Hi(ex0))) = Cardinality(in1)
        THEN ex0 ELSE in0

\* DoCompactionWork takes the oldest snapshot before it lets the mutex go
SetupOtherInputs(l, picked) ==
    LET in1 == GetOverlappingInputs(l + 1, Lo(picked), Hi(picked))
        in0 == Expanded(l, picked, in1)
        all == in0 \cup in1
    IN  [level |-> l, in |-> <<in0, in1>>,
         grand |-> IF l + 2 < kNumLevels THEN GetOverlappingInputs(l + 2, Lo(all), Hi(all)) ELSE {},
         snap |-> IF snaps = {} THEN LastSequence ELSE Min(snaps), base |-> files]

IsTrivialMove(c) == Cardinality(c.in[1]) = 1 /\ c.in[2] = {} /\ TotalFileSize(c.grand) <= MaxGrandParent

\* PickCompaction, with the trivial move done at once
BackgroundCompaction ==
    /\ work = Idle /\ imm = {} /\ NeedsCompaction
    /\ \E l \in {IF SizeCompaction THEN BestLevel ELSE seek.level} :
       \E f \in {IF SizeCompaction THEN FirstAfterPointer(l) ELSE seek.file} :
       \E c \in {SetupOtherInputs(l, IF l = 0 THEN GetOverlappingInputs(0, MinKey(f), MaxKey(f)) ELSE {f})} :
         /\ pointer' = [pointer EXCEPT ![l] = RangeEnd(c.in[1])]
         /\ IF IsTrivialMove(c)
            THEN /\ files' = [files EXCEPT ![l] = @ \ c.in[1], ![l + 1] = @ \cup c.in[1]]
                 /\ seek' = NoSeek /\ UNCHANGED work
            ELSE work' = c /\ UNCHANGED <<files, seek>>
    /\ UNCHANGED <<hist, mem, imm, snaps, next>>

\* VersionSet::CompactRange: below level 0, only as many files as make one output
Shortened(F) ==
    LET s == Sorted(F)
        n == {i \in 1..Len(s) : TotalFileSize({s[j] : j \in 1..i}) >= MaxOutput}
    IN  {s[j] : j \in 1..(IF n = {} THEN Len(s) ELSE Min(n))}

CompactRange(l, lo, hi) ==
    /\ Manual /\ work = Idle /\ imm = {} /\ l + 1 < kNumLevels
    /\ \E F \in {GetOverlappingInputs(l, lo, hi)} :
         /\ F # {}
         /\ work' = SetupOtherInputs(l, IF l = 0 THEN F ELSE Shortened(F))
         /\ pointer' = [pointer EXCEPT ![l] = RangeEnd(work'.in[1])]
    /\ UNCHANGED <<hist, mem, imm, files, seek, snaps, next>>
-----------------------------------------------------------------------------
(***************************************************************************)
(* Doing it.                                                               *)
(***************************************************************************)
Input(c) == UNION {f.ents : f \in c.in[1] \cup c.in[2]}

\* no level below the output may have the key
IsBaseLevelForKey(c, k) == \A l \in c.level + 2..kNumLevels - 1 : \A f \in c.base[l] : ~Overlaps(f, k, k)

DropAnyDeletion(c, a) ==
    \/ \E b \in Input(c) : hist[b].k = hist[a].k /\ b > a /\ b <= c.snap
    \/ hist[a].del /\ a <= c.snap

\* hidden by a newer entry that every snapshot sees, or a deletion with
\* nothing left to hide
Drop(c, a) ==
    \/ \E b \in Input(c) : hist[b].k = hist[a].k /\ b > a /\ b <= c.snap
    \/ hist[a].del /\ a <= c.snap /\ IsBaseLevelForKey(c, hist[a].k)

\* the grandparent bytes that lie wholly before entry a
Passed(c, a) == {g \in c.grand : Before(largest(g), a)}

\* One pass over the input: the files made, the one at work, the grandparents
\* it has gone past.  ShouldStopBefore counts none before the first key.
Take(c, st, a) ==
    LET P    == Passed(c, a)
        over == st.over + (IF st.seen THEN TotalFileSize(P \ st.passed) ELSE 0)
        stop == over > MaxGrandParent
        open == IF stop THEN {} ELSE st.open
        done == IF stop /\ st.open # {} THEN Append(st.done, st.open) ELSE st.done
        kept == IF Drop(c, a) THEN open ELSE open \cup {a}
        full == ~Drop(c, a) /\ Cardinality(kept) >= MaxOutput
    IN  [seen |-> TRUE, passed |-> P, over |-> IF stop THEN 0 ELSE over,
         open |-> IF full THEN {} ELSE kept, done |-> IF full THEN Append(done, kept) ELSE done]

Outputs(c) ==
    LET st == FoldLeft(LAMBDA x, a : Take(c, x, a), [seen |-> FALSE, passed |-> {}, over |-> 0, open |-> {}, done |-> <<>>],
                       SetToSortSeq(Input(c), Before))
    IN  IF st.open = {} THEN st.done ELSE Append(st.done, st.open)

\* DoCompactionWork and InstallCompactionResults, on the version of now
DoCompactionWork ==
    /\ work # Idle
    /\ \E out \in {Outputs(work)} :
         /\ files' = [files EXCEPT ![work.level] = @ \ work.in[1],
                                   ![work.level + 1] = (@ \ work.in[2]) \cup
                                        {[num |-> next + i - 1, ents |-> out[i]] : i \in 1..Len(out)}]
         /\ next' = next + Len(out)
    /\ work' = Idle /\ seek' = NoSeek
    /\ UNCHANGED <<hist, mem, imm, pointer, snaps>>

Init == /\ hist = <<>> /\ mem = {} /\ imm = {} /\ files = [l \in Level |-> {}]
        /\ pointer = [l \in Level |-> 0] /\ seek = NoSeek /\ snaps = {} /\ next = 1 /\ work = Idle

Background == CompactMemTable \/ BackgroundCompaction \/ DoCompactionWork

Next == \/ \E k \in Key, del \in Deletes : Write(k, del)
        \/ Switch \/ Background
        \/ GetSnapshot \/ \E s \in snaps : ReleaseSnapshot(s)
        \/ \E k \in Key : RecordReadSample(k)
        \/ \E l \in Level, lo, hi \in Key : lo <= hi /\ CompactRange(l, lo, hi)

Spec == Init /\ [][Next]_vars
-----------------------------------------------------------------------------
\* No table is empty, and an entry is in one table or memtable at most.
TypeOK ==
    /\ \A l \in Level : \A f \in files[l] : f.ents # {} /\ f.ents \cap (mem \cup imm) = {}
    /\ \A l, m \in Level : \A f \in files[l], g \in files[m] : (l = m /\ f = g) \/ f.ents \cap g.ents = {}

\* Tables in one level never overlap, so that the search for one file finds the
\* one that has the key; MaybeAddFile asserts it.
NoOverlap == \A l \in 1..kNumLevels - 1 : \A f, g \in files[l] : f # g =>
                MaxKey(f) < MinKey(g) \/ MaxKey(g) < MinKey(f)

\* A read returns the newest write of its key, or the newest one its snapshot
\* sees, wherever compactions have moved the entries meanwhile: Version::Get may
\* stop at the first level that has the key.
GetsNewest ==
    \A k \in Key, s \in snaps \cup {LastSequence} :
        LET got  == Get(k, s)
            want == Hit(DOMAIN hist, k, s)
        IN  got = want \/ ((got = 0 \/ hist[got].del) /\ (want = 0 \/ hist[want].del))
=============================================================================
