----------------------------- MODULE TimeSeries -----------------------------
(***************************************************************************)
(* The block files of src/src/storage/timeseries.{h,cpp}: CTimeSeriesBase  *)
(* and CTimeSeriesCached, and the walk that checks and repairs them.       *)
(*                                                                         *)
(* A file is a sequence of cells.  The record of a block of n cells is     *)
(* <<r, 1>>, <<r, 2>>, ..., <<r, n>>: the magic number, the size, and the  *)
(* data from the third on.  A write that stops short leaves the first      *)
(* cells of a record.  Positions are those of the data, as in CDiskPos.    *)
(***************************************************************************)
EXTENDS Integers, Sequences, FiniteSets, SequencesExt

CONSTANTS Rec,            \* the blocks
          Cells,          \* how many cells the record of a block has
          MAX_FILE_SIZE,
          MaxFile,        \* bound: files
          CacheSize,      \* room of cacheStream
          CanFail,        \* a write may fail midway (no room on the disk)
          CrashInRepair,  \* the node may stop while it repairs
          MaxFault        \* bound: crashes and failed writes

VARIABLES files,          \* file number -> cells; a number without a file is not in it
          nLastFile,
          cache,          \* cacheStream: the cached records, oldest first
          index,          \* block -> position, as the block index has it
          done,           \* blocks whose Write returned true and that no crash has cut off
          temp,           \* the file TruncateFile is at work on: [file, offset, cells]
          mode,           \* "run", "check", "truncate", "remove"
          faults

vars == <<files, nLastFile, cache, index, done, temp, mode, faults>>

HDR == 2

CellsAssumption == \A r \in Rec : Cells[r] > HDR /\ Cells[r] <= MAX_FILE_SIZE

None == [file |-> 0, offset |-> 0, cells |-> <<>>]

Image(r) == [i \in 1..Cells[r] |-> <<r, i>>]

Size(f) == Len(files[f])

\* the record with its data at offset o of file f is whole
Whole(fs, f, r, o) ==
    /\ f \in DOMAIN fs /\ o >= HDR /\ o - HDR + Cells[r] <= Len(fs[f])
    /\ SubSeq(fs[f], o - HDR + 1, o - HDR + Cells[r]) = Image(r)
-----------------------------------------------------------------------------
\* GetLastFilePath: the first file from nLastFile on that has room; it is made
\* when it does not exist

Room(f, n) == (IF f \in DOMAIN files THEN Size(f) ELSE 0) + n <= MAX_FILE_SIZE

GetLastFilePath(n) == CHOOSE f \in nLastFile..MaxFile + 1 :
                          Room(f, n) /\ \A g \in nLastFile..f - 1 : ~Room(g, n)

\* the files that exist after it, f the last
Made(f) == [g \in DOMAIN files \cup nLastFile..f |-> IF g \in DOMAIN files THEN files[g] ELSE <<>>]

RECURSIVE VacateCache(_, _)
VacateCache(c, n) ==
    IF FoldLeft(LAMBDA s, e : s + Cells[e.rec] + HDR, 0, c) + n + HDR <= CacheSize THEN c
    ELSE VacateCache(Tail(c), n)

\* a record that is cached already stays; one larger than the stream resets it
WriteToCache(c, r, pos) ==
    IF \E i \in 1..Len(c) : c[i].pos = pos THEN c
    ELSE IF Cells[r] + HDR > CacheSize THEN <<>>
    ELSE Append(VacateCache(c, Cells[r]), [rec |-> r, pos |-> pos])

\* CTimeSeriesCached::Write and the entry CBlockBase makes in the index
Write(r) ==
    \E f \in {GetLastFilePath(Cells[r])} :
        /\ f <= MaxFile
        /\ nLastFile' = f
        /\ files' = [Made(f) EXCEPT ![f] = @ \o Image(r)]
        /\ \E pos \in {<<f, Len(Made(f)[f]) + HDR>>} :
             /\ cache' = WriteToCache(cache, r, pos)
             /\ index' = [x \in DOMAIN index \cup {r} |-> IF x = r THEN pos ELSE index[x]]
        /\ done' = done \cup {r}
        /\ UNCHANGED <<temp, mode, faults>>

\* the stream throws after n cells: Write returns false
WriteFails(r, n) ==
    \E f \in {GetLastFilePath(Cells[r])} :
        /\ CanFail /\ faults < MaxFault /\ faults' = faults + 1
        /\ f <= MaxFile /\ n < Cells[r]
        /\ nLastFile' = f
        /\ files' = [Made(f) EXCEPT ![f] = @ \o SubSeq(Image(r), 1, n)]
        /\ UNCHANGED <<cache, index, done, temp, mode>>

\* ReadFromCache, or the file
Cached(pos) == {i \in 1..Len(cache) : cache[i].pos = pos}

Result(r) == LET pos == index[r]
             IN  IF Cached(pos) # {} THEN cache[CHOOSE i \in Cached(pos) : TRUE].rec
                 ELSE IF Whole(files, pos[1], r, pos[2]) THEN r ELSE "error"

Read(r) == /\ Result(r) # "error"
           /\ cache' = WriteToCache(cache, Result(r), index[r])
           /\ UNCHANGED <<files, nLastFile, index, done, temp, mode, faults>>
-----------------------------------------------------------------------------
(***************************************************************************)
(* A crash leaves one of the files cut off anywhere in its last record: of *)
(* what was written since, nothing is counted on.  At the next start       *)
(* WalkThrough goes over the files and stops at the first damage; the      *)
(* repair cuts the file there and removes the files after it.              *)
(***************************************************************************)
\* the record that begins at cell o + 1 of file f, or "error"
At(f, o) == IF o + 1 <= Size(f) /\ files[f][o + 1][2] = 1 /\ Whole(files, f, files[f][o + 1][1], o + HDR)
            THEN files[f][o + 1][1] ELSE "error"

\* the offsets WalkThrough comes to in a file: of the records, and of the end or damage
RECURSIVE Offsets(_, _)
Offsets(f, o) == IF At(f, o) = "error" THEN <<o>>
                 ELSE <<o>> \o Offsets(f, o + Cells[At(f, o)])

Stops(f) == Last(Offsets(f, 0))

Damaged(f) == Stops(f) < Size(f)

\* the files WalkThrough reads: up to the first one missing or damaged
Reads(f) == \A g \in 1..f : g \in DOMAIN files /\ (g < f => ~Damaged(g))

Walked == UNION {{<<At(f, o), <<f, o + HDR>>>> : o \in {p \in ToSet(Offsets(f, 0)) : At(f, p) # "error"}} :
                   f \in {g \in DOMAIN files : Reads(g)}}

\* the first place of a block in the files
WalkIndex == [r \in {w[1] : w \in Walked} |->
                LET P == {w[2] : w \in {v \in Walked : v[1] = r}}
                IN  CHOOSE p \in P : \A q \in P : p[1] < q[1] \/ (p[1] = q[1] /\ p[2] <= q[2])]

LastCell(f) == IF Size(f) = 0 THEN 0 ELSE Size(f) - files[f][Size(f)][2]

\* the next start: Initialize resets the cache
Down == /\ cache' = <<>> /\ index' = [r \in {} |-> <<1, 0>>] /\ temp' = None
        /\ mode' = "check" /\ faults' = faults + 1

Crash ==
    /\ faults < MaxFault /\ mode = "run"
    /\ \E f \in DOMAIN files : \E n \in LastCell(f)..Size(f) :
         /\ files' = [files EXCEPT ![f] = SubSeq(@, 1, n)]
         /\ done' = IF n = Size(f) THEN done
                    ELSE {r \in done \cap DOMAIN index :
                            index[r][1] < f \/ (index[r][1] = f /\ index[r][2] - HDR + Cells[r] <= n)}
    /\ Down /\ UNCHANGED nLastFile

\* the first file WalkThrough finds damaged
Bad == {f \in DOMAIN files : Reads(f) /\ Damaged(f)}

\* CTimeSeriesBase::Initialize
CountFiles(fs) == CHOOSE n \in 1..MaxFile + 1 : (\A g \in 2..n : g \in DOMAIN fs) /\ n + 1 \notin DOMAIN fs

\* WalkThrough: no damage, or damage it hands to RepairFile; TruncateFile first
\* renames the file
WalkThrough ==
    /\ mode = "check"
    /\ IF Bad = {} THEN mode' = "run" /\ index' = WalkIndex /\ UNCHANGED <<files, temp>>
       ELSE \E f \in Bad :
              /\ temp' = [file |-> f, offset |-> Stops(f), cells |-> files[f]]
              /\ mode' = IF Stops(f) > 0 THEN "truncate" ELSE "remove"
              /\ index' = WalkIndex
              /\ files' = IF Stops(f) > 0 THEN [g \in DOMAIN files \ {f} |-> files[g]] ELSE files
    /\ nLastFile' = IF Bad = {} THEN CountFiles(files) ELSE nLastFile
    /\ UNCHANGED <<cache, done, faults>>

TruncateShort ==
    /\ mode = "truncate" /\ mode' = "remove"
    /\ files' = [g \in DOMAIN files \cup {temp.file} |->
                   IF g = temp.file THEN SubSeq(temp.cells, 1, temp.offset - 1) ELSE files[g]]
    /\ UNCHANGED <<nLastFile, cache, index, done, temp, faults>>

\* the copy of the good part, and the end of the renamed file
TruncateFile ==
    /\ mode = "truncate" /\ mode' = "remove"
    /\ files' = [g \in DOMAIN files \cup {temp.file} |->
                   IF g = temp.file THEN SubSeq(temp.cells, 1, temp.offset) ELSE files[g]]
    /\ UNCHANGED <<nLastFile, cache, index, done, temp, faults>>

\* the files without a gap from b on
FollowUp(b) == {g \in DOMAIN files : b..g \subseteq DOMAIN files /\ g >= b}

RemoveFollowUpFile ==
    /\ mode = "remove"
    /\ \E fs \in {[g \in DOMAIN files \ FollowUp(IF temp.offset > 0 THEN temp.file + 1 ELSE temp.file) |-> files[g]]} :
         files' = fs /\ nLastFile' = CountFiles(fs)
    /\ mode' = "run" /\ temp' = None
    /\ UNCHANGED <<cache, index, done, faults>>

CrashRepairing ==
    /\ CrashInRepair /\ mode \in {"truncate", "remove"} /\ faults < MaxFault
    /\ Down /\ UNCHANGED <<files, nLastFile, done>>

Init == /\ files = [f \in {} |-> <<>>] /\ nLastFile = 1 /\ cache = <<>>
        /\ index = [r \in {} |-> <<1, 0>>] /\ done = {} /\ temp = None /\ mode = "run" /\ faults = 0

Next == \/ /\ mode = "run"
           /\ \/ \E r \in Rec \ DOMAIN index : Write(r) \/ \E n \in 1..MAX_FILE_SIZE : WriteFails(r, n)
              \/ \E r \in DOMAIN index : Read(r)
        \/ Crash \/ WalkThrough \/ TruncateFile \/ RemoveFollowUpFile \/ CrashRepairing

Spec == Init /\ [][Next]_vars
-----------------------------------------------------------------------------
\* No file grows past its limit, the cached records fit their stream, and no
\* place is cached twice.
TypeOK ==
    /\ DOMAIN files \subseteq 1..MaxFile /\ \A f \in DOMAIN files : Size(f) <= MAX_FILE_SIZE
    /\ FoldLeft(LAMBDA x, e : x + Cells[e.rec] + HDR, 0, cache) <= CacheSize
    /\ \A i, j \in 1..Len(cache) : cache[i].pos = cache[j].pos => i = j
    /\ index \in [DOMAIN index -> (1..MaxFile) \X Nat]

\* Check and repair keeps what was written: a block whose Write returned true,
\* with no loss before it, is found by the next walk over the files, after any
\* number of faults and repairs.
KeepsWritten == mode = "run" => done \subseteq {w[1] : w \in Walked}

\* While the node runs, its index is what a walk over the files would give:
\* the repair leaves no damage and no record of a file it should have removed.
WalkAgrees == mode = "run" => Bad = {} /\ WalkIndex = index

\* A block is read back as it was written, from the cache or from its file,
\* also when its place held another block before a repair.
ReadBack == mode = "run" => \A r \in DOMAIN index : Result(r) = r
=============================================================================
