------------------------------ MODULE LevelLog ------------------------------
(***************************************************************************)
(* The log files of leveldb: log::Writer and log::Reader of                *)
(* src/src/leveldb/db/log_writer.cc and log_reader.cc.  Records are cut    *)
(* into fragments that do not cross the blocks of the file; the reader     *)
(* puts them together again, and drops what a crash or a failed write left *)
(* behind.                                                                 *)
(*                                                                         *)
(* A file is a sequence of cells.  Every cell of a fragment, of its header *)
(* or of its data, is [r, o, t, n, i]: cell i of the fragment of type t    *)
(* with the n data cells of record r from the o-th on.  A checksum that    *)
(* matches is the cells of the fragment in their order.                    *)
(***************************************************************************)
EXTENDS Integers, Sequences, FiniteSets, SequencesExt

CONSTANTS kBlockSize, kHeaderSize,
          Sizes,        \* the sizes of records
          MaxRecord,    \* bound: records
          CanFail       \* a write to the file may stop short

VARIABLES file,
          block_offset_,
          sizes,        \* record -> its size
          added,        \* the records whose AddRecord returned OK
          torn          \* a write has stopped short

vars == <<file, block_offset_, sizes, added, torn>>

BlockAssumption == kHeaderSize \in Nat /\ kBlockSize \in Nat /\ kHeaderSize > 0 /\ kHeaderSize < kBlockSize

Zero == [r |-> 0, o |-> 0, t |-> "zero", n |-> 0, i |-> 0]

Fragment(r, o, t, n) == [i \in 1..kHeaderSize + n |-> [r |-> r, o |-> o, t |-> t, n |-> n, i |-> i]]

TypeOf(begin, end) == IF begin THEN (IF end THEN "full" ELSE "first") ELSE IF end THEN "last" ELSE "middle"
-----------------------------------------------------------------------------
(***************************************************************************)
(* The writer.                                                             *)
(***************************************************************************)
\* what AddRecord appends when it is at offset bo of a block with data from o on
\* to go: <<the pieces, the block offset after each>>
RECURSIVE Pieces(_, _, _, _)
Pieces(r, size, o, bo) ==
    LET left == kBlockSize - bo
        pad  == IF left < kHeaderSize THEN [i \in 1..left |-> Zero] ELSE <<>>
        b    == IF left < kHeaderSize THEN 0 ELSE bo
        n    == IF size - o < kBlockSize - b - kHeaderSize THEN size - o ELSE kBlockSize - b - kHeaderSize
        rec  == [cells |-> pad \o Fragment(r, o, TypeOf(o = 0, o + n = size), n), boff |-> b + kHeaderSize + n]
    IN  IF o + n = size THEN <<rec>> ELSE <<rec>> \o Pieces(r, size, o + n, rec.boff)

Cells(P) == FlattenSeq([i \in 1..Len(P) |-> P[i].cells])

AddRecord(size) ==
    \E P \in {Pieces(Len(sizes) + 1, size, 0, block_offset_)} :
        /\ Len(sizes) < MaxRecord
        /\ file' = file \o Cells(P) /\ block_offset_' = Last(P).boff
        /\ sizes' = Append(sizes, size) /\ added' = added \cup {Len(sizes) + 1}
        /\ UNCHANGED torn

\* a fragment is written only in part: AddRecord returns the error, and the
\* writer goes on as if the fragment were there
AddRecordFails(size) ==
    \E P \in {Pieces(Len(sizes) + 1, size, 0, block_offset_)} :
    \E j \in 1..Len(P) : \E k \in 0..Len(P[j].cells) - 1 :
        /\ CanFail /\ ~torn /\ Len(sizes) < MaxRecord
        /\ file' = file \o Cells(SubSeq(P, 1, j - 1)) \o SubSeq(P[j].cells, 1, k)
        /\ block_offset_' = P[j].boff
        /\ sizes' = Append(sizes, size) /\ torn' = TRUE
        /\ UNCHANGED added
-----------------------------------------------------------------------------
(***************************************************************************)
(* The reader.                                                             *)
(***************************************************************************)
\* the fragment at offset p of f is whole and its checksum matches
Matches(f, p, e) ==
    /\ f[p + 1].i = 1 /\ p + kHeaderSize + f[p + 1].n <= e
    /\ SubSeq(f, p + 1, p + kHeaderSize + f[p + 1].n) = Fragment(f[p + 1].r, f[p + 1].o, f[p + 1].t, f[p + 1].n)

\* the length that a header at offset p shows: that of the fragment when the
\* header is whole, any otherwise; a longer one than the block is a bad record
\* too, or the end
LengthFits(f, p, e) == f[p + 1].t = "zero" \/ f[p + 1].i # 1 \/ p + kHeaderSize + f[p + 1].n <= e

\* a mutant that leaves the loop at a trailer
ReadStopsAtTrailer(f, p) ==
    LET blk  == (p \div kBlockSize) * kBlockSize
        e    == IF blk + kBlockSize < Len(f) THEN blk + kBlockSize ELSE Len(f)
        eof  == blk + kBlockSize > Len(f)
    IN  IF e - p < kHeaderSize THEN [type |-> "eof", pos |-> e]
        ELSE IF ~LengthFits(f, p, e) THEN [type |-> IF eof THEN "eof" ELSE "bad", pos |-> e]
        ELSE IF Matches(f, p, e) THEN [type |-> f[p + 1].t, pos |-> p + kHeaderSize + f[p + 1].n]
        ELSE [type |-> "bad", pos |-> e]

\* ReadPhysicalRecord at offset p: what it returns, and where it is then.  e is
\* the end of the block or file.
ReadPhysicalRecord(f, p) ==
    LET blk  == (p \div kBlockSize) * kBlockSize
        e    == IF blk + kBlockSize < Len(f) THEN blk + kBlockSize ELSE Len(f)
        eof  == blk + kBlockSize > Len(f)
    IN  IF e - p < kHeaderSize
        THEN [type |-> IF eof THEN "eof" ELSE "next", pos |-> e]
        ELSE IF ~LengthFits(f, p, e) THEN [type |-> IF eof THEN "eof" ELSE "bad", pos |-> e]
        ELSE IF Matches(f, p, e) THEN [type |-> f[p + 1].t, pos |-> p + kHeaderSize + f[p + 1].n]
        ELSE [type |-> "bad", pos |-> e]

NoScratch == <<>>

\* the record in progress after the first fragment of another
Begin(scratch, frag) == <<frag>>

\* ReadRecord over the whole file: the records it returns, as sequences of
\* fragments.  scratch is the record it is in, NoScratch when it is in none.
RECURSIVE ReadFrom(_, _, _)
ReadFrom(f, p, scratch) ==
    LET x    == ReadPhysicalRecord(f, p)
        frag == <<f[p + 1].r, f[p + 1].o, f[p + 1].n>>
    IN  CASE x.type = "eof"    -> <<>>
          [] x.type = "next"   -> ReadFrom(f, x.pos, scratch)
          [] x.type = "bad"    -> ReadFrom(f, x.pos, NoScratch)
          [] x.type = "full"   -> <<<<frag>>>> \o ReadFrom(f, x.pos, NoScratch)
          [] x.type = "first"  -> ReadFrom(f, x.pos, Begin(scratch, frag))
          [] x.type = "middle" -> ReadFrom(f, x.pos, IF scratch = NoScratch THEN NoScratch ELSE Append(scratch, frag))
          [] x.type = "last"   -> IF scratch = NoScratch THEN ReadFrom(f, x.pos, NoScratch)
                                  ELSE <<Append(scratch, frag)>> \o ReadFrom(f, x.pos, NoScratch)

Records(f) == ReadFrom(f, 0, NoScratch)

Init == file = <<>> /\ block_offset_ = 0 /\ sizes = <<>> /\ added = {} /\ torn = FALSE

Next == \E size \in Sizes : AddRecord(size) \/ AddRecordFails(size)

Spec == Init /\ [][Next]_vars
-----------------------------------------------------------------------------
\* a record the reader returns, put together from the fragments of one record
Whole(rec) ==
    /\ \A j \in 1..Len(rec) : rec[j][1] = rec[1][1]
    /\ rec[1][2] = 0 /\ \A j \in 2..Len(rec) : rec[j][2] = rec[j - 1][2] + rec[j - 1][3]
    /\ Last(rec)[2] + Last(rec)[3] = sizes[rec[1][1]]

Found(f) == [j \in 1..Len(Records(f)) |-> Records(f)[j][1][1]]

\* The place in the block that the writer keeps is the place in the file: no
\* fragment crosses a block, and no header begins in a trailer.
TypeOK ==
    /\ ~torn => Len(file) % kBlockSize = block_offset_ % kBlockSize
    /\ block_offset_ \in 0..kBlockSize
    /\ ~torn => \A p \in 1..Len(file) : file[p].i = 1 =>
         ((p - 1) % kBlockSize) + kHeaderSize + file[p].n <= kBlockSize

\* Wherever a crash cuts the file off, the reader returns exactly the records
\* that are whole before the cut, in the order they were added, and reports no
\* error that would make it lose one.
ReadsPrefix ==
    ~torn => \A c \in 0..Len(file) :
        LET f == SubSeq(file, 1, c)
            n == Cardinality({r \in 1..Len(sizes) : \A j \in c + 1..Len(file) : file[j].r # r})
        IN  /\ Found(f) = [r \in 1..n |-> r]
            /\ \A j \in 1..Len(Records(f)) : Whole(Records(f)[j])

\* Whatever a failed write left in the file, the reader returns only records
\* that were added, whole and in order, never one put together from the
\* fragments of two; and it returns every record that was added before.
NeverMixed ==
    \A c \in 0..Len(file) :
        LET R == Records(SubSeq(file, 1, c))
        IN  /\ \A j \in 1..Len(R) : Whole(R[j])
            /\ \A j, k \in 1..Len(R) : j < k => R[j][1][1] < R[k][1][1]
            /\ \A r \in added :
                 (\A x \in 1..Len(sizes) : x \notin added => r < x) /\ (\A p \in c + 1..Len(file) : file[p].r # r)
                   => \E j \in 1..Len(R) : R[j][1][1] = r

=============================================================================
