------------------------------ MODULE Circular ------------------------------
(***************************************************************************)
(* circularbuf of src/src/xengine/stream/circular.cpp and CCircularStream  *)
(* over it, in which CTimeSeriesCached keeps the blocks read last.  A      *)
(* streambuf reads from gptr up to egptr and writes from pptr up to epptr; *)
(* only at these ends does it call underflow and overflow, which move the  *)
(* ends on or around.  The ends are left where they are by the other       *)
(* operations and may be stale.                                            *)
(***************************************************************************)
EXTENDS Integers, Sequences

CONSTANTS BufSize,    \* buf_size_, a power of two
          Byte, Eof,
          SeekFailed        \* Seek returned false

VARIABLES buf, begin, gptr, egptr, pptr, epptr, out

bufVars == <<buf, begin, gptr, egptr, pptr, epptr, out>>

SizeAssumption == BufSize \in Nat \ {0, 1} /\ {Eof, SeekFailed} \cap Byte = {} /\ Eof # SeekFailed

\* & size_mask_
Mask(x) == x % BufSize

size == Mask(pptr - begin)
ppos == Mask(pptr)
gpos == Mask(gptr)

BufInit == /\ buf = [i \in 0..BufSize - 1 |-> Eof]
        /\ begin = 0 /\ gptr = 0 /\ egptr = 0 /\ pptr = 0 /\ epptr = BufSize - 1 /\ out = Eof

setg(g, e) == gptr' = g /\ egptr' = e

\* sputc: within the put area, or through overflow
PutInside(c) ==
    /\ pptr < epptr
    /\ buf' = [buf EXCEPT ![pptr] = c] /\ pptr' = pptr + 1 /\ out' = c
    /\ UNCHANGED <<begin, gptr, egptr, epptr>>

overflow(c) ==
    LET pend == Mask(begin - 1)
    IN  /\ pptr = epptr
        /\ IF ppos = pend THEN out' = Eof /\ UNCHANGED <<buf, pptr, epptr>>
           ELSE /\ epptr' = IF ppos > pend THEN BufSize ELSE pend
                /\ buf' = [buf EXCEPT ![ppos] = c] /\ pptr' = ppos + 1 /\ out' = c
        /\ UNCHANGED <<begin, gptr, egptr>>

\* sbumpc: within the get area, or through underflow
GetInside ==
    /\ gptr < egptr
    /\ out' = buf[gptr] /\ gptr' = gptr + 1
    /\ UNCHANGED <<buf, begin, egptr, pptr, epptr>>

underflow ==
    /\ gptr = egptr
    /\ IF gpos = ppos THEN out' = Eof /\ UNCHANGED <<gptr, egptr>>
       ELSE setg(gpos + 1, IF gpos < ppos THEN ppos ELSE BufSize) /\ out' = buf[gpos]
    /\ UNCHANGED <<buf, begin, pptr, epptr>>

InLive(b, g) == IF ppos >= b THEN b <= g /\ g <= ppos ELSE g >= b \/ g <= ppos

\* CCircularStream::Seek with a place of the buffer, and Rewind
seekpos(g) ==
    /\ IF InLive(begin, g) THEN setg(g, IF g <= ppos THEN ppos ELSE BufSize) /\ UNCHANGED out
       ELSE out' = SeekFailed /\ UNCHANGED <<gptr, egptr>>
    /\ UNCHANGED <<buf, begin, pptr, epptr>>

Rewind ==
    /\ setg(begin, IF begin <= ppos THEN ppos ELSE BufSize)
    /\ UNCHANGED <<buf, begin, pptr, epptr, out>>

consumeKeepsGet(n) ==
    /\ begin' = IF n >= size THEN ppos ELSE Mask(begin + n)
    /\ UNCHANGED <<buf, gptr, egptr, pptr, epptr, out>>

consume(n) ==
    /\ begin' = IF n >= size THEN ppos ELSE Mask(begin + n)
    /\ IF InLive(begin', gpos) THEN UNCHANGED <<gptr, egptr>>
       ELSE setg(begin', IF begin' <= ppos THEN ppos ELSE BufSize)
    /\ UNCHANGED <<buf, pptr, epptr, out>>

BufNext == \/ \E c \in Byte : PutInside(c) \/ overflow(c)
        \/ GetInside \/ underflow
        \/ \E g \in 0..BufSize - 1 : seekpos(g)
        \/ \E n \in 0..BufSize : consume(n)
        \/ Rewind

BufSpec == BufInit /\ [][BufNext]_bufVars
-----------------------------------------------------------------------------
(***************************************************************************)
(* The abstract queue.                                                     *)
(***************************************************************************)
Live == [i \in 1..size |-> buf[Mask(begin + i - 1)]]

Q == INSTANCE ByteQueue WITH Cap <- BufSize - 1, live <- Live, rpos <- Mask(gpos - begin)

\* However the ends of the two areas lie, wrapped around, stale after a consume
\* or met by the other pointer, the buffer is a queue of bytes: each read gives
\* the byte written there, nothing live is overwritten, a consumed place cannot
\* be sought, and a byte is refused only when the buffer is full.
IsQueue == Q!QSpec

\* The pointers stay in the buffer; the areas hold live bytes to read, and free
\* places to write.
BufOK ==
    /\ begin \in 0..BufSize - 1 /\ gptr \in 0..BufSize /\ pptr \in 0..BufSize
    /\ gptr <= egptr /\ egptr <= BufSize /\ pptr <= epptr /\ epptr <= BufSize
    /\ \A i \in gptr..egptr - 1 : Mask(i - begin) < size
    /\ \A i \in pptr..epptr - 1 : Mask(i - begin) >= size /\ Mask(i - begin) < BufSize - 1
=============================================================================
