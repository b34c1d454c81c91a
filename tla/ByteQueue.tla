----------------------------- MODULE ByteQueue -----------------------------
(***************************************************************************)
(* What a stream over a circular buffer promises: a queue of at most Cap   *)
(* bytes, written at its end, consumed at its front, and read from a place *)
(* of its own, which can be put anywhere in the queue.                     *)
(***************************************************************************)
EXTENDS Integers, Sequences

CONSTANTS Cap, Byte, Eof, SeekFailed

VARIABLES live,   \* the bytes not yet consumed
          rpos,   \* how many of them lie before the place of the next read
          out     \* the result of the last operation

QInit == live = <<>> /\ rpos = 0 /\ out = Eof

QPut(c) == IF Len(live) < Cap
           THEN live' = Append(live, c) /\ out' = c /\ UNCHANGED rpos
           ELSE out' = Eof /\ UNCHANGED <<live, rpos>>

QGet == /\ UNCHANGED live
        /\ IF rpos < Len(live) THEN out' = live[rpos + 1] /\ rpos' = rpos + 1
           ELSE out' = Eof /\ UNCHANGED rpos

QSeek(i) == i \in 0..Len(live) /\ rpos' = i /\ UNCHANGED <<live, out>>

\* a place that has been consumed cannot be sought
QSeekFails == UNCHANGED <<live, rpos>> /\ out' = SeekFailed

QConsume(n) == /\ live' = SubSeq(live, n + 1, Len(live))
               /\ rpos' = IF rpos > n THEN rpos - n ELSE 0
               /\ UNCHANGED out

QNext == \/ \E c \in Byte : QPut(c)
         \/ QGet
         \/ \E i \in 0..Cap : QSeek(i)
         \/ QSeekFails
         \/ \E n \in 0..Cap : QConsume(n)

QSpec == QInit /\ [][QNext]_<<live, rpos, out>>
=============================================================================
