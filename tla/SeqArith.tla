------------------------------- MODULE SeqArith -------------------------------
(***************************************************************************)
(* Arithmetic on RTP sequence numbers: seq_t is a 16-bit counter that      *)
(* wraps, and BUFIDX maps a number to a slot of the ring (player.h 12-18,  *)
(* player.c 76-86 and 103-108).  The width and the ring's size are         *)
(* constants: 65536 and 512 in the program.                                *)
(***************************************************************************)
EXTENDS Integers

CONSTANTS SeqMod,        \* how many sequence numbers there are (2^16)
          BufferFrames   \* BUFFER_FRAMES, slots of the ring

\* "needs to be a power of 2 because of the way BUFIDX(seqno) works": what
\* BUFIDX needs is that the ring's size divides the number of sequence numbers.
ASSUME SeqAssumption ==
    /\ SeqMod \in Nat \ {0} /\ SeqMod % 2 = 0
    /\ BufferFrames \in Nat \ {0} /\ SeqMod % BufferFrames = 0

Half  == SeqMod \div 2
Seqs  == 0 .. SeqMod - 1
Slots == 0 .. BufferFrames - 1

\* a + n stored in a seq_t
SeqAdd(a, n) == (a + n) % SeqMod

\* The distance from a to b, read back as an int16_t as every caller does.
seq_diff(a, b) == LET d == (b - a) % SeqMod
                  IN  IF d < Half THEN d ELSE d - SeqMod

\* b is after a
seq_order(a, b) == seq_diff(a, b) > 0

BUFIDX(seqno) == seqno % BufferFrames
===============================================================================
