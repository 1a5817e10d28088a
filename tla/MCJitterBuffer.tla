---------------------------- MODULE MCJitterBuffer ----------------------------
(***************************************************************************)
(* Instances of the ring for TLC: streams that start just before the wrap  *)
(* of the sequence numbers.                                                *)
(***************************************************************************)
EXTENDS JitterBuffer

\* Streams that start just before the wrap of the sequence numbers.
NearWrap == {SeqMod - 1}
===============================================================================
