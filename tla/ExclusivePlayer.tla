--------------------------- MODULE ExclusivePlayer ---------------------------
(***************************************************************************)
(* What the RTSP side promises about the player: it has at most one owner, *)
(* it streams only for an owner, and it is idle when ownership changes.    *)
(***************************************************************************)
CONSTANTS Threads, NoOne

VARIABLES owner, streaming

Init == owner = NoOne /\ streaming = FALSE

Acquire(t) == owner = NoOne /\ owner' = t /\ UNCHANGED streaming
Start      == owner # NoOne /\ ~streaming /\ streaming' = TRUE /\ UNCHANGED owner
Stop       == streaming /\ streaming' = FALSE /\ UNCHANGED owner
Release    == ~streaming /\ owner' = NoOne /\ UNCHANGED streaming

Next == (\E t \in Threads : Acquire(t)) \/ Start \/ Stop \/ Release

Spec == Init /\ [][Next]_<<owner, streaming>>
===============================================================================
