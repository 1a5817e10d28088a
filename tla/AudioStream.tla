----------------------------- MODULE AudioStream -----------------------------
(***************************************************************************)
(* What the player promises for a stream whose packets come in order, some *)
(* lost and none late, to a player that keeps up: position after position  *)
(* is played once, with its own frame if that was received and as silence  *)
(* if it was lost, which shows only once a later one is here.  Between two *)
(* positions there may be any amount of silence.  A stream that arrives    *)
(* whole is played whole.                                                  *)
(***************************************************************************)
EXTENDS SeqArith

CONSTANTS NoSeq, Silence

VARIABLES due,   \* the next position to play, NoSeq before the stream starts
          here,  \* the positions received and not yet played
          out    \* the frame last given to the output, and its position

NoFrame == [pos |-> NoSeq, frame |-> Silence]

Init == due = NoSeq /\ here = {} /\ out = NoFrame

\* The first packet decides where the stream begins.
Begin == /\ due = NoSeq
         /\ due' \in Seqs /\ here' = {due'}
         /\ UNCHANGED out

Receive == /\ due # NoSeq
           /\ \E p \in Seqs \ here : here' = here \cup {p}
           /\ UNCHANGED <<due, out>>

Play == /\ due # NoSeq
        /\ \E p \in here : p = due \/ seq_order(due, p)
        /\ out' = [pos |-> due, frame |-> IF due \in here THEN due ELSE Silence]
        /\ due' = SeqAdd(due, 1)
        /\ here' = here \ {due}

Pause == out' = NoFrame /\ UNCHANGED <<due, here>>

Next == Begin \/ Receive \/ Play \/ Pause

Spec == Init /\ [][Next]_<<due, here, out>>
===============================================================================
