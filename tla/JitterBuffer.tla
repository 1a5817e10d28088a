----------------------------- MODULE JitterBuffer -----------------------------
(***************************************************************************)
(* The ring of decoded frames between the RTP receiver thread, which calls *)
(* player_put_packet, the player thread, which calls buffer_get_frame, and *)
(* the RTSP conversation, which calls player_flush (player.c).             *)
(*                                                                         *)
(* A step is what one thread does between two points where another thread  *)
(* can see or change what it uses: ab_mutex protects the cursors, and the  *)
(* slots' data and ready flags are also touched without it.                *)
(***************************************************************************)
EXTENDS SeqArith

CONSTANTS StartFill,       \* config.buffer_start_fill
          FirstLookahead,  \* distance of the first last-chance check (16)
          StartSeqs,       \* first sequence numbers a stream may have
          Ahead, Behind,   \* how far from ab_write a packet may be
          MaxLead,         \* the sender sends new packets while fill < MaxLead
          MaxFlushes       \* bound on player_flush calls

CONSTANTS NoSeq, Silence, Torn, Garbage   \* model values

ASSUME JitterAssumption ==
    /\ BufferFrames < Half
    /\ StartFill \in 1 .. BufferFrames
    /\ FirstLookahead \in Nat \ {0}
    /\ StartSeqs \subseteq Seqs
    /\ Ahead \in 1 .. Half - 1 /\ Behind \in 0 .. Half
    /\ MaxLead \in Nat /\ MaxFlushes \in Nat
    /\ {NoSeq, Silence, Torn, Garbage} \cap Seqs = {}
    /\ Silence # Torn /\ Silence # Garbage /\ Torn # Garbage

\* What a slot's data can hold: the frame of some packet, the zeros of a
\* missing frame, a mixture, or what malloc returned.
Frames == Seqs \cup {Silence, Torn, Garbage}

VARIABLES
    ab_read, ab_write, ab_synced, ab_buffering,   \* under ab_mutex
    audio_buffer,   \* slot -> [ready, frame], half under ab_mutex
    rpc,            \* receiver: "idle", "decode", "mark" or "second"
    rseq, rfill,    \* receiver: seqno and buf_fill of player_put_packet
    rclash,         \* the slot was zeroed while the receiver was filling it
    ppc,            \* player: "poll", "take", "clear" (has ab_mutex) or "copy"
    cur,            \* player: the position taken from the ring
    out,            \* the frame last given to the output, and its position
    unasked,        \* positions skipped by ab_write and never asked for
    flushes         \* player_flush calls so far

cursors  == <<ab_read, ab_write, ab_synced>>
receiver == <<rpc, rseq, rfill, rclash>>
player   == <<ppc, cur, out>>
vars == <<cursors, ab_buffering, audio_buffer, receiver, player, unasked, flushes>>

-----------------------------------------------------------------------------
\* player_play: init_buffer, then the player thread starts.
Init ==
    /\ ab_read = 0 /\ ab_write = 0
    /\ ab_synced = FALSE /\ ab_buffering = TRUE
    /\ audio_buffer = [i \in Slots |-> [ready |-> FALSE, frame |-> Garbage]]
    /\ rpc = "idle" /\ rseq = NoSeq /\ rfill = 0 /\ rclash = FALSE
    /\ ppc = "poll" /\ cur = NoSeq
    /\ out = [pos |-> NoSeq, frame |-> Silence]
    /\ unasked = {} /\ flushes = 0

\* ab_mutex is free unless the player is between its two updates of the ring.
MutexFree == ppc # "clear"

\* The positions a resend request for first..last names: it carries a count.
\* Mutant: last - first sent as the count.
ResendRangeShort(first, last) ==
    {SeqAdd(first, i) : i \in 0 .. (SeqAdd(last, 1 - first) - 2)}
ResendRange(first, last) ==
    {SeqAdd(first, i) : i \in 0 .. (SeqAdd(last, 1 - first) - 1)}

-----------------------------------------------------------------------------
\* The network: a packet the receiver can be handed now.  Once synchronised,
\* anything from Behind to Ahead of the newest; packets ahead are paced.
Arrives(seqno) ==
    IF ab_synced
    THEN /\ seqno \in {SeqAdd(ab_write, d) : d \in -Behind .. Ahead}
         /\ seq_order(ab_write, seqno) => seq_diff(ab_read, ab_write) < MaxLead
    ELSE seqno \in StartSeqs

\* player_put_packet up to the first unlock: where the packet belongs.
\* first/newest are the cursors after synchronising to a first packet.
PutPacket(seqno) ==
    /\ rpc = "idle" /\ MutexFree /\ Arrives(seqno)
    /\ LET read   == IF ab_synced THEN ab_read ELSE seqno
           newest == IF ab_synced THEN ab_write ELSE SeqAdd(seqno, -1)
           expected == seq_diff(newest, seqno) = 1
           newer    == ~expected /\ seq_order(newest, seqno)
           write    == IF expected \/ newer THEN seqno ELSE newest
           late     == ~expected /\ ~newer /\ seq_order(read, seqno)
           skipped  == {SeqAdd(newest, i) : i \in 1 .. seq_diff(newest, seqno) - 1}
           asked    == IF newer
                       THEN ResendRange(SeqAdd(newest, 1), SeqAdd(seqno, -1))
                       ELSE {}
       IN  /\ ab_read' = read /\ ab_write' = write /\ ab_synced' = TRUE
           /\ rseq' = seqno
           /\ rfill' = seq_diff(read, write)
           /\ rpc' = IF expected \/ newer \/ late THEN "decode" ELSE "second"
           /\ unasked' = ((IF ab_synced THEN unasked \ {seqno} ELSE {})
                             \cup (IF newer THEN skipped ELSE {})) \ asked
    /\ UNCHANGED <<ab_buffering, audio_buffer, rclash, player, flushes>>

\* alac_decode into the slot, without the lock.  The data is a mixture if the
\* player zeroed the slot meanwhile, or the packet's frame.
Decode ==
    /\ rpc = "decode"
    /\ \E f \in {rseq} \cup (IF rclash THEN {Torn} ELSE {}) :
          audio_buffer' = [audio_buffer EXCEPT ![BUFIDX(rseq)].frame = f]
    /\ rpc' = "mark" /\ rclash' = FALSE
    /\ UNCHANGED <<cursors, ab_buffering, rseq, rfill, player, unasked, flushes>>

\* abuf->ready = 1, without the lock.
MarkReady ==
    /\ rpc = "mark"
    /\ audio_buffer' = [audio_buffer EXCEPT ![BUFIDX(rseq)].ready = TRUE]
    /\ rpc' = "second"
    /\ UNCHANGED <<cursors, ab_buffering, rseq, rfill, rclash, player, unasked, flushes>>

\* Mutant: the fill must hit the mark exactly.
FullEnoughExactly == rfill = StartFill
FullEnough == rfill >= StartFill

\* player_put_packet's second critical section: buffering may be over, going
\* by the fill of the first one.
FinishPut ==
    /\ rpc = "second" /\ MutexFree
    /\ ab_buffering' = (ab_buffering /\ ~FullEnough)
    /\ rpc' = "idle" /\ rseq' = NoSeq /\ rfill' = 0
    /\ UNCHANGED <<cursors, audio_buffer, rclash, player, unasked, flushes>>

-----------------------------------------------------------------------------
\* The loop of player_thread_func and the unlocked test at the top of
\* buffer_get_frame: silence while buffering.
PollBuffering ==
    /\ ppc = "poll"
    /\ IF ab_buffering
       THEN /\ out' = [pos |-> NoSeq, frame |-> Silence]
            /\ UNCHANGED ppc
       ELSE /\ ppc' = "take" /\ UNCHANGED out
    /\ UNCHANGED <<cursors, ab_buffering, audio_buffer, receiver, cur, unasked, flushes>>

\* Mutant: the newest packet counts as ready to play.
NothingToPlayButNone == seq_diff(ab_read, ab_write) < 0 \/ ~ab_synced
NothingToPlay == seq_diff(ab_read, ab_write) < 1 \/ ~ab_synced

\* Nothing to play, or a flush came first: back to buffering, play silence.
Underrun ==
    /\ ppc = "take" /\ NothingToPlay
    /\ ab_buffering' = TRUE
    /\ out' = [pos |-> NoSeq, frame |-> Silence]
    /\ ppc' = "poll"
    /\ UNCHANGED <<cursors, audio_buffer, receiver, cur, unasked, flushes>>

\* Mutants: overruns are not noticed; anything above StartFill is one.
NextReadNoOverrun == ab_read
NextReadEager ==
    IF seq_diff(ab_read, ab_write) >= StartFill
    THEN SeqAdd(ab_write, -StartFill + 1)
    ELSE ab_read

\* Where the next frame is read: an overrun restarts at a sane distance.
NextRead ==
    IF seq_diff(ab_read, ab_write) >= BufferFrames
    THEN SeqAdd(ab_write, -StartFill)
    ELSE ab_read

\* The last-chance check: distances 16, 32, 64... below StartFill / 2 from
\* the new ab_read whose slots are not ready are asked for again.
Lookahead == {j \in 1 .. (StartFill \div 2) - 1 :
                 \E n \in 0 .. StartFill : j = FirstLookahead * 2^n}
LastChance(read) ==
    {p \in {SeqAdd(read, i) : i \in Lookahead} : ~ audio_buffer[BUFIDX(p)].ready}

\* buffer_get_frame: advance the cursor, ask for what is missing ahead, and
\* zero the frame if it is missing.  ab_mutex stays held.
TakeFrame ==
    /\ ppc = "take" /\ ~NothingToPlay
    /\ cur' = NextRead
    /\ ab_read' = SeqAdd(NextRead, 1)
    /\ unasked' = IF ab_buffering THEN unasked ELSE unasked \ LastChance(ab_read')
    /\ LET missing == ~ audio_buffer[BUFIDX(cur')].ready
       IN  /\ audio_buffer' = IF missing
                THEN [audio_buffer EXCEPT ![BUFIDX(cur')].frame = Silence]
                ELSE audio_buffer
           /\ rclash' = (rclash \/ /\ missing /\ rpc = "decode"
                                   /\ BUFIDX(rseq) = BUFIDX(cur'))
    /\ ppc' = "clear"
    /\ UNCHANGED <<ab_write, ab_synced, ab_buffering, rpc, rseq, rfill, out, flushes>>

\* Mutant: the slot stays ready once its frame is taken.
ClearReadyNot ==
    /\ ppc = "clear"
    /\ ppc' = "copy"
    /\ UNCHANGED <<cursors, ab_buffering, audio_buffer, receiver, cur, out, unasked, flushes>>

\* curframe->ready = 0 and unlock.
ClearReady ==
    /\ ppc = "clear"
    /\ audio_buffer' = [audio_buffer EXCEPT ![BUFIDX(cur)].ready = FALSE]
    /\ ppc' = "copy"
    /\ UNCHANGED <<cursors, ab_buffering, receiver, cur, out, unasked, flushes>>

\* stuff_buffer reads the slot without the lock and the output plays the copy.
PlayFrame ==
    /\ ppc = "copy"
    /\ \E f \in {audio_buffer[BUFIDX(cur)].frame}
                \cup (IF rpc = "decode" /\ BUFIDX(rseq) = BUFIDX(cur)
                      THEN {Torn} ELSE {}) :
          out' = [pos |-> cur, frame |-> f]
    /\ ppc' = "poll" /\ cur' = NoSeq
    /\ UNCHANGED <<cursors, ab_buffering, audio_buffer, receiver, unasked, flushes>>

-----------------------------------------------------------------------------
\* player_flush: ab_resync under the lock.
Flush ==
    /\ flushes < MaxFlushes /\ MutexFree
    /\ flushes' = flushes + 1
    /\ audio_buffer' = [i \in Slots |-> [audio_buffer[i] EXCEPT !.ready = FALSE]]
    /\ ab_synced' = FALSE
    /\ ab_buffering' = TRUE
    /\ UNCHANGED <<ab_read, ab_write, receiver, player, unasked>>

ReceiverStep == (\E seqno \in Seqs : PutPacket(seqno)) \/ Decode \/ MarkReady \/ FinishPut
PlayerStep   == PollBuffering \/ Underrun \/ TakeFrame \/ ClearReady \/ PlayFrame

Next == ReceiverStep \/ PlayerStep \/ Flush

Spec == Init /\ [][Next]_vars

\* Both threads keep running, and however many duplicates and late packets the
\* network delivers, it keeps delivering new ones.
NewPacket == \E seqno \in Seqs : PutPacket(seqno) /\ ab_write' # ab_write
FairSpec == /\ Spec
            /\ WF_vars(ReceiverStep) /\ WF_vars(PlayerStep)
            /\ SF_vars(NewPacket)

-----------------------------------------------------------------------------
\* The ring's state is well formed, and the player holds ab_mutex only with a
\* position in hand and a synchronised ring.
TypeOK ==
    /\ ab_read \in Seqs /\ ab_write \in Seqs
    /\ ab_synced \in BOOLEAN /\ ab_buffering \in BOOLEAN
    /\ audio_buffer \in [Slots -> [ready : BOOLEAN, frame : Frames]]
    /\ rpc \in {"idle", "decode", "mark", "second"}
    /\ rseq \in Seqs \cup {NoSeq} /\ rfill \in -Half .. Half - 1
    /\ rclash \in BOOLEAN
    /\ rpc # "idle" => rseq \in Seqs
    /\ ppc \in {"poll", "take", "clear", "copy"}
    /\ cur \in Seqs \cup {NoSeq}
    /\ ppc \in {"clear", "copy"} => cur \in Seqs
    /\ ppc = "clear" => ab_synced
    /\ out \in [pos : Seqs \cup {NoSeq}, frame : Frames]
    /\ unasked \in SUBSET Seqs /\ flushes \in 0 .. MaxFlushes

\* When buffer_get_frame hands a slot out, that slot is not the one of the
\* newest packet, which the receiver may still be decoding into: this is why
\* a fill below 1 is an underrun and why an overrun restarts StartFill back.
TakenIsNotNewest == ppc = "clear" => BUFIDX(cur) # BUFIDX(ab_write)

\* Every position that the newest-packet cursor has skipped was asked for by
\* the resend request of player_put_packet.
GapsAskedFor == ab_synced => unasked = {}

\* Within one synchronised stretch the cursors only move forward, and
\* whenever the player's cursor moves it is left less than a ring behind the
\* receiver's and not past it, over wraps, gaps, late packets and overruns.
CursorsForward ==
    [][ab_synced /\ ab_synced' =>
         /\ seq_diff(ab_write, ab_write') >= 0
         /\ ab_read' # ab_read =>
               /\ seq_diff(ab_read, ab_read') > 0
               /\ seq_diff(ab_read', ab_write') \in 0 .. BufferFrames - 1]_vars

\* The last-chance check asks for every position it looks at whose frame is
\* not there: "packets have arrived... last-chance resend" (player.c 370).
LastChanceTaken ==
    [][ppc = "take" /\ ppc' = "clear" /\ ~ab_buffering =>
         \A i \in Lookahead :
            LET p == SeqAdd(ab_read', i)
            IN  audio_buffer[BUFIDX(p)].frame = p \/ p \in LastChance(ab_read')]_vars

\* Buffering does not last: while packets keep coming, output (re)starts.
Rebuffers == []<>(~ab_buffering)

\* The positions whose frame is received and not yet played: in the ring,
\* being decoded, or taken by the player.
Received ==
    {p \in Seqs : LET slot == audio_buffer[BUFIDX(p)]
                  IN  slot.frame = p /\ (slot.ready \/ (ppc = "copy" /\ p = cur))}
    \cup (IF rpc \in {"decode", "mark"} THEN {rseq} ELSE {})

\* Without overruns, late packets and flushes the ring is a stream in which
\* every position is played once, in order, and no frame that was received is
\* lost, repeated or played at another's place (module AudioStream).
Stream == INSTANCE AudioStream WITH
    due  <- IF ~ab_synced THEN NoSeq
            ELSE IF ppc \in {"clear", "copy"} THEN cur ELSE ab_read,
    here <- Received
PlaysStream == Stream!Spec
===============================================================================
