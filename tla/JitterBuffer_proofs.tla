-------------------------- MODULE JitterBuffer_proofs --------------------------
(***************************************************************************)
(* What holds of the ring of frames for every ring size, sequence width,   *)
(* start fill and network: its type invariant, that the slot being played  *)
(* is never the newest packet's, that skipped positions are asked for, and *)
(* that the cursors only move forward.  For a player that keeps up, that   *)
(* the last-chance check misses nothing and that the ring implements       *)
(* AudioStream.                                                            *)
(***************************************************************************)
EXTENDS JitterBuffer, TLAPS

\* The half of the number circle that counts as "after" has SeqMod / 2 numbers.
LEMMA HalfFacts == Half \in Nat \ {0} /\ SeqMod = 2 * Half
BY SeqAssumption DEF Half

\* Sequence arithmetic stays within seq_t: every sum is a sequence number.
LEMMA SeqAddType == ASSUME NEW a \in Seqs, NEW n \in Int
                    PROVE  SeqAdd(a, n) \in Seqs
BY SeqAssumption DEF Seqs, SeqAdd

\* seq_diff, read back as an int16_t, fits one.
LEMMA SeqDiffType == ASSUME NEW a \in Seqs, NEW b \in Seqs
                     PROVE  seq_diff(a, b) \in -Half .. Half - 1
BY HalfFacts DEF Seqs, seq_diff

\* seq_diff undoes an addition that fits an int16_t.
LEMMA SeqDiffAdd == ASSUME NEW a \in Seqs, NEW n \in -Half .. Half - 1
                    PROVE  seq_diff(a, SeqAdd(a, n)) = n
BY HalfFacts DEF Seqs, SeqAdd, seq_diff

\* Adding the distance from a to b to a gives b.
LEMMA SeqAddDiff == ASSUME NEW a \in Seqs, NEW b \in Seqs
                    PROVE  SeqAdd(a, seq_diff(a, b)) = b
BY HalfFacts DEF Seqs, SeqAdd, seq_diff

\* Moving the start of a distance forward shortens it, if it still fits.
LEMMA SeqDiffAdvance == ASSUME NEW a \in Seqs, NEW b \in Seqs, NEW n \in Int,
                               seq_diff(a, b) - n \in -Half .. Half - 1
                        PROVE  seq_diff(SeqAdd(a, n), b) = seq_diff(a, b) - n
BY HalfFacts DEF Seqs, SeqAdd, seq_diff

\* Nothing is between a number and itself, and going back n leaves a distance n.
LEMMA SeqDiffSelf == ASSUME NEW a \in Seqs
                     PROVE  /\ seq_diff(a, a) = 0
                            /\ \A n \in -Half .. Half - 1 : seq_diff(SeqAdd(a, -n), a) = n
<1>1. seq_diff(a, a) = 0
  BY HalfFacts DEF Seqs, seq_diff
<1>2. ASSUME NEW n \in -Half .. Half - 1 PROVE seq_diff(SeqAdd(a, -n), a) = n
  <2>1. seq_diff(a, a) - (-n) = n
    BY <1>1, HalfFacts
  <2>2. -n \in Int
    BY HalfFacts
  <2> QED BY <2>1, <2>2, SeqDiffAdvance
<1> QED BY <1>1, <1>2

\* Every sequence number has a slot.
LEMMA SlotType == ASSUME NEW a \in Seqs PROVE BUFIDX(a) \in Slots
BY SeqAssumption DEF Seqs, Slots, BUFIDX

\* Multiplication by the ring's size distributes, for the next proof.
LEMMA Distribute == ASSUME NEW p \in Int, NEW q \in Int, NEW k \in Int, NEW n \in Int
                    PROVE  /\ (p - q) * n = p * n - q * n
                           /\ (p - q + k) * n = p * n - q * n + k * n
OBVIOUS

\* Two numbers less than a ring apart are in different slots.
LEMMA SlotsDiffer == ASSUME NEW a \in Seqs, NEW b \in Seqs,
                            seq_diff(a, b) \in 1 .. BufferFrames - 1
                     PROVE  BUFIDX(a) # BUFIDX(b)
<1> DEFINE k == SeqMod \div BufferFrames
           qa == a \div BufferFrames
           qb == b \div BufferFrames
<1>1. k \in Int /\ SeqMod = k * BufferFrames
  BY SeqAssumption
<1>2. qa \in Int /\ a = qa * BufferFrames + BUFIDX(a)
  BY SeqAssumption DEF Seqs, BUFIDX
<1>3. qb \in Int /\ b = qb * BufferFrames + BUFIDX(b)
  BY SeqAssumption DEF Seqs, BUFIDX
<1>4. \/ seq_diff(a, b) = b - a
      \/ seq_diff(a, b) = b - a + SeqMod
  BY HalfFacts, SeqAssumption DEF Seqs, seq_diff
<1>5. BUFIDX(a) \in Int /\ BUFIDX(b) \in Int
  BY SeqAssumption DEF Seqs, BUFIDX
<1> HIDE DEF k, qa, qb
<1> SUFFICES ASSUME BUFIDX(a) = BUFIDX(b) PROVE FALSE
  OBVIOUS
<1>6. b - a = qb * BufferFrames - qa * BufferFrames
  <2>1. \A r, x, y \in Int : (y + r) - (x + r) = y - x
    OBVIOUS
  <2>2. qa * BufferFrames \in Int /\ qb * BufferFrames \in Int
    BY <1>2, <1>3, SeqAssumption
  <2>3. b - a = (qb * BufferFrames + BUFIDX(a)) - (qa * BufferFrames + BUFIDX(a))
    BY <1>2, <1>3
  <2> QED BY <2>1, <2>2, <2>3, <1>5
<1>7. PICK m \in Int : seq_diff(a, b) = m * BufferFrames
  <2>1. CASE seq_diff(a, b) = b - a
    <3>1. seq_diff(a, b) = (qb - qa) * BufferFrames
      BY <1>1, <1>2, <1>3, <1>6, <2>1, Distribute, SeqAssumption
    <3> QED BY <3>1, <1>2, <1>3
  <2>2. CASE seq_diff(a, b) = b - a + SeqMod
    <3>1. seq_diff(a, b) = (qb - qa + k) * BufferFrames
      BY <1>1, <1>2, <1>3, <1>6, <2>2, Distribute, SeqAssumption
    <3> QED BY <3>1, <1>1, <1>2, <1>3
  <2> QED BY <1>4, <2>1, <2>2
<1>8. m * BufferFrames \in 1 .. BufferFrames - 1
  BY <1>7
<1>9. m < 1 \/ m >= 1
  OBVIOUS
<1>10. m * BufferFrames <= 0 \/ m * BufferFrames >= BufferFrames
  BY <1>9, SeqAssumption
<1> QED BY <1>8, <1>10, SeqAssumption

\* Distances add up, as long as the sum fits an int16_t.
LEMMA SeqDiffSum == ASSUME NEW a \in Seqs, NEW b \in Seqs, NEW c \in Seqs,
                           seq_diff(a, b) + seq_diff(b, c) \in -Half .. Half - 1
                    PROVE  seq_diff(a, c) = seq_diff(a, b) + seq_diff(b, c)
BY HalfFacts DEF Seqs, seq_diff

\* So they do backwards.
LEMMA SeqDiffLess == ASSUME NEW a \in Seqs, NEW b \in Seqs, NEW c \in Seqs,
                            seq_diff(a, c) - seq_diff(a, b) \in -Half .. Half - 1
                     PROVE  seq_diff(b, c) = seq_diff(a, c) - seq_diff(a, b)
BY HalfFacts DEF Seqs, seq_diff

\* No distance is between a number and itself only.
LEMMA SeqDiffZero == ASSUME NEW a \in Seqs, NEW b \in Seqs, seq_diff(a, b) = 0
                     PROVE  a = b
BY HalfFacts DEF Seqs, seq_diff

\* Of the numbers less than a ring after another, each slot has one.
LEMMA OneInSlot ==
    ASSUME NEW a \in Seqs, NEW p \in Seqs, NEW q \in Seqs,
           seq_diff(a, p) \in 0 .. BufferFrames - 1,
           seq_diff(a, q) \in 0 .. BufferFrames - 1,
           BUFIDX(p) = BUFIDX(q)
    PROVE  p = q
<1>1. BufferFrames \in Nat /\ BufferFrames < Half /\ Half \in Nat
  BY HalfFacts, SeqAssumption, JitterAssumption
<1>2. seq_diff(p, q) = seq_diff(a, q) - seq_diff(a, p)
  BY <1>1, SeqDiffLess
<1>3. seq_diff(q, p) = seq_diff(a, p) - seq_diff(a, q)
  BY <1>1, SeqDiffLess
<1>4. CASE seq_diff(a, p) < seq_diff(a, q)
  BY <1>1, <1>2, <1>4, SlotsDiffer
<1>5. CASE seq_diff(a, q) < seq_diff(a, p)
  BY <1>1, <1>3, <1>5, SlotsDiffer
<1>6. CASE seq_diff(a, p) = seq_diff(a, q)
  BY <1>2, <1>6, SeqDiffZero
<1> QED BY <1>4, <1>5, <1>6

-----------------------------------------------------------------------------
\* Once the player has taken a position it is behind the newest packet, by
\* less than the ring: the strengthening that makes TakenIsNotNewest inductive.
TakenBehind == ppc = "clear" => seq_diff(cur, ab_write) \in 1 .. BufferFrames - 1

\* init_buffer leaves a well-formed ring.
LEMMA InitTypeOK == Init => TypeOK
<1> SUFFICES ASSUME Init PROVE TypeOK
  OBVIOUS
<1>1. 0 \in Seqs /\ 0 \in -Half .. Half - 1
  BY HalfFacts, SeqAssumption DEF Seqs
<1>2. audio_buffer \in [Slots -> [ready : BOOLEAN, frame : Frames]]
  BY DEF Init, Frames
<1>3. flushes \in 0 .. MaxFlushes
  BY JitterAssumption DEF Init
<1>4. out \in [pos : Seqs \cup {NoSeq}, frame : Frames]
  BY DEF Init, Frames
<1> QED BY <1>1, <1>2, <1>3, <1>4 DEF Init, TypeOK

\* player_put_packet's first critical section keeps the ring well formed.
LEMMA PutTypeOK == ASSUME TypeOK, NEW seqno \in Seqs, PutPacket(seqno)
                   PROVE  TypeOK'
<1> DEFINE read   == IF ab_synced THEN ab_read ELSE seqno
           newest == IF ab_synced THEN ab_write ELSE SeqAdd(seqno, -1)
<1>1. newest \in Seqs /\ read \in Seqs
  BY SeqAddType DEF TypeOK
<1>2. ab_read' \in Seqs /\ ab_write' \in Seqs /\ rseq' \in Seqs /\ ab_synced'
  BY <1>1 DEF PutPacket
<1>3. rfill' \in -Half .. Half - 1
  <2>1. rfill' = seq_diff(ab_read', ab_write')
    BY DEF PutPacket
  <2> QED BY <2>1, <1>2, SeqDiffType
<1>4. unasked' \in SUBSET Seqs
  <2>1. seq_diff(newest, seqno) \in Int
    BY <1>1, SeqDiffType, HalfFacts
  <2>2. \A i \in 1 .. seq_diff(newest, seqno) - 1 : SeqAdd(newest, i) \in Seqs
    BY <1>1, <2>1, SeqAddType
  <2> QED BY <2>2 DEF PutPacket, TypeOK
<1>5. rpc' \in {"decode", "second"}
  BY DEF PutPacket
<1> QED BY <1>2, <1>3, <1>4, <1>5 DEF PutPacket, TypeOK, player, MutexFree

\* Where the player reads next is a position of the stream.
LEMMA NextReadType == ASSUME TypeOK PROVE NextRead \in Seqs
BY SeqAddType, JitterAssumption DEF TypeOK, NextRead

\* buffer_get_frame keeps the ring well formed.
LEMMA TakeTypeOK == ASSUME TypeOK, TakeFrame PROVE TypeOK'
<1>1. cur' \in Seqs /\ ab_read' \in Seqs
  BY NextReadType, SeqAddType DEF TakeFrame
<1>2. BUFIDX(cur') \in Slots
  BY <1>1, SlotType
<1>3. audio_buffer' \in [Slots -> [ready : BOOLEAN, frame : Frames]]
  BY <1>2 DEF TakeFrame, TypeOK, Frames
<1>4. unasked' \in SUBSET Seqs
  BY DEF TakeFrame, TypeOK
<1>5. ab_synced /\ ppc' = "clear" /\ rclash' \in BOOLEAN
  BY DEF TakeFrame, NothingToPlay, TypeOK
<1> QED BY <1>1, <1>3, <1>4, <1>5 DEF TakeFrame, TypeOK

\* TypeOK is inductive.
LEMMA NextTypeOK == ASSUME TypeOK, [Next]_vars PROVE TypeOK'
<1> USE DEF TypeOK, cursors, receiver, player
<1>1. ASSUME NEW seqno \in Seqs, PutPacket(seqno) PROVE TypeOK'
  BY <1>1, PutTypeOK
<1>2. ASSUME Decode PROVE TypeOK'
  <2>1. BUFIDX(rseq) \in Slots /\ rseq \in Frames
    BY <1>2, SlotType DEF Decode, Frames
  <2>2. audio_buffer' \in [Slots -> [ready : BOOLEAN, frame : Frames]]
    BY <1>2, <2>1 DEF Decode, Frames
  <2> QED BY <1>2, <2>2 DEF Decode
<1>3. ASSUME MarkReady PROVE TypeOK'
  <2>1. audio_buffer' \in [Slots -> [ready : BOOLEAN, frame : Frames]]
    BY <1>3 DEF MarkReady
  <2> QED BY <1>3, <2>1 DEF MarkReady
<1>4. ASSUME FinishPut PROVE TypeOK'
  BY <1>4, HalfFacts DEF FinishPut, MutexFree
<1>5. ASSUME PollBuffering PROVE TypeOK'
  BY <1>5 DEF PollBuffering, Frames
<1>6. ASSUME Underrun PROVE TypeOK'
  BY <1>6 DEF Underrun, Frames
<1>7. ASSUME TakeFrame PROVE TypeOK'
  BY <1>7, TakeTypeOK
<1>8. ASSUME ClearReady PROVE TypeOK'
  <2>1. audio_buffer' \in [Slots -> [ready : BOOLEAN, frame : Frames]]
    BY <1>8 DEF ClearReady
  <2> QED BY <1>8, <2>1 DEF ClearReady
<1>9. ASSUME PlayFrame PROVE TypeOK'
  <2>1. BUFIDX(cur) \in Slots
    BY <1>9, SlotType DEF PlayFrame
  <2> QED BY <1>9, <2>1 DEF PlayFrame, Frames
<1>10. ASSUME Flush PROVE TypeOK'
  <2>1. audio_buffer' \in [Slots -> [ready : BOOLEAN, frame : Frames]]
    BY <1>10 DEF Flush
  <2>2. flushes' \in 0 .. MaxFlushes
    <3>1. MaxFlushes \in Nat
      BY JitterAssumption
    <3> QED BY <1>10, <3>1 DEF Flush
  <2> QED BY <1>10, <2>1, <2>2 DEF Flush, MutexFree
<1>11. ASSUME UNCHANGED vars PROVE TypeOK'
  BY <1>11 DEF vars
<1> QED
  BY <1>1, <1>2, <1>3, <1>4, <1>5, <1>6, <1>7, <1>8, <1>9, <1>10, <1>11
  DEF Next, ReceiverStep, PlayerStep

\* The ring stays well formed whatever the network, the player and the
\* RTSP side do.
THEOREM TypeCorrect == Spec => []TypeOK
BY InitTypeOK, NextTypeOK, PTL DEF Spec

-----------------------------------------------------------------------------
\* Where the player reads next is behind the newest packet by less than the
\* ring, overrun or not.
LEMMA NextReadBehind ==
    ASSUME StartFill < BufferFrames, TypeOK, ~NothingToPlay
    PROVE  seq_diff(NextRead, ab_write) \in 1 .. BufferFrames - 1
<1>1. StartFill \in 1 .. BufferFrames - 1 /\ StartFill \in -Half .. Half - 1
  BY HalfFacts, SeqAssumption, JitterAssumption
<1>2. ab_read \in Seqs /\ ab_write \in Seqs
  BY DEF TypeOK
<1>3. seq_diff(ab_read, ab_write) \in -Half .. Half - 1
  BY <1>2, SeqDiffType
<1>4. CASE seq_diff(ab_read, ab_write) >= BufferFrames
  <2>1. NextRead = SeqAdd(ab_write, -StartFill)
    BY <1>4 DEF NextRead
  <2> QED BY <1>1, <1>2, <2>1, SeqDiffSelf
<1>5. CASE ~(seq_diff(ab_read, ab_write) >= BufferFrames)
  <2>1. NextRead = ab_read
    BY <1>5 DEF NextRead
  <2>2. ~(seq_diff(ab_read, ab_write) < 1)
    BY DEF NothingToPlay
  <2> QED BY <1>3, <1>5, <2>1, <2>2, HalfFacts, SeqAssumption
<1> QED BY <1>4, <1>5

\* TakenBehind is inductive: the receiver cannot move ab_write while the
\* player holds ab_mutex.
LEMMA NextTakenBehind ==
    ASSUME StartFill < BufferFrames, TypeOK, TakenBehind, [Next]_vars
    PROVE  TakenBehind'
<1>1. ASSUME NEW seqno \in Seqs, PutPacket(seqno) PROVE TakenBehind'
  BY <1>1 DEF PutPacket, MutexFree, player, TakenBehind
<1>2. CASE Decode
  BY <1>2 DEF Decode, cursors, player, TakenBehind
<1>3. CASE MarkReady
  BY <1>3 DEF MarkReady, cursors, player, TakenBehind
<1>4. CASE FinishPut
  BY <1>4 DEF FinishPut, cursors, player, TakenBehind
<1>5. CASE PollBuffering
  BY <1>5 DEF PollBuffering, cursors, TakenBehind
<1>6. CASE Underrun
  BY <1>6 DEF Underrun, TakenBehind
<1>7. CASE TakeFrame
  <2>1. cur' = NextRead /\ ab_write' = ab_write
    BY <1>7 DEF TakeFrame
  <2> QED BY <1>7, <2>1, NextReadBehind DEF TakeFrame, TakenBehind
<1>8. CASE ClearReady
  BY <1>8 DEF ClearReady, TakenBehind
<1>9. CASE PlayFrame
  BY <1>9 DEF PlayFrame, TakenBehind
<1>10. CASE Flush
  BY <1>10 DEF Flush, MutexFree, player, TakenBehind
<1>11. CASE UNCHANGED vars
  BY <1>11 DEF vars, cursors, player, TakenBehind
<1> QED
  BY <1>1, <1>2, <1>3, <1>4, <1>5, <1>6, <1>7, <1>8, <1>9, <1>10, <1>11
  DEF Next, ReceiverStep, PlayerStep

\* With a start fill below the ring's size, buffer_get_frame never hands out
\* the slot of the newest packet, which the receiver may be decoding into.
THEOREM NewestSlotSafe ==
    ASSUME StartFill < BufferFrames
    PROVE  Spec => []TakenIsNotNewest
<1>1. Init => TakenBehind
  BY DEF Init, TakenBehind
<1>2. TypeOK /\ TakenBehind /\ [Next]_vars => TakenBehind'
  BY NextTakenBehind
<1>3. TypeOK /\ TakenBehind => TakenIsNotNewest
  BY SlotsDiffer DEF TypeOK, TakenBehind, TakenIsNotNewest
<1> QED BY <1>1, <1>2, <1>3, TypeCorrect, PTL DEF Spec

-----------------------------------------------------------------------------
\* A resend request for first..last, which carries a count, names exactly the
\* positions between the newest packet and the one that jumped ahead of it.
LEMMA ResendCoversGap ==
    ASSUME NEW newest \in Seqs, NEW seqno \in Seqs, seq_diff(newest, seqno) > 1
    PROVE  {SeqAdd(newest, i) : i \in 1 .. seq_diff(newest, seqno) - 1}
             \subseteq ResendRange(SeqAdd(newest, 1), SeqAdd(seqno, -1))
<1> DEFINE d == seq_diff(newest, seqno)
           first == SeqAdd(newest, 1)
           last  == SeqAdd(seqno, -1)
<1>1. d \in 2 .. Half - 1
  BY SeqDiffType, HalfFacts
<1>2. SeqAdd(last, 1 - first) - 1 = d - 2
  BY <1>1, HalfFacts DEF Seqs, SeqAdd, seq_diff
<1>3. ASSUME NEW i \in 1 .. d - 1 PROVE SeqAdd(newest, i) = SeqAdd(first, i - 1)
  BY <1>1, HalfFacts DEF Seqs, SeqAdd
<1>4. ASSUME NEW i \in 1 .. d - 1 PROVE i - 1 \in 0 .. (SeqAdd(last, 1 - first) - 1)
  BY <1>1, <1>2
<1> QED BY <1>3, <1>4 DEF ResendRange

\* The gap invariant is kept by every step.
LEMMA NextGaps == ASSUME TypeOK, GapsAskedFor, [Next]_vars PROVE GapsAskedFor'
<1>1. ASSUME NEW seqno \in Seqs, PutPacket(seqno) PROVE GapsAskedFor'
  <2> DEFINE newest == IF ab_synced THEN ab_write ELSE SeqAdd(seqno, -1)
             newer  == seq_diff(newest, seqno) # 1 /\ seq_order(newest, seqno)
             skipped == {SeqAdd(newest, i) : i \in 1 .. seq_diff(newest, seqno) - 1}
             asked == IF newer
                      THEN ResendRange(SeqAdd(newest, 1), SeqAdd(seqno, -1))
                      ELSE {}
             before == IF ab_synced THEN unasked \ {seqno} ELSE {}
  <2>1. unasked' = (before \cup (IF newer THEN skipped ELSE {})) \ asked
    BY <1>1 DEF PutPacket
  <2>2. before = {}
    BY DEF GapsAskedFor
  <2>3. newest \in Seqs /\ seq_diff(newest, seqno) \in -Half .. Half - 1
    <3>1. newest \in Seqs
      BY SeqAddType DEF TypeOK
    <3> QED BY <3>1, SeqDiffType
  <2>4. newer => seq_diff(newest, seqno) > 1
    BY <2>3, HalfFacts DEF seq_order
  <2>5. newer => skipped \subseteq asked
    BY <2>3, <2>4, ResendCoversGap
  <2> HIDE DEF newest, newer, skipped, asked, before
  <2> QED BY <2>1, <2>2, <2>5 DEF GapsAskedFor
<1>2. CASE TakeFrame
  BY <1>2 DEF TakeFrame, GapsAskedFor
<1>3. CASE Flush
  BY <1>3 DEF Flush, GapsAskedFor
<1>4. CASE \/ Decode \/ MarkReady \/ FinishPut
           \/ PollBuffering \/ Underrun \/ ClearReady \/ PlayFrame
  BY <1>4 DEF Decode, MarkReady, FinishPut, PollBuffering, Underrun, ClearReady,
              PlayFrame, cursors, GapsAskedFor
<1>5. CASE UNCHANGED vars
  BY <1>5 DEF vars, cursors, GapsAskedFor
<1> QED BY <1>1, <1>2, <1>3, <1>4, <1>5 DEF Next, ReceiverStep, PlayerStep

\* Every position the receiver's cursor skips is asked for, over every wrap.
THEOREM GapsCovered == Spec => []GapsAskedFor
<1>1. Init => GapsAskedFor
  BY DEF Init, GapsAskedFor
<1>2. TypeOK /\ GapsAskedFor /\ [Next]_vars => GapsAskedFor'
  BY NextGaps
<1> QED BY <1>1, <1>2, TypeCorrect, PTL DEF Spec

-----------------------------------------------------------------------------
\* What the two cursors may do in a step of a synchronised stretch.
ForwardStep ==
    ab_synced /\ ab_synced' =>
        /\ seq_diff(ab_write, ab_write') >= 0
        /\ ab_read' # ab_read =>
              /\ seq_diff(ab_read, ab_read') > 0
              /\ seq_diff(ab_read', ab_write') \in 0 .. BufferFrames - 1

\* An overrun moves the reader from fill to StartFill behind the newest, then
\* one further: a forward move that fits an int16_t.
LEMMA TakeForward ==
    ASSUME TypeOK, TakeFrame
    PROVE  /\ seq_diff(ab_read, ab_read') > 0
           /\ seq_diff(ab_read', ab_write) \in 0 .. BufferFrames - 1
<1> DEFINE fill == seq_diff(ab_read, ab_write)
<1>1. fill \in 1 .. Half - 1 /\ ab_read \in Seqs /\ ab_write \in Seqs
  <2>1. fill \in -Half .. Half - 1
    BY SeqDiffType DEF TypeOK
  <2>2. ~(fill < 1)
    BY DEF TakeFrame, NothingToPlay
  <2> QED BY <2>1, <2>2, HalfFacts DEF TypeOK
<1>2. StartFill \in 1 .. BufferFrames /\ BufferFrames < Half
  BY JitterAssumption
<1>3. BufferFrames \in Nat \ {0}
  BY SeqAssumption
<1>4. ab_read' = SeqAdd(NextRead, 1)
  BY DEF TakeFrame
<1>5. CASE fill >= BufferFrames
  <2>1. NextRead = SeqAdd(ab_write, -StartFill)
    BY <1>5 DEF NextRead
  <2>2. ab_read' = SeqAdd(ab_write, 1 - StartFill)
    BY <1>1, <1>2, <1>4, <2>1, HalfFacts DEF Seqs, SeqAdd
  <2>3. seq_diff(ab_read, ab_read') = fill + 1 - StartFill
    BY <1>1, <1>2, <1>3, <1>5, <2>2, HalfFacts DEF Seqs, SeqAdd, seq_diff
  <2>4. seq_diff(ab_read', ab_write) = StartFill - 1
    BY <1>1, <1>2, <1>3, <2>2, HalfFacts DEF Seqs, SeqAdd, seq_diff
  <2> QED BY <1>1, <1>2, <1>3, <1>5, <2>3, <2>4
<1>6. CASE ~(fill >= BufferFrames)
  <2>1. NextRead = ab_read
    BY <1>6 DEF NextRead
  <2>2. seq_diff(ab_read, ab_read') = 1
    BY <1>1, <1>2, <1>3, <1>4, <2>1, SeqDiffAdd, HalfFacts
  <2>3. seq_diff(ab_read', ab_write) = fill - 1
    BY <1>1, <1>4, <2>1, SeqDiffAdvance, HalfFacts
  <2> QED BY <1>1, <1>3, <1>6, <2>2, <2>3
<1> QED BY <1>5, <1>6

\* Every step moves the cursors forward or leaves them.
LEMMA NextForward == ASSUME TypeOK, [Next]_vars PROVE ForwardStep
<1>1. seq_diff(ab_write, ab_write) >= 0
  BY SeqDiffSelf DEF TypeOK
<1>2. ASSUME NEW seqno \in Seqs, PutPacket(seqno), ab_synced PROVE ForwardStep
  <2>1. ab_read' = ab_read
    BY <1>2 DEF PutPacket
  <2>2. ab_write' = ab_write \/ (ab_write' = seqno /\ seq_diff(ab_write, seqno) > 0)
    BY <1>2 DEF PutPacket, seq_order
  <2>3. seq_diff(ab_write, seqno) \in Int
    BY SeqDiffType, HalfFacts DEF TypeOK
  <2> QED BY <1>1, <2>1, <2>2, <2>3 DEF ForwardStep
<1>3. CASE TakeFrame
  <2>1. ab_write' = ab_write
    BY <1>3 DEF TakeFrame
  <2> QED BY <1>1, <1>3, <2>1, TakeForward DEF ForwardStep
<1>4. CASE UNCHANGED <<ab_read, ab_write>>
  BY <1>1, <1>4 DEF ForwardStep
<1>5. CASE \/ Decode \/ MarkReady \/ FinishPut \/ PollBuffering \/ Underrun
           \/ ClearReady \/ PlayFrame \/ Flush
  BY <1>4, <1>5 DEF Decode, MarkReady, FinishPut, PollBuffering, Underrun,
                    ClearReady, PlayFrame, Flush, cursors
<1>6. CASE UNCHANGED vars
  BY <1>4, <1>6 DEF vars, cursors
<1>7. ASSUME ~ab_synced PROVE ForwardStep
  BY <1>7 DEF ForwardStep
<1> QED BY <1>2, <1>3, <1>5, <1>6, <1>7 DEF Next, ReceiverStep, PlayerStep

\* Within a synchronised stretch neither cursor ever goes back, and the
\* reader stays within a ring of the writer and never passes it.
THEOREM Forward == Spec => CursorsForward
<1>1. TypeOK /\ [Next]_vars => [ForwardStep]_vars
  BY NextForward
<1> QED BY <1>1, TypeCorrect, PTL DEF Spec, CursorsForward, ForwardStep

-----------------------------------------------------------------------------
\* The network and the player keep to what PlaysStream promises for: no flush,
\* no late packet, and a sender that is paced below the ring's size.
KeepsUp == MaxFlushes = 0 /\ Behind = 0 /\ MaxLead + Ahead < BufferFrames

\* The oldest position whose frame the ring may still hold for the player.
Oldest == IF ppc \in {"clear", "copy"} THEN cur ELSE ab_read
Slot(p) == audio_buffer[BUFIDX(p)]

\* Before the first packet nothing has arrived.
EmptyRing == /\ \A i \in Slots : ~audio_buffer[i].ready
             /\ rpc = "idle" /\ ppc \in {"poll", "take"}
\* The receiver works on the newest packet, whose frame is then in the ring.
NewestInRing == /\ rpc \in {"decode", "mark"} => rseq = ab_write
                /\ rpc # "decode" => Slot(ab_write).frame = ab_write
                /\ rpc \in {"idle", "second"} => Slot(ab_write).ready
\* A slot that is ready holds the frame of one of the ring's positions.
ReadyInWindow == \A i \in Slots : audio_buffer[i].ready =>
                    /\ audio_buffer[i].frame \in Seqs
                    /\ BUFIDX(audio_buffer[i].frame) = i
                    /\ seq_diff(Oldest, audio_buffer[i].frame)
                         \in 0 .. seq_diff(Oldest, ab_write)
\* What the player has taken is the position before its cursor, with its own
\* frame or silence.
TakenInHand == /\ ppc \in {"clear", "copy"} => ab_read = SeqAdd(cur, 1)
               /\ ppc = "clear" => Slot(cur).ready \/ Slot(cur).frame = Silence
               /\ ppc = "copy" => ~Slot(cur).ready /\ Slot(cur).frame \in {cur, Silence}
RingInv ==
    /\ ~ab_synced => EmptyRing
    /\ ab_synced => /\ seq_diff(ab_read, ab_write) \in 0 .. MaxLead + Ahead - 1
                    /\ NewestInRing /\ ReadyInWindow
    /\ TakenInHand /\ ~rclash

\* The ring's positions are fewer than its slots.
LEMMA WindowFits ==
    ASSUME KeepsUp, TypeOK, RingInv, ab_synced
    PROVE  /\ Oldest \in Seqs
           /\ seq_diff(Oldest, ab_write) =
                seq_diff(ab_read, ab_write) + IF ppc \in {"clear", "copy"} THEN 1 ELSE 0
           /\ MaxLead + Ahead \in 0 .. BufferFrames - 1
           /\ BufferFrames < Half
<1>1. /\ MaxLead + Ahead \in 0 .. BufferFrames - 1 /\ BufferFrames < Half
      /\ {Half, BufferFrames, MaxLead, Ahead} \subseteq Nat
  BY HalfFacts, SeqAssumption, JitterAssumption DEF KeepsUp
<1>2. ab_read \in Seqs /\ ab_write \in Seqs
  BY DEF TypeOK
<1>3. seq_diff(ab_read, ab_write) \in 0 .. MaxLead + Ahead - 1
  BY DEF RingInv
<1>4. CASE ppc \in {"clear", "copy"}
  <2>1. cur \in Seqs /\ ab_read = SeqAdd(cur, 1) /\ Oldest = cur
    BY <1>4 DEF TypeOK, RingInv, TakenInHand, Oldest
  <2>2. seq_diff(cur, ab_read) = 1
    <3>1. 1 \in -Half .. Half - 1
      BY <1>1
    <3> QED BY <2>1, <3>1, SeqDiffAdd
  <2>3. seq_diff(cur, ab_write) = 1 + seq_diff(ab_read, ab_write)
    <3>1. seq_diff(cur, ab_read) + seq_diff(ab_read, ab_write) \in -Half .. Half - 1
      BY <1>1, <1>3, <2>2
    <3> QED BY <1>2, <2>1, <2>2, <3>1, SeqDiffSum
  <2>4. seq_diff(Oldest, ab_write) = seq_diff(ab_read, ab_write) + 1
    BY <1>1, <1>3, <2>1, <2>3
  <2> QED BY <1>1, <1>4, <2>1, <2>4
<1>5. CASE ppc \notin {"clear", "copy"}
  <2>1. Oldest = ab_read
    BY <1>5 DEF Oldest
  <2> QED BY <1>1, <1>2, <1>3, <1>5, <2>1
<1> QED BY <1>4, <1>5

\* What player_put_packet does with what such a network delivers: the first
\* packet, a newer one, or the newest again.
FirstPacket(seqno) ==
    /\ ~ab_synced /\ ab_read' = seqno /\ ab_write' = seqno /\ rpc' = "decode"
NewerPacket(seqno) ==
    /\ ab_synced /\ ab_read' = ab_read /\ ab_write' = seqno /\ rpc' = "decode"
    /\ seq_diff(ab_write, seqno) \in 1 .. Ahead
    /\ seq_diff(ab_read, ab_write) < MaxLead
SamePacket(seqno) ==
    /\ ab_synced /\ ab_read' = ab_read /\ ab_write' = ab_write /\ seqno = ab_write
    /\ rpc' \in {"decode", "second"}

\* While the player keeps up a packet is the stream's first, a newer one, or the newest again.
LEMMA PutCases ==
    ASSUME KeepsUp, TypeOK, NEW seqno \in Seqs, PutPacket(seqno)
    PROVE  /\ FirstPacket(seqno) \/ NewerPacket(seqno) \/ SamePacket(seqno)
           /\ ab_synced' /\ rseq' = seqno /\ rpc = "idle" /\ ppc # "clear"
           /\ UNCHANGED <<audio_buffer, rclash, ppc, cur, out>>
<1>1. /\ ab_synced' /\ rseq' = seqno /\ rpc = "idle" /\ ppc # "clear"
      /\ UNCHANGED <<audio_buffer, rclash, ppc, cur, out>>
  BY DEF PutPacket, MutexFree, player
<1> SUFFICES FirstPacket(seqno) \/ NewerPacket(seqno) \/ SamePacket(seqno)
  BY <1>1
<1>2. Half \in Nat \ {0} /\ Ahead \in 1 .. Half - 1
  BY HalfFacts, JitterAssumption
<1>3. CASE ~ab_synced
  <2>1. seq_diff(SeqAdd(seqno, -1), seqno) = 1
    BY <1>2, SeqDiffSelf
  <2> QED BY <1>3, <2>1 DEF PutPacket, FirstPacket
<1>4. CASE ab_synced
  <2>1. ab_read' = ab_read
    BY <1>4 DEF PutPacket
  <2>2. PICK d \in 0 .. Ahead : seqno = SeqAdd(ab_write, d)
    BY <1>2, <1>4 DEF PutPacket, Arrives, KeepsUp
  <2>3. seq_diff(ab_write, seqno) = d
    BY <1>2, <2>2, SeqDiffAdd DEF TypeOK
  <2>4. CASE d = 0
    <3>1. seqno = ab_write
      BY <2>3, <2>4, SeqDiffZero DEF TypeOK
    <3>2. ab_write' = ab_write
      BY <1>4, <2>3, <2>4, <3>1 DEF PutPacket
    <3>3. rpc' \in {"decode", "second"}
      BY DEF PutPacket
    <3> QED BY <1>4, <2>1, <3>1, <3>2, <3>3 DEF SamePacket
  <2>5. CASE d > 0
    <3>1. seq_order(ab_write, seqno)
      BY <2>3, <2>5 DEF seq_order
    <3>2. seq_diff(ab_read, ab_write) < MaxLead
      BY <1>4, <3>1 DEF PutPacket, Arrives
    <3>3. ab_write' = seqno /\ rpc' = "decode"
      BY <1>4, <3>1 DEF PutPacket
    <3> QED BY <1>2, <1>4, <2>1, <2>2, <2>3, <2>5, <3>2, <3>3 DEF NewerPacket
  <2> QED BY <1>2, <2>4, <2>5
<1> QED BY <1>3, <1>4

\* What the player has taken is not in the newest packet's slot.
LEMMA TakenNotNewest ==
    ASSUME KeepsUp, TypeOK, RingInv, ab_synced, ppc \in {"clear", "copy"}
    PROVE  cur \in Seqs /\ BUFIDX(cur) # BUFIDX(ab_write)
<1>1. cur \in Seqs /\ ab_write \in Seqs
  BY DEF TypeOK
<1>2. seq_diff(ab_read, ab_write) \in 0 .. MaxLead + Ahead - 1
  BY DEF RingInv
<1>3. seq_diff(cur, ab_write) \in 1 .. BufferFrames - 1
  BY <1>2, WindowFits, SeqAssumption, JitterAssumption DEF Oldest
<1> QED BY <1>1, <1>3, SlotsDiffer

\* The invariant holds of an empty ring...
LEMMA RingInit == Init => RingInv
BY DEF Init, RingInv, EmptyRing, TakenInHand

\* ...and is kept by player_put_packet's first critical section,
LEMMA RingPut ==
    ASSUME KeepsUp, TypeOK, RingInv, NEW seqno \in Seqs, PutPacket(seqno)
    PROVE  RingInv'
<1>1. /\ FirstPacket(seqno) \/ NewerPacket(seqno) \/ SamePacket(seqno)
      /\ ab_synced' /\ rseq' = seqno /\ rpc = "idle" /\ ppc # "clear"
      /\ UNCHANGED <<audio_buffer, rclash, ppc, cur, out>>
  BY PutCases
<1>2. {MaxLead, Ahead, Half, BufferFrames} \subseteq Nat /\ Ahead > 0
  BY HalfFacts, SeqAssumption, JitterAssumption
<1>3. CASE FirstPacket(seqno)
  <2>1. seq_diff(ab_read', ab_write') = 0
    BY <1>3, SeqDiffSelf DEF FirstPacket
  <2>2. NewestInRing' /\ ReadyInWindow' /\ TakenInHand' /\ ~rclash'
    BY <1>1, <1>3 DEF FirstPacket, RingInv, EmptyRing, NewestInRing, ReadyInWindow,
                      TakenInHand
  <2> QED BY <1>1, <1>2, <2>1, <2>2 DEF RingInv
<1>4. CASE NewerPacket(seqno)
  <2> DEFINE d == seq_diff(ab_write, seqno)
  <2>1. d \in 1 .. Ahead /\ ab_write' = seqno /\ ab_read' = ab_read /\ ab_synced
    BY <1>4 DEF NewerPacket
  <2>2. seq_diff(ab_read, ab_write) \in 0 .. MaxLead - 1
    BY <1>2, <1>4 DEF NewerPacket, RingInv
  <2>3. /\ Oldest \in Seqs /\ seq_diff(Oldest, ab_write) \in 0 .. MaxLead
        /\ MaxLead + Ahead < Half
    BY <1>2, <2>1, <2>2, WindowFits
  <2>4. seq_diff(ab_read, seqno) = seq_diff(ab_read, ab_write) + d
    BY <1>2, <2>1, <2>2, <2>3, SeqDiffSum DEF TypeOK
  <2>5. seq_diff(Oldest, seqno) = seq_diff(Oldest, ab_write) + d
    BY <1>2, <2>1, <2>3, SeqDiffSum DEF TypeOK
  <2> HIDE DEF d
  <2>6. Oldest' = Oldest
    BY <1>1, <2>1 DEF Oldest
  <2>7. ReadyInWindow'
    BY <1>1, <1>2, <2>1, <2>3, <2>5, <2>6 DEF RingInv, ReadyInWindow
  <2>8. NewestInRing'
    BY <1>1, <1>4 DEF NewerPacket, NewestInRing
  <2>9. TakenInHand'
    BY <1>1, <2>1 DEF RingInv, TakenInHand, Slot
  <2>10. seq_diff(ab_read', ab_write') \in 0 .. MaxLead + Ahead - 1
    BY <1>2, <2>1, <2>2, <2>4
  <2> QED BY <1>1, <2>7, <2>8, <2>9, <2>10 DEF RingInv
<1>5. CASE SamePacket(seqno)
  BY <1>1, <1>5 DEF SamePacket, RingInv, NewestInRing, ReadyInWindow, TakenInHand,
                    Slot, Oldest
<1> QED BY <1>1, <1>3, <1>4, <1>5

\* by what the receiver does without the lock,
LEMMA RingReceive ==
    ASSUME KeepsUp, TypeOK, RingInv, Decode \/ MarkReady \/ FinishPut
    PROVE  RingInv'
<1> USE DEF RingInv, NewestInRing, TakenInHand, cursors, player
<1>1. ab_write \in Seqs /\ BUFIDX(ab_write) \in Slots
  BY SlotType DEF TypeOK
<1>2. CASE Decode \/ MarkReady
  <2>1. ab_synced /\ rseq = ab_write /\ ~rclash' /\ UNCHANGED <<cursors, player, rseq>>
    BY <1>2 DEF EmptyRing, Decode, MarkReady
  <2>2. /\ Slot(ab_write)'.frame = ab_write
        /\ rpc = "mark" => Slot(ab_write)'.ready
        /\ \A i \in Slots : i # BUFIDX(ab_write) => audio_buffer'[i] = audio_buffer[i]
    BY <1>1, <1>2, <2>1 DEF Decode, MarkReady, Slot, TypeOK
  <2>3. NewestInRing'
    BY <1>2, <2>1, <2>2 DEF Decode, MarkReady, Slot
  <2>4. seq_diff(Oldest, ab_write) \in 0 .. seq_diff(Oldest, ab_write)
    BY <2>1, WindowFits, JitterAssumption, SeqAssumption
  <2>5. ReadyInWindow'
    BY <1>1, <2>1, <2>2, <2>4 DEF ReadyInWindow, Oldest, Slot
  <2>6. TakenInHand'
    <3>1. ppc \in {"clear", "copy"} => Slot(cur)' = Slot(cur)
      BY <2>1, <2>2, TakenNotNewest, SlotType DEF Slot
    <3> QED BY <2>1, <3>1
  <2> QED BY <2>1, <2>3, <2>5, <2>6
<1>3. CASE FinishPut
  BY <1>3 DEF FinishPut, EmptyRing, ReadyInWindow, Oldest, Slot
<1> QED BY <1>2, <1>3

\* What the player takes is the cursor's position: there is no overrun.
LEMMA TakesInOrder ==
    ASSUME KeepsUp, TypeOK, RingInv, TakeFrame
    PROVE  /\ ab_synced /\ cur' = ab_read /\ Oldest = ab_read /\ Oldest' = ab_read
           /\ seq_diff(ab_read, ab_write) \in 1 .. BufferFrames - 1
           /\ seq_diff(ab_read', ab_write) = seq_diff(ab_read, ab_write) - 1
           /\ BUFIDX(ab_read) # BUFIDX(ab_write)
<1>1. ab_synced /\ ~(seq_diff(ab_read, ab_write) < 1)
  BY DEF TakeFrame, NothingToPlay
<1>2. {MaxLead, Ahead, Half, BufferFrames} \subseteq Nat
  BY HalfFacts, SeqAssumption, JitterAssumption
<1>3. /\ seq_diff(ab_read, ab_write) \in 0 .. MaxLead + Ahead - 1
      /\ MaxLead + Ahead < BufferFrames /\ BufferFrames < Half
  BY <1>1, WindowFits DEF RingInv, KeepsUp
<1>4. seq_diff(ab_read, ab_write) \in 1 .. BufferFrames - 1
  BY <1>1, <1>2, <1>3
<1>5. cur' = ab_read /\ ab_read' = SeqAdd(ab_read, 1)
  BY <1>2, <1>4 DEF TakeFrame, NextRead
<1>6. seq_diff(ab_read', ab_write) = seq_diff(ab_read, ab_write) - 1
  BY <1>2, <1>3, <1>4, <1>5, SeqDiffAdvance DEF TypeOK
<1>7. BUFIDX(ab_read) # BUFIDX(ab_write)
  BY <1>4, SlotsDiffer DEF TypeOK
<1> QED BY <1>1, <1>4, <1>5, <1>6, <1>7 DEF TakeFrame, Oldest

\* by what the player does,
LEMMA RingTake ==
    ASSUME KeepsUp, TypeOK, RingInv, TakeFrame
    PROVE  RingInv'
<1> DEFINE missing == ~ Slot(ab_read).ready
<1>1. /\ ab_synced /\ ab_synced' /\ ab_write' = ab_write
      /\ UNCHANGED <<rpc, rseq>> /\ ppc' = "clear"
  BY TakesInOrder DEF TakeFrame
<1>2. {MaxLead, Ahead, Half, BufferFrames} \subseteq Nat
  BY HalfFacts, SeqAssumption, JitterAssumption
<1>3. seq_diff(ab_read', ab_write') \in 0 .. MaxLead + Ahead - 1
  BY <1>1, <1>2, TakesInOrder DEF RingInv
<1>4. BUFIDX(ab_read) \in Slots /\ cur' = ab_read
  BY SlotType, TakesInOrder DEF TypeOK
<1>5. /\ \A i \in Slots : audio_buffer'[i].ready = audio_buffer[i].ready
      /\ \A i \in Slots : audio_buffer[i].ready \/ i # BUFIDX(ab_read) =>
            audio_buffer'[i].frame = audio_buffer[i].frame
      /\ missing => audio_buffer'[BUFIDX(ab_read)].frame = Silence
  BY <1>4 DEF TakeFrame, TypeOK, Slot
<1>6. NewestInRing'
  BY <1>1, <1>5, TakesInOrder, SlotType DEF RingInv, NewestInRing, Slot, TypeOK
<1>7. ReadyInWindow'
  BY <1>1, <1>5, TakesInOrder DEF RingInv, ReadyInWindow
<1>8. TakenInHand'
  <2>1. ab_read' = SeqAdd(cur', 1)
    BY <1>4, TakesInOrder DEF TakeFrame
  <2>2. Slot(cur)'.ready \/ Slot(cur)'.frame = Silence
    BY <1>4, <1>5 DEF Slot
  <2> QED BY <1>1, <2>1, <2>2 DEF TakenInHand
<1>9. ~rclash'
  BY <1>4, TakesInOrder DEF RingInv, NewestInRing, TakeFrame
<1> QED BY <1>1, <1>3, <1>6, <1>7, <1>8, <1>9 DEF RingInv

\* A frame that is ready in the slot the player has taken is that position's.
LEMMA TakenIsOwn ==
    ASSUME KeepsUp, TypeOK, RingInv, ppc = "clear"
    PROVE  /\ ab_synced /\ cur \in Seqs /\ BUFIDX(cur) \in Slots
           /\ Slot(cur).frame \in {cur, Silence}
           /\ Slot(cur).ready <=> Slot(cur).frame = cur
<1>1. ab_synced /\ cur \in Seqs /\ BUFIDX(cur) \in Slots
  BY SlotType DEF TypeOK
<1>2. ASSUME Slot(cur).ready PROVE Slot(cur).frame = cur
  <2> DEFINE f == Slot(cur).frame
  <2>1. f \in Seqs /\ BUFIDX(f) = BUFIDX(cur)
        /\ seq_diff(cur, f) \in 0 .. seq_diff(cur, ab_write)
    BY <1>1, <1>2 DEF RingInv, ReadyInWindow, Slot, Oldest
  <2>2. {MaxLead, Ahead, BufferFrames} \subseteq Nat
    BY SeqAssumption, JitterAssumption
  <2>3. seq_diff(cur, ab_write) \in 1 .. BufferFrames - 1
    <3>1. seq_diff(ab_read, ab_write) \in 0 .. MaxLead + Ahead - 1
      BY <1>1 DEF RingInv
    <3> QED BY <1>1, <2>2, <3>1, WindowFits DEF Oldest
  <2>4. seq_diff(cur, f) \in 0 .. BufferFrames - 1
    BY <2>1, <2>2, <2>3
  <2>5. seq_diff(cur, cur) \in 0 .. BufferFrames - 1
    BY <1>1, <2>2, <2>3, SeqDiffSelf
  <2> HIDE DEF f
  <2>6. f = cur
    BY <1>1, <2>1, <2>4, <2>5, OneInSlot
  <2> QED BY <2>6 DEF f
<1>3. Silence \notin Seqs
  BY JitterAssumption
<1>4. Slot(cur).ready \/ Slot(cur).frame = Silence
  BY DEF RingInv, TakenInHand
<1> QED BY <1>1, <1>2, <1>3, <1>4

\* The taken slot's flag is cleared: it is not the newest's.
LEMMA RingClear ==
    ASSUME KeepsUp, TypeOK, RingInv, ClearReady
    PROVE  RingInv'
<1>1. /\ ppc = "clear" /\ ppc' = "copy" /\ ab_synced
      /\ UNCHANGED <<cursors, receiver, cur, out>>
  BY DEF ClearReady, TypeOK
<1>2. BUFIDX(cur) # BUFIDX(ab_write) /\ BUFIDX(cur) \in Slots
  BY <1>1, TakenNotNewest, TakenIsOwn
<1>3. /\ \A i \in Slots : audio_buffer'[i].frame = audio_buffer[i].frame
      /\ \A i \in Slots : i # BUFIDX(cur) => audio_buffer'[i] = audio_buffer[i]
      /\ ~ audio_buffer'[BUFIDX(cur)].ready
  BY <1>2 DEF ClearReady, TypeOK
<1>4. BUFIDX(ab_write) \in Slots
  BY SlotType DEF TypeOK
<1>5. NewestInRing'
  BY <1>1, <1>2, <1>3, <1>4 DEF RingInv, NewestInRing, Slot, cursors, receiver
<1>6. ReadyInWindow'
  BY <1>1, <1>3 DEF RingInv, ReadyInWindow, Oldest, cursors
<1>7. TakenInHand'
  BY <1>1, <1>2, <1>3, TakenIsOwn DEF RingInv, TakenInHand, Slot, cursors
<1> QED BY <1>1, <1>5, <1>6, <1>7 DEF RingInv, cursors, receiver

\* The output plays the frame in hand, the one before ab_read.
LEMMA RingPlay ==
    ASSUME KeepsUp, TypeOK, RingInv, PlayFrame
    PROVE  RingInv'
<1>1. /\ ppc = "copy" /\ ppc' = "poll" /\ ab_synced
      /\ UNCHANGED <<cursors, audio_buffer, receiver>>
  BY DEF PlayFrame, RingInv, EmptyRing
<1>2. {MaxLead, Ahead, Half, BufferFrames} \subseteq Nat
  BY HalfFacts, SeqAssumption, JitterAssumption
<1>3. cur \in Seqs /\ ab_read \in Seqs /\ ab_write \in Seqs /\ ab_read = SeqAdd(cur, 1)
  BY <1>1 DEF TypeOK, RingInv, TakenInHand
<1>4. /\ seq_diff(ab_read, ab_write) \in 0 .. MaxLead + Ahead - 1
      /\ seq_diff(cur, ab_write) = seq_diff(ab_read, ab_write) + 1
      /\ MaxLead + Ahead < Half
  BY <1>1, <1>2, WindowFits DEF RingInv, Oldest
<1>5. ReadyInWindow'
  <2> SUFFICES ASSUME NEW i \in Slots, audio_buffer[i].ready
               PROVE  LET f == audio_buffer[i].frame
                      IN  /\ f \in Seqs /\ BUFIDX(f) = i
                          /\ seq_diff(ab_read, f) \in 0 .. seq_diff(ab_read, ab_write)
    BY <1>1 DEF ReadyInWindow, Oldest, cursors
  <2> DEFINE f == audio_buffer[i].frame
  <2>1. f \in Seqs /\ BUFIDX(f) = i /\ seq_diff(cur, f) \in 0 .. seq_diff(cur, ab_write)
    BY <1>1 DEF RingInv, ReadyInWindow, Oldest
  <2>2. f # cur
    BY <1>1, <2>1 DEF RingInv, TakenInHand, Slot
  <2> HIDE DEF f
  <2>3. seq_diff(cur, f) # 0
    BY <1>3, <2>1, <2>2, SeqDiffZero
  <2>4. seq_diff(ab_read, f) = seq_diff(cur, f) - 1
    <3>1. seq_diff(cur, f) - 1 \in -Half .. Half - 1
      BY <1>2, <1>4, <2>1, <2>3
    <3> QED BY <1>3, <2>1, <3>1, SeqDiffAdvance
  <2>5. seq_diff(ab_read, f) \in 0 .. seq_diff(ab_read, ab_write)
    BY <1>2, <1>4, <2>1, <2>3, <2>4
  <2> QED BY <2>1, <2>5 DEF f
<1>6. NewestInRing' /\ TakenInHand'
  BY <1>1 DEF RingInv, NewestInRing, TakenInHand, Slot, cursors, receiver
<1> QED BY <1>1, <1>5, <1>6 DEF RingInv, cursors, receiver

\* and so by every step.
LEMMA RingStep == ASSUME KeepsUp, TypeOK, RingInv, [Next]_vars PROVE RingInv'
<1>1. ASSUME NEW seqno \in Seqs, PutPacket(seqno) PROVE RingInv'
  BY <1>1, RingPut
<1>2. CASE Decode \/ MarkReady \/ FinishPut
  BY <1>2, RingReceive
<1>3. CASE PollBuffering \/ Underrun \/ UNCHANGED vars
  BY <1>3 DEF PollBuffering, Underrun, vars, cursors, receiver, player, RingInv,
              EmptyRing, NewestInRing, ReadyInWindow, TakenInHand, Oldest, Slot
<1>4. CASE TakeFrame
  BY <1>4, RingTake
<1>5. CASE ClearReady
  BY <1>5, RingClear
<1>6. CASE PlayFrame
  BY <1>6, RingPlay
<1>7. CASE Flush
  BY <1>7 DEF Flush, TypeOK, KeepsUp
<1> QED BY <1>1, <1>2, <1>3, <1>4, <1>5, <1>6, <1>7 DEF Next, ReceiverStep, PlayerStep

-----------------------------------------------------------------------------
\* What the ring is as a stream: the next position to play.
Due == IF ~ab_synced THEN NoSeq
       ELSE IF ppc \in {"clear", "copy"} THEN cur ELSE ab_read
StreamStep == [Stream!Next]_<<Due, Received, out>>

\* A position is received if its slot says so, or the receiver has it in hand.
LEMMA ReceivedIff ==
    ASSUME TypeOK, NEW p \in Seqs
    PROVE  p \in Received <=>
             \/ Slot(p).frame = p /\ (Slot(p).ready \/ (ppc = "copy" /\ p = cur))
             \/ rpc \in {"decode", "mark"} /\ p = rseq
BY DEF Received, Slot

\* What is received is positions.
LEMMA ReceivedType == TypeOK => Received \subseteq Seqs
BY DEF Received, TypeOK

\* The newest position is received and not played, and no other received
\* position is in its slot or after it.
LEMMA ReceivedInWindow ==
    ASSUME KeepsUp, TypeOK, RingInv, ab_synced
    PROVE  /\ ab_write \in Received
           /\ \A p \in Received :
                seq_diff(Oldest, p) \in 0 .. seq_diff(Oldest, ab_write)
           /\ \A p \in Received : BUFIDX(p) = BUFIDX(ab_write) => p = ab_write
<1>1. ab_write \in Received
  BY ReceivedIff DEF TypeOK, RingInv, NewestInRing, Slot
<1>2. {MaxLead, Ahead, Half, BufferFrames} \subseteq Nat
  BY HalfFacts, SeqAssumption, JitterAssumption
<1>3. seq_diff(Oldest, ab_write) \in 0 .. BufferFrames - 1 /\ Oldest \in Seqs
  BY <1>2, WindowFits DEF RingInv
<1>4. ASSUME NEW p \in Received
      PROVE  seq_diff(Oldest, p) \in 0 .. seq_diff(Oldest, ab_write)
  <2>1. p \in Seqs /\ BUFIDX(p) \in Slots
    BY ReceivedType, SlotType
  <2>2. CASE Slot(p).ready /\ Slot(p).frame = p
    BY <2>1, <2>2 DEF RingInv, ReadyInWindow, Slot
  <2>3. CASE ppc = "copy" /\ p = cur
    BY <1>2, <1>3, <2>1, <2>3, SeqDiffSelf DEF Oldest
  <2>4. CASE p = ab_write
    BY <1>3, <2>4
  <2> QED BY <2>1, <2>2, <2>3, <2>4, ReceivedIff DEF RingInv, NewestInRing
<1>5. ASSUME NEW p \in Received, BUFIDX(p) = BUFIDX(ab_write) PROVE p = ab_write
  <2>1. p \in Seqs /\ ab_write \in Seqs
    BY ReceivedType DEF TypeOK
  <2>2. seq_diff(Oldest, p) \in 0 .. BufferFrames - 1
    BY <1>2, <1>3, <1>4
  <2> QED BY <1>3, <1>5, <2>1, <2>2, OneInSlot
<1> QED BY <1>1, <1>4, <1>5

\* A newer packet's position is not received yet.
LEMMA NewerIsNew ==
    ASSUME KeepsUp, TypeOK, RingInv, NEW seqno \in Seqs, NewerPacket(seqno)
    PROVE  seqno \notin Received
<1>1. {MaxLead, Ahead, Half, BufferFrames} \subseteq Nat
  BY HalfFacts, SeqAssumption, JitterAssumption
<1>2. /\ seq_diff(ab_read, ab_write) \in 0 .. MaxLead - 1 /\ ab_synced
      /\ seq_diff(ab_write, seqno) \in 1 .. Ahead
  BY <1>1 DEF NewerPacket, RingInv
<1>3. /\ seq_diff(Oldest, ab_write) \in 0 .. MaxLead /\ Oldest \in Seqs
      /\ MaxLead + Ahead < Half
  BY <1>1, <1>2, WindowFits
<1>4. seq_diff(Oldest, seqno) = seq_diff(Oldest, ab_write) + seq_diff(ab_write, seqno)
  BY <1>1, <1>2, <1>3, SeqDiffSum DEF TypeOK
<1>5. ~(seq_diff(Oldest, seqno) \in 0 .. seq_diff(Oldest, ab_write))
  BY <1>1, <1>2, <1>3, <1>4
<1> QED BY <1>2, <1>5, ReceivedInWindow

\* player_put_packet begins the stream, receives a position, or has it already.
LEMMA PutMaps ==
    ASSUME KeepsUp, TypeOK, TypeOK', RingInv, NEW seqno \in Seqs, PutPacket(seqno)
    PROVE  StreamStep
<1>1. /\ FirstPacket(seqno) \/ NewerPacket(seqno) \/ SamePacket(seqno)
      /\ ab_synced' /\ rseq' = seqno /\ rpc = "idle" /\ ppc # "clear"
      /\ UNCHANGED <<audio_buffer, rclash, ppc, cur, out>>
  BY PutCases
<1>2. \A p \in Seqs : Slot(p)' = Slot(p)
  BY <1>1 DEF Slot
<1>3. CASE FirstPacket(seqno)
  <2>1. Due = NoSeq /\ Due' = seqno
    BY <1>1, <1>3 DEF Due, FirstPacket, RingInv, EmptyRing
  <2>2. \A p \in Seqs : p \in Received' <=> p = seqno
    <3>1. \A p \in Seqs : ~Slot(p).ready
      BY <1>3, SlotType DEF FirstPacket, RingInv, EmptyRing, Slot
    <3> QED BY <1>1, <1>2, <1>3, <3>1, ReceivedIff
            DEF FirstPacket, RingInv, EmptyRing, Received, Slot
  <2>3. Received' = {seqno}
    BY <2>2, ReceivedType, <1>1 DEF Received, TypeOK
  <2>4. Stream!Begin
    BY <1>1, <2>1, <2>3 DEF Stream!Begin, Stream!Seqs, Seqs, Due
  <2> QED BY <2>4 DEF StreamStep, Stream!Next
<1>4. CASE NewerPacket(seqno)
  <2>1. Due' = Due /\ Due # NoSeq /\ ab_synced
    BY <1>1, <1>4, JitterAssumption DEF Due, NewerPacket, TypeOK
  <2>2. \A p \in Seqs : p \in Received' <=> p \in Received \/ p = seqno
    BY <1>1, <1>2, <1>4 DEF NewerPacket, Received, Slot
  <2>3. Received' = Received \cup {seqno}
    BY <2>2, ReceivedType, <1>1 DEF Received, TypeOK
  <2>4. seqno \notin Received
    BY <1>4, NewerIsNew
  <2>5. Stream!Receive
    BY <1>1, <2>1, <2>3, <2>4 DEF Stream!Receive, Stream!Seqs, Seqs, Due
  <2> QED BY <2>5 DEF StreamStep, Stream!Next
<1>5. CASE SamePacket(seqno)
  <2>1. Due' = Due /\ ab_synced
    BY <1>1, <1>5 DEF Due, SamePacket
  <2>2. \A p \in Seqs : p \in Received' <=> p \in Received
    BY <1>1, <1>2, <1>5, <2>1, ReceivedInWindow DEF SamePacket, Received, Slot
  <2>3. Received' = Received
    BY <2>2, ReceivedType, <1>1 DEF Received, TypeOK
  <2> QED BY <1>1, <2>1, <2>3 DEF StreamStep
<1> QED BY <1>1, <1>3, <1>4, <1>5

\* What the receiver does without the lock receives nothing and loses nothing.
LEMMA ReceiveMaps ==
    ASSUME KeepsUp, TypeOK, RingInv, Decode \/ MarkReady \/ FinishPut
    PROVE  StreamStep
<1>1. UNCHANGED <<Due, out, ppc, cur, ab_write>>
  BY DEF Decode, MarkReady, FinishPut, cursors, player, Due
<1>2. CASE Decode \/ MarkReady
  <2>1. ab_synced /\ rseq = ab_write /\ rseq' = ab_write /\ ab_write \in Seqs
    BY <1>1, <1>2 DEF Decode, MarkReady, RingInv, EmptyRing, NewestInRing, TypeOK
  <2>2. /\ Slot(ab_write)'.frame = ab_write
        /\ \/ rpc' = "mark"
           \/ rpc' = "second" /\ Slot(ab_write)'.ready
        /\ \A i \in Slots : i # BUFIDX(ab_write) => audio_buffer'[i] = audio_buffer[i]
    BY <1>1, <1>2, <2>1, SlotType
    DEF Decode, MarkReady, Slot, TypeOK, RingInv, NewestInRing
  <2>3. ab_write \in Received /\ ab_write \in Received'
    BY <1>1, <2>1, <2>2, ReceivedInWindow DEF Received, Slot
  <2>4. ASSUME NEW p \in Seqs, p # ab_write PROVE p \in Received' <=> p \in Received
    <3>1. CASE BUFIDX(p) = BUFIDX(ab_write)
      <4>1. p \notin Received
        BY <2>1, <2>4, <3>1, ReceivedInWindow
      <4>2. p \notin Received'
        BY <1>1, <2>1, <2>2, <2>4, <3>1 DEF Received, Slot
      <4> QED BY <4>1, <4>2
    <3>2. CASE BUFIDX(p) # BUFIDX(ab_write)
      <4>1. Slot(p)' = Slot(p)
        BY <1>1, <2>2, <3>2, SlotType DEF Slot
      <4> QED BY <1>1, <2>1, <2>4, <4>1 DEF Received, Slot
    <3> QED BY <3>1, <3>2
  <2>5. Received' = Received
    <3>1. Received' \subseteq Seqs
      BY <2>1 DEF Received
    <3> QED BY <2>3, <2>4, <3>1, ReceivedType
  <2> QED BY <1>1, <2>5 DEF StreamStep
<1>3. CASE FinishPut
  <2>1. Received' = Received
    BY <1>1, <1>3 DEF FinishPut, Received, player
  <2> QED BY <1>1, <2>1 DEF StreamStep
<1> QED BY <1>2, <1>3

\* The player pauses while there is nothing to play,
LEMMA PauseMaps ==
    ASSUME TypeOK, PollBuffering \/ Underrun
    PROVE  StreamStep
<1>1. Received' = Received /\ Due' = Due
  BY DEF PollBuffering, Underrun, Received, Due, receiver, cursors
<1>2. out' = out \/ out' = Stream!NoFrame
  BY DEF PollBuffering, Underrun, Stream!NoFrame
<1>3. CASE out' = out
  BY <1>1, <1>3 DEF StreamStep
<1>4. CASE out' = Stream!NoFrame
  <2>1. Stream!Pause
    BY <1>1, <1>4 DEF Stream!Pause, Due
  <2> QED BY <2>1 DEF StreamStep, Stream!Next
<1> QED BY <1>2, <1>3, <1>4

\* takes the position that is due, whose frame stays received until it is
\* played,
LEMMA TakeMaps ==
    ASSUME KeepsUp, TypeOK, RingInv, TakeFrame
    PROVE  StreamStep
<1>1. Due' = Due /\ out' = out /\ ppc = "take" /\ ppc' = "clear" /\ UNCHANGED <<rpc, rseq>>
  BY TakesInOrder DEF TakeFrame, Due
<1>2. ab_read \in Seqs /\ BUFIDX(ab_read) \in Slots
  BY SlotType DEF TypeOK
<1>3. /\ \A i \in Slots : audio_buffer'[i].ready = audio_buffer[i].ready
      /\ \A i \in Slots : audio_buffer[i].ready =>
            audio_buffer'[i].frame = audio_buffer[i].frame
  BY <1>2, TakesInOrder DEF TakeFrame, TypeOK
<1>4. \A p \in Seqs : p \in Received' <=> p \in Received
  BY <1>1, <1>3, SlotType DEF Received
<1>5. Received' \subseteq Seqs /\ Received \subseteq Seqs
  BY <1>1, ReceivedType DEF Received, TypeOK
<1>6. Received' = Received
  BY <1>4, <1>5
<1> QED BY <1>1, <1>6 DEF StreamStep

\* Clearing the flag of the taken slot is no step of the stream.
LEMMA ClearMaps ==
    ASSUME KeepsUp, TypeOK, RingInv, ClearReady
    PROVE  StreamStep
<1>1. Due' = Due /\ out' = out /\ UNCHANGED <<rpc, rseq, cur>>
      /\ ppc = "clear" /\ ppc' = "copy"
  BY DEF ClearReady, Due, cursors, receiver
<1>2. cur \in Seqs /\ BUFIDX(cur) \in Slots /\ ab_synced
  BY <1>1, TakenIsOwn
<1>3. /\ \A i \in Slots : audio_buffer'[i].frame = audio_buffer[i].frame
      /\ \A i \in Slots : i # BUFIDX(cur) => audio_buffer'[i] = audio_buffer[i]
      /\ ~ audio_buffer'[BUFIDX(cur)].ready
  BY <1>2 DEF ClearReady, TypeOK
<1>4. ASSUME NEW p \in Seqs PROVE p \in Received' <=> p \in Received
  <2>1. CASE BUFIDX(p) = BUFIDX(cur)
    BY <1>1, <1>2, <1>3, <1>4, <2>1, TakenIsOwn, JitterAssumption DEF Received, Slot
  <2>2. CASE BUFIDX(p) # BUFIDX(cur)
    BY <1>1, <1>3, <1>4, <2>2, SlotType DEF Received
  <2> QED BY <2>1, <2>2
<1>5. Received' \subseteq Seqs /\ Received \subseteq Seqs
  BY <1>1, ReceivedType DEF Received, TypeOK
<1>6. Received' = Received
  BY <1>4, <1>5
<1> QED BY <1>1, <1>6 DEF StreamStep

\* and plays it: with its frame exactly if that was received.
LEMMA PlayMaps ==
    ASSUME KeepsUp, TypeOK, RingInv, PlayFrame
    PROVE  StreamStep
<1>1. /\ ppc = "copy" /\ ppc' = "poll" /\ ab_synced
      /\ UNCHANGED <<cursors, audio_buffer, receiver>>
  BY DEF PlayFrame, RingInv, EmptyRing
<1>2. cur \in Seqs /\ ab_write \in Seqs /\ ab_read = SeqAdd(cur, 1) /\ BUFIDX(cur) \in Slots
  BY <1>1, SlotType DEF TypeOK, RingInv, TakenInHand
<1>3. Due = cur /\ Due' = SeqAdd(cur, 1)
  BY <1>1, <1>2 DEF Due, cursors
<1>4. BUFIDX(cur) # BUFIDX(ab_write)
  BY <1>1, TakenNotNewest
<1>5. rpc \in {"decode", "mark"} => rseq = ab_write
  BY <1>1 DEF RingInv, NewestInRing
<1>6. Slot(cur).frame \in {cur, Silence} /\ ~Slot(cur).ready /\ Silence \notin Seqs
  BY <1>1, JitterAssumption DEF RingInv, TakenInHand
<1>7. cur \in Received <=> Slot(cur).frame = cur
  BY <1>1, <1>2, <1>4, <1>5, ReceivedIff
<1>8. out' = [pos |-> cur, frame |-> IF cur \in Received THEN cur ELSE Silence]
  <2>1. out' = [pos |-> cur, frame |-> Slot(cur).frame]
    BY <1>4, <1>5 DEF PlayFrame, Slot
  <2> QED BY <1>6, <1>7, <2>1
<1>9. ASSUME NEW p \in Seqs PROVE p \in Received' <=> p \in Received /\ p # cur
  BY <1>1, <1>2, <1>4, <1>5, <1>6, <1>9 DEF Received, Slot, receiver
<1>10. Received' = Received \ {cur}
  <2>1. Received' \subseteq Seqs /\ Received \subseteq Seqs
    BY <1>1, ReceivedType DEF Received, TypeOK, receiver
  <2> QED BY <1>9, <2>1
<1>11. ab_write \in Received /\ Stream!seq_order(cur, ab_write)
  <2>1. {MaxLead, Ahead} \subseteq Nat
    BY JitterAssumption
  <2>2. seq_diff(cur, ab_write) > 0
    BY <1>1, <2>1, WindowFits DEF RingInv, Oldest
  <2> QED BY <1>1, <2>2, ReceivedInWindow
          DEF Stream!seq_order, Stream!seq_diff, seq_diff, Stream!Half, Half
<1>12. SeqAdd(cur, 1) = Stream!SeqAdd(cur, 1) /\ cur # NoSeq
  BY <1>2, JitterAssumption DEF SeqAdd, Stream!SeqAdd
<1>13. Stream!Play
  BY <1>3, <1>8, <1>10, <1>11, <1>12 DEF Stream!Play, Due
<1> QED BY <1>13 DEF StreamStep, Stream!Next

\* Every step is one of the stream, or none.
LEMMA StreamNext ==
    ASSUME KeepsUp, TypeOK, TypeOK', RingInv, [Next]_vars
    PROVE  StreamStep
<1>1. ASSUME NEW seqno \in Seqs, PutPacket(seqno) PROVE StreamStep
  BY <1>1, PutMaps
<1>2. CASE Flush
  BY <1>2 DEF Flush, TypeOK, KeepsUp
<1>3. CASE UNCHANGED vars
  BY <1>3 DEF StreamStep, vars, cursors, receiver, player, Received, Due
<1> QED BY <1>1, <1>2, <1>3, ReceiveMaps, PauseMaps, TakeMaps, ClearMaps, PlayMaps
        DEF Next, ReceiverStep, PlayerStep

\* PlaysStream: while the player keeps up, the ring implements AudioStream.
\* Every position is played once, in order, with its own frame if that was
\* received and as silence if it was lost; a frame that was received is never
\* dropped, repeated or played at another's place by buffer_get_frame, and
\* never overwritten in its slot by player_put_packet.
THEOREM Implements == ASSUME KeepsUp PROVE Spec => PlaysStream
<1>1. Init => Stream!Init
  <2> SUFFICES ASSUME Init PROVE Stream!Init
    OBVIOUS
  <2>1. Received = {}
    BY SlotType DEF Init, Received
  <2> QED BY <2>1 DEF Init, Stream!Init, Stream!NoFrame
<1>2. Init => RingInv
  BY RingInit
<1>3. TypeOK /\ RingInv /\ [Next]_vars => RingInv'
  BY RingStep
<1>4. TypeOK /\ TypeOK' /\ RingInv /\ [Next]_vars => [Stream!Next]_<<Due, Received, out>>
  BY StreamNext DEF StreamStep
<1> QED BY <1>1, <1>2, <1>3, <1>4, TypeCorrect, PTL DEF Spec, PlaysStream, Stream!Spec, Due

-----------------------------------------------------------------------------
\* What the last-chance check asks for, in the step that makes it.
LastChanceStep ==
    ppc = "take" /\ ppc' = "clear" /\ ~ab_buffering =>
         \A i \in Lookahead :
            LET p == SeqAdd(ab_read', i)
            IN  audio_buffer[BUFIDX(p)].frame = p \/ p \in LastChance(ab_read')

\* A slot that the check looks at and finds ready holds the frame it is about:
\* both are less than a ring after the position that is taken.
LEMMA NextLastChance ==
    ASSUME KeepsUp, TypeOK, RingInv, [Next]_vars
    PROVE  [LastChanceStep]_vars
<1>1. CASE TakeFrame
  <2> SUFFICES ASSUME NEW i \in Lookahead,
                      audio_buffer[BUFIDX(SeqAdd(ab_read', i))].ready
               PROVE  audio_buffer[BUFIDX(SeqAdd(ab_read', i))].frame = SeqAdd(ab_read', i)
    BY DEF LastChanceStep, LastChance
  <2> DEFINE p == SeqAdd(ab_read', i)
             f == Slot(p).frame
  <2>1. {Half, BufferFrames, MaxLead, Ahead} \subseteq Nat
    BY HalfFacts, SeqAssumption, JitterAssumption
  <2>2. BufferFrames < Half /\ i + 1 \in 0 .. BufferFrames - 1 /\ i \in Nat
    BY <2>1, JitterAssumption DEF Lookahead
  <2>3. ab_read \in Seqs /\ ab_read' = SeqAdd(ab_read, 1)
    BY TakesInOrder, <1>1 DEF TypeOK, TakeFrame
  <2>4. ab_read' \in Seqs /\ p \in Seqs
    BY <2>2, <2>3, SeqAddType
  <2>5. seq_diff(ab_read, p) = i + 1
    <3>1. seq_diff(ab_read, ab_read') = 1 /\ seq_diff(ab_read', p) = i
      BY <2>1, <2>2, <2>3, <2>4, SeqDiffAdd
    <3> QED BY <2>1, <2>2, <2>3, <2>4, <3>1, SeqDiffSum
  <2>6. /\ f \in Seqs /\ BUFIDX(f) = BUFIDX(p)
        /\ seq_diff(ab_read, f) \in 0 .. seq_diff(ab_read, ab_write)
    BY <1>1, <2>4, SlotType, TakesInOrder DEF RingInv, ReadyInWindow, Slot
  <2>7. seq_diff(ab_read, f) \in 0 .. BufferFrames - 1
    BY <1>1, <2>1, <2>6, TakesInOrder
  <2> HIDE DEF p, f
  <2>8. f = p
    BY <2>2, <2>3, <2>4, <2>5, <2>6, <2>7, OneInSlot
  <2> QED BY <2>8 DEF f, p, Slot
<1>2. ppc = "take" /\ ppc' = "clear" => TakeFrame \/ UNCHANGED vars
  BY DEF Next, ReceiverStep, PlayerStep, PutPacket, Decode, MarkReady, FinishPut,
         PollBuffering, Underrun, ClearReady, PlayFrame, Flush, player, vars
<1> QED BY <1>1, <1>2 DEF LastChanceStep

\* LastChanceTaken: while the player keeps up, buffer_get_frame's last-chance
\* check misses no position it looks at: a frame of an earlier or a later lap
\* is never taken for the one that is wanted.
THEOREM LastChances == ASSUME KeepsUp PROVE Spec => LastChanceTaken
<1>1. Init => RingInv
  BY RingInit
<1>2. TypeOK /\ RingInv /\ [Next]_vars => RingInv'
  BY RingStep
<1>3. TypeOK /\ RingInv /\ [Next]_vars => [LastChanceStep]_vars
  BY NextLastChance
<1> QED BY <1>1, <1>2, <1>3, TypeCorrect, PTL DEF Spec, LastChanceTaken, LastChanceStep
===============================================================================
