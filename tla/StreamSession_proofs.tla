------------------------- MODULE StreamSession_proofs -------------------------
(***************************************************************************)
(* Theorems about StreamSession: starting and stopping a stream leaves no  *)
(* use of freed memory, nothing behind, and no resend request of the       *)
(* receiver without a running stream, but for packets that come before the *)
(* stream is up.                                                           *)
(***************************************************************************)
EXTENDS StreamSession, TLAPS

\* Nothing is up at the start.
LEMMA SessionInit == Init => SessionInv
BY DEF Init, SessionInv, TypeOK, StreamMatchesConversation, MutexFollowsPlayer

\* The conversation's steps keep the invariant.
LEMMA ConverseKeeps ==
    ASSUME SessionInv, (Alive /\ (BindPort \/ Flush \/ AskReceiver)) \/ Converse
    PROVE  SessionInv'
<1> USE DEF SessionInv, TypeOK, StreamMatchesConversation, MutexFollowsPlayer, Starting,
           shared
<1>1. CASE BindPort
  BY <1>1 DEF BindPort
<1>2. CASE AskReceiver
  BY <1>2 DEF AskReceiver
<1>3. CASE SetRunning
  BY <1>3 DEF SetRunning
<1>4. CASE PlayerPlay
  BY <1>4 DEF PlayerPlay
<1>5. CASE SignalReceiver
  BY <1>5 DEF SignalReceiver
<1>6. CASE JoinReceiver
  BY <1>6 DEF JoinReceiver
<1>7. CASE AskPlayer
  BY <1>7 DEF AskPlayer
<1>8. CASE JoinPlayer
  BY <1>8 DEF JoinPlayer
<1>9. CASE Flush
  BY <1>9 DEF Flush
<1> QED
  BY <1>1, <1>2, <1>3, <1>4, <1>5, <1>6, <1>7, <1>8, <1>9 DEF Converse

\* So do the receiver thread's.
LEMMA ReceiverKeeps ==
    ASSUME SessionInv, Receiver \/ Recv \/ RecvFails
    PROVE  SessionInv'
<1> USE DEF SessionInv, TypeOK, StreamMatchesConversation, MutexFollowsPlayer, Starting,
           shared
<1>1. CASE CheckShutdown
  BY <1>1 DEF CheckShutdown
<1>2. CASE EnterRecv
  BY <1>2 DEF EnterRecv
<1>3. CASE Recv
  BY <1>3 DEF Recv
<1>4. CASE PutPacket
  BY <1>4 DEF PutPacket
<1>5. CASE PutAfterGap
  <2>1. running \/ Starting
    BY <1>5 DEF PutAfterGap
  <2> QED
    BY <1>5, <2>1 DEF PutAfterGap
<1>6. CASE Decode
  BY <1>6 DEF Decode
<1>7. CASE SecondSection
  BY <1>7 DEF SecondSection
<1>8. CASE CloseSock
  BY <1>8 DEF CloseSock
<1>9. CASE RecvFails
  BY <1>9 DEF RecvFails
<1> QED
  BY <1>1, <1>2, <1>3, <1>4, <1>5, <1>6, <1>7, <1>8, <1>9 DEF Receiver

\* And the player thread's.
LEMMA PlayerKeeps ==
    ASSUME SessionInv, Player
    PROVE  SessionInv'
<1> USE DEF SessionInv, TypeOK, StreamMatchesConversation, MutexFollowsPlayer, Starting,
           shared
<1>1. CASE CheckStop
  BY <1>1 DEF CheckStop
<1>2. CASE NoFrame
  BY <1>2 DEF NoFrame
<1>3. CASE TakeFrame
  BY <1>3 DEF TakeFrame
<1>4. CASE AllArrived
  BY <1>4 DEF AllArrived
<1>5. CASE RequestResend
  BY <1>5 DEF RequestResend
<1>6. CASE ReleaseFrame
  BY <1>6 DEF ReleaseFrame
<1>7. CASE CopyFrame
  BY <1>7 DEF CopyFrame
<1>8. CASE PlayOutput
  BY <1>8 DEF PlayOutput
<1> QED
  BY <1>1, <1>2, <1>3, <1>4, <1>5, <1>6, <1>7, <1>8 DEF Player

\* The conversation's place decides what the two threads and the stream's
\* resources are, in every reachable state.
THEOREM Session == Spec => []SessionInv
<1>1. SessionInv /\ [Next]_vars => SessionInv'
  <2> SUFFICES ASSUME SessionInv, [Next]_vars PROVE SessionInv'
    OBVIOUS
  <2>1. CASE Next
    BY <2>1, ConverseKeeps, ReceiverKeeps, PlayerKeeps DEF Next
  <2>2. CASE UNCHANGED vars
    BY <2>2 DEF vars, shared, SessionInv, TypeOK, StreamMatchesConversation,
                MutexFollowsPlayer, Starting
  <2> QED
    BY <2>1, <2>2
<1> QED
  BY SessionInit, <1>1, PTL DEF Spec

\* Neither thread touches the frames before player_play has allocated them or
\* after player_stop has freed them, the receiver of an early packet apart.
THEOREM NoUseAfterFree == Spec => []MemoryIsLive
<1>1. SessionInv => MemoryIsLive
  BY DEF SessionInv, MemoryIsLive, TypeOK, StreamMatchesConversation, Starting
<1> QED
  BY Session, <1>1, PTL

\* A stopped stream leaves no thread, lock, memory or socket behind.
THEOREM NothingLeftOver == Spec => []QuietWhenIdle
<1>1. SessionInv => QuietWhenIdle
  BY DEF SessionInv, QuietWhenIdle, TypeOK, StreamMatchesConversation,
         MutexFollowsPlayer
<1> QED
  BY Session, <1>1, PTL

\* The receiver never asks for a resend without a running stream, unless a packet
\* came before player_play was done.
THEOREM ReceiverLives == Spec => []ReceiverNeverDies
<1>1. SessionInv => ReceiverNeverDies
  BY DEF SessionInv, ReceiverNeverDies
<1> QED
  BY Session, <1>1, PTL
===============================================================================
