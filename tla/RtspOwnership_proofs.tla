------------------------- MODULE RtspOwnership_proofs -------------------------
(***************************************************************************)
(* For any number of connections, one after another or at once, with any    *)
(* reuse of thread ids, until a thread that was given an old player's id is *)
(* told that it plays: one thread at a time uses the player, a stream never *)
(* outlives its conversation, and the protocol implements ExclusivePlayer.  *)
(***************************************************************************)
EXTENDS RtspOwnership, TLAPS

USE DEF Threads, UsePlaces, Over, Idle, Taking

\* At the start the mutex is free and nothing streams.
LEMMA InitInv == Init => OwnershipInv
<1> SUFFICES ASSUME Init PROVE OwnershipInv
  OBVIOUS
<1> USE OwnershipAssumption DEF Init
<1>1. TypeOK
  BY DEF TypeOK, Places, Wants
<1>2. HoldsWhereItSays /\ NamesTheHolder /\ HolderIsNamed
  BY DEF HoldsWhereItSays, NamesTheHolder, HolderIsNamed
<1>3. StreamFollowsOwner
  BY DEF StreamFollowsOwner
<1>4. WantsAreKept
  BY DEF WantsAreKept
<1> QED BY <1>1, <1>2, <1>3, <1>4 DEF OwnershipInv, Basics, Protocol, StreamCallsPaired

-----------------------------------------------------------------------------
\* A conversation that moves past its probe keeps places and wishes.
LEMMA MoveKeepsBasics ==
    ASSUME Basics, NEW c \in Conns, TypeOK', want' = want,
           NEW l \in {"check", "read", "player_play", "player_stop", "reset",
                      "unlock", "finish", "gone"},
           pc' = [pc EXCEPT ![c] = l]
    PROVE  Basics'
BY OwnershipAssumption DEF Basics, TypeOK, WantsAreKept

\* rtsp_playing and rtsp_take_player keep places and wishes in order.
LEMMA TakePlayerBasics ==
    ASSUME Basics, NEW t \in Threads, TakePlayer(t)
    PROVE  Basics'
<1> USE OwnershipAssumption DEF At, Goto, stream, conns, named
<1>1. CASE ProbeFree(t)
  BY <1>1 DEF ProbeFree, Basics, TypeOK, WantsAreKept, Places, Wants
<1>2. CASE ProbeHeld(t)
  <2>1. want[t] \in Wants \ {"none"} /\ (want[t] = "exit" <=> t = Main) /\ pc[t] = "probe"
    BY <1>2 DEF ProbeHeld, Basics, TypeOK, WantsAreKept
  <2>2. PICK l \in {"flush", "teardown", "rtp_setup", "rtp_shutdown", "exit", "check",
                    "trylock", "finish"} :
           /\ pc' = [pc EXCEPT ![t] = l]
           /\ l = "exit" => t = Main
           /\ t = Main => l \in {"exit", "trylock"}
           /\ l = "trylock" => want[t] \in {"setup", "exit"}
    <3>1. CASE IsPlaying(t)
      BY <1>2, <2>1, <3>1 DEF ProbeHeld, IfPlaying, Wants
    <3>2. CASE ~IsPlaying(t)
      BY <1>2, <2>1, <3>2 DEF ProbeHeld, IfNot, Wants
    <3> QED BY <3>1, <3>2
  <2>3. TypeOK'
    BY <1>2, <2>2 DEF ProbeHeld, Basics, TypeOK, Places
  <2>4. WantsAreKept'
    BY <1>2, <2>1, <2>2 DEF ProbeHeld, Basics, TypeOK, WantsAreKept
  <2> QED BY <2>3, <2>4 DEF Basics
<1>3. CASE ProbeRelease(t)
  <2>1. want[t] \in Wants \ {"none"} /\ (want[t] = "exit" <=> t = Main) /\ pc[t] = "probed"
    BY <1>3 DEF ProbeRelease, Basics, TypeOK, WantsAreKept
  <2>2. PICK l \in {"check", "trylock", "finish"} :
           /\ pc' = [pc EXCEPT ![t] = l]
           /\ t = Main => l = "trylock"
           /\ l = "trylock" => want[t] \in {"setup", "exit"}
    BY <1>3, <2>1 DEF ProbeRelease, IfNot, Wants
  <2>3. TypeOK'
    BY <1>3, <2>2 DEF ProbeRelease, Basics, TypeOK, Places
  <2>4. WantsAreKept'
    BY <1>3, <2>1, <2>2 DEF ProbeRelease, Basics, TypeOK, WantsAreKept
  <2> QED BY <2>3, <2>4 DEF Basics
<1>4. CASE TryLock(t)
  <2>1. PICK l \in {"assign", "request"} : pc' = [pc EXCEPT ![t] = l]
    BY <1>4 DEF TryLock
  <2> QED BY <1>4, <2>1 DEF TryLock, Basics, TypeOK, WantsAreKept, Places
<1>5. CASE RequestShutdown(t)
  BY <1>5 DEF RequestShutdown, Basics, TypeOK, WantsAreKept, Places
<1>6. CASE Kill(t)
  BY <1>6 DEF Kill, Basics, TypeOK, WantsAreKept, Places
<1>7. CASE Lock(t)
  BY <1>7 DEF Lock, Basics, TypeOK, WantsAreKept, Places
<1>8. CASE Assign(t)
  <2>1. want[t] \in {"setup", "exit"} /\ (want[t] = "exit" <=> t = Main)
    BY <1>8 DEF Assign, Basics, TypeOK, WantsAreKept
  <2>2. PICK l \in {"rtp_setup", "exit"} :
           pc' = [pc EXCEPT ![t] = l] /\ (l = "exit" <=> t = Main)
    BY <1>8, <2>1 DEF Assign, IfPlaying
  <2>3. TypeOK'
    <3>1. inherited' \in BOOLEAN /\ playing_thread' \in Threads
      BY <1>8 DEF Assign
    <3>2. pc' \in [Threads -> Places]
      BY <2>2 DEF Basics, TypeOK, Places
    <3> QED BY <1>8, <3>1, <3>2 DEF Assign, Basics, TypeOK
  <2>4. WantsAreKept'
    BY <1>8, <2>1, <2>2 DEF Assign, Basics, TypeOK, WantsAreKept
  <2> QED BY <2>3, <2>4 DEF Basics
<1> QED
  BY <1>1, <1>2, <1>3, <1>4, <1>5, <1>6, <1>7, <1>8 DEF TakePlayer

\* So do a conversation's own steps.
LEMMA ConverseBasics ==
    ASSUME Basics, NEW c \in Conns, Converse(c)
    PROVE  Basics'
<1> USE OwnershipAssumption DEF At, Goto, stream, conns, named
<1>1. CASE TakePlayer(c)
  BY <1>1, TakePlayerBasics
<1>2. CASE CheckShutdown(c)
  <2>1. PICK l \in {"probe", "enter"} : pc' = [pc EXCEPT ![c] = l]
    BY <1>2 DEF CheckShutdown
  <2>2. WantsAreKept'
    BY <1>2 DEF CheckShutdown, Basics, TypeOK, WantsAreKept
  <2> QED BY <1>2, <2>1, <2>2 DEF CheckShutdown, Basics, TypeOK, Places, Wants
<1>4. CASE ReadEof(c)
  <2>1. TypeOK'
    BY <1>4 DEF ReadEof, Basics, TypeOK, Places, Wants
  <2>2. WantsAreKept'
    BY <1>4 DEF ReadEof, Basics, TypeOK, WantsAreKept
  <2> QED BY <2>1, <2>2 DEF Basics
<1>3. CASE EnterRead(c)
  <2>1. TypeOK'
    BY <1>3 DEF EnterRead, Basics, TypeOK, Places
  <2> QED BY <1>3, <2>1, MoveKeepsBasics DEF EnterRead
<1>5. CASE FlushPlayer(c)
  <2>1. TypeOK'
    BY <1>5 DEF FlushPlayer, Basics, TypeOK, Places
  <2> QED BY <1>5, <2>1, MoveKeepsBasics DEF FlushPlayer
<1>6. CASE Teardown(c)
  <2>1. TypeOK'
    BY <1>6 DEF Teardown, Basics, TypeOK, Places
  <2> QED BY <1>6, <2>1, MoveKeepsBasics DEF Teardown
<1>8. CASE PlayerPlay(c)
  <2>1. TypeOK'
    BY <1>8 DEF PlayerPlay, Basics, TypeOK, Places
  <2> QED BY <1>8, <2>1, MoveKeepsBasics DEF PlayerPlay
<1>10. CASE PlayerStop(c)
  <2>1. TypeOK'
    BY <1>10 DEF PlayerStop, Basics, TypeOK, Places
  <2> QED BY <1>10, <2>1, MoveKeepsBasics DEF PlayerStop
<1>11. CASE ResetShutdown(c)
  <2>1. TypeOK'
    BY <1>11 DEF ResetShutdown, Basics, TypeOK, Places
  <2> QED BY <1>11, <2>1, MoveKeepsBasics DEF ResetShutdown
<1>12. CASE Unlock(c)
  <2>1. TypeOK'
    BY <1>12 DEF Unlock, Basics, TypeOK, Places
  <2> QED BY <1>12, <2>1, MoveKeepsBasics DEF Unlock
<1>13. CASE Finish(c)
  <2>1. TypeOK'
    BY <1>13 DEF Finish, Basics, TypeOK, Places
  <2> QED BY <1>13, <2>1, MoveKeepsBasics DEF Finish
<1>7. CASE RtpSetup(c)
  <2>1. CASE rtp_running
    BY <1>7, <2>1 DEF RtpSetup, Basics, TypeOK, WantsAreKept
  <2>2. CASE ~rtp_running
    <3>1. TypeOK'
      BY <1>7, <2>2 DEF RtpSetup, Basics, TypeOK, Places
    <3> QED BY <1>7, <2>2, <3>1, MoveKeepsBasics DEF RtpSetup
  <2> QED BY <2>1, <2>2
<1>9. CASE RtpShutdown(c)
  <2>1. CASE ~rtp_running
    BY <1>9, <2>1 DEF RtpShutdown, Basics, TypeOK, WantsAreKept
  <2>2. CASE rtp_running
    <3>1. TypeOK'
      BY <1>9, <2>2 DEF RtpShutdown, Basics, TypeOK, Places
    <3> QED BY <1>9, <2>2, <3>1, MoveKeepsBasics DEF RtpShutdown
  <2> QED BY <2>1, <2>2
<1> HIDE DEF At, Goto, stream, conns, named
<1> QED
  BY <1>1, <1>2, <1>3, <1>4, <1>5, <1>6, <1>7, <1>8, <1>9, <1>10, <1>11, <1>12, <1>13
  DEF Converse

\* So does every step.
LEMMA NextBasics == ASSUME Basics, [Next]_vars PROVE Basics'
<1> USE OwnershipAssumption DEF At, Goto, stream, conns, named
<1>1. ASSUME NEW c \in Conns, Receive(c) PROVE Basics'
  <2>1. PICK l \in {"probe", "check"} : pc' = [pc EXCEPT ![c] = l]
    BY <1>1 DEF Receive
  <2>2. WantsAreKept'
    BY <1>1 DEF Receive, Basics, TypeOK, WantsAreKept
  <2> QED BY <1>1, <2>1, <2>2 DEF Receive, Basics, TypeOK, Places, Wants
<1>2. ASSUME NEW c \in Conns, HangUp(c) PROVE Basics'
  BY <1>2 DEF HangUp, Basics, TypeOK, WantsAreKept
<1>3. ASSUME NEW c \in Conns, Accept(c) PROVE Basics'
  <2>1. TypeOK'
    BY <1>3 DEF Accept, Basics, TypeOK, Places, Wants
  <2>2. WantsAreKept'
    BY <1>3 DEF Accept, Basics, TypeOK, WantsAreKept
  <2> QED BY <2>1, <2>2 DEF Basics
<1>4. ASSUME NEW c \in Conns, MarkRunning(c) PROVE Basics'
  BY <1>4 DEF MarkRunning, Basics, TypeOK, WantsAreKept, Places
<1>5. CASE TakePlayer(Main)
  BY <1>5, TakePlayerBasics
<1>6. CASE Cull
  BY <1>6 DEF Cull, Culled, Basics, TypeOK, WantsAreKept, Places
<1>7. CASE Exit
  BY <1>7 DEF Exit, Basics, TypeOK, WantsAreKept
<1>8. CASE Terminate
  BY <1>8 DEF Terminate, Basics, TypeOK, WantsAreKept, Places, Wants
<1>9. CASE UNCHANGED vars
  BY <1>9 DEF vars, Basics, TypeOK, WantsAreKept
<1> HIDE DEF At, Goto, stream, conns, named
<1>10. ASSUME NEW c \in Conns, Converse(c) PROVE Basics'
  BY <1>10, ConverseBasics
<1> QED
  BY <1>1, <1>2, <1>3, <1>4, <1>5, <1>6, <1>7, <1>8, <1>9, <1>10 DEF Next, MainStep

-----------------------------------------------------------------------------
\* rtsp_playing and rtsp_take_player keep the ownership invariant.
LEMMA TakePlayerInv ==
    ASSUME OwnershipInv, Basics', ~mistaken', NEW t \in Threads, TakePlayer(t)
    PROVE  OwnershipInv'
<1> USE OwnershipAssumption
    DEF OwnershipInv, Basics, Protocol, Sound, TypeOK, HoldsWhereItSays, NamesTheHolder,
        HolderIsNamed, StreamFollowsOwner, StreamCallsPaired, Places,
        Wants, At, Goto, stream, conns, named
<1>1. CASE ProbeFree(t)
  BY <1>1 DEF ProbeFree
<1>2. CASE ProbeHeld(t)
  <2>1. want[t] \in Wants \ {"none"} /\ (want[t] = "exit" <=> t = Main)
    BY <1>2 DEF ProbeHeld, WantsAreKept
  <2>2. CASE IsPlaying(t)
    <3>1. playing_mutex = t
      BY <1>2, <2>2 DEF ProbeHeld, IsPlaying
    <3>2. PICK l \in UsePlaces :
             /\ pc' = [pc EXCEPT ![t] = l]
             /\ l \in {"flush", "teardown", "rtp_setup", "rtp_shutdown", "exit"}
             /\ l = "exit" <=> t = Main
      BY <1>2, <2>1, <2>2 DEF ProbeHeld, IfPlaying
    <3> QED BY <1>2, <2>2, <3>1, <3>2 DEF ProbeHeld, IsPlaying
  <2>3. CASE ~IsPlaying(t)
    <3>1. playing_mutex # t
      BY <1>2, <2>3 DEF ProbeHeld, IsPlaying
    <3> QED BY <1>2, <2>1, <2>3, <3>1 DEF ProbeHeld, IsPlaying, IfNot
  <2> QED BY <2>2, <2>3
<1>3. CASE ProbeRelease(t)
  <2>1. PICK l \in {"check", "trylock", "finish"} : pc' = [pc EXCEPT ![t] = l]
    BY <1>3 DEF ProbeRelease, IfNot, WantsAreKept
  <2>2. playing_mutex = t /\ playing_mutex' = NoOne /\ ended' = "no"
    BY <1>3 DEF ProbeRelease
  <2>3. NamesTheHolder'
    BY <1>3, <2>1, <2>2 DEF ProbeRelease
  <2>4. HoldsWhereItSays' /\ HolderIsNamed'
    BY <1>3, <2>1, <2>2 DEF ProbeRelease
  <2>5. StreamFollowsOwner' /\ StreamCallsPaired'
    BY <1>3, <2>1, <2>2 DEF ProbeRelease
  <2> HIDE DEF NamesTheHolder, HoldsWhereItSays, HolderIsNamed, StreamFollowsOwner,
               StreamCallsPaired
  <2> QED BY <2>3, <2>4, <2>5
<1>4. CASE TryLock(t)
  BY <1>4 DEF TryLock
<1>5. CASE RequestShutdown(t)
  BY <1>5 DEF RequestShutdown
<1>6. CASE Kill(t)
  BY <1>6 DEF Kill
<1>7. CASE Lock(t)
  BY <1>7 DEF Lock
<1>8. CASE Assign(t)
  BY <1>8 DEF Assign, IfPlaying, WantsAreKept
<1> QED
  BY <1>1, <1>2, <1>3, <1>4, <1>5, <1>6, <1>7, <1>8 DEF TakePlayer

\* The stream after each step that changes a half of it.
LEMMA StreamAt ==
    ASSUME NEW c \in Conns, playing_mutex' = c,
           \/ pc'[c] = "player_play" /\ rtp_running' = TRUE  /\ player_up' = FALSE
           \/ pc'[c] = "check"       /\ rtp_running' = TRUE  /\ player_up' = TRUE
           \/ pc'[c] = "player_stop" /\ rtp_running' = FALSE /\ player_up' = TRUE
           \/ pc'[c] = "reset"       /\ rtp_running' = FALSE /\ player_up' = FALSE
    PROVE  StreamFollowsOwner'
BY DEF StreamFollowsOwner

\* A conversation's own steps keep the ownership invariant.
LEMMA ConverseInv ==
    ASSUME OwnershipInv, Basics', ~mistaken', NEW c \in Conns, Converse(c)
    PROVE  OwnershipInv'
<1> USE OwnershipAssumption
    DEF OwnershipInv, Basics, Protocol, Sound, TypeOK, HoldsWhereItSays, NamesTheHolder,
        HolderIsNamed, StreamFollowsOwner, WantsAreKept, StreamCallsPaired, Places,
        Wants, At, Goto, stream, conns, named
<1>1. CASE TakePlayer(c)
  BY <1>1, TakePlayerInv
<1>2. CASE CheckShutdown(c)
  BY <1>2 DEF CheckShutdown
<1>3. CASE EnterRead(c)
  BY <1>3 DEF EnterRead
<1>4. CASE ReadEof(c)
  BY <1>4 DEF ReadEof
<1>5. CASE FlushPlayer(c)
  BY <1>5 DEF FlushPlayer
<1>6. CASE Teardown(c)
  BY <1>6 DEF Teardown
<1>7. CASE RtpSetup(c)
  <2>1. playing_mutex = c
    BY <1>7 DEF RtpSetup
  <2>2. CASE rtp_running
    <3>1. player_up /\ playing_thread = c
      BY <1>7, <2>1, <2>2 DEF RtpSetup
    <3> QED BY <1>7, <2>1, <2>2, <3>1 DEF RtpSetup
  <2>3. CASE ~rtp_running
    <3>1. ~player_up
      BY <1>7, <2>1, <2>3 DEF RtpSetup
    <3>2. /\ playing_mutex' = c /\ pc' = [pc EXCEPT ![c] = "player_play"]
          /\ rtp_running' = TRUE /\ player_up' = FALSE
      BY <1>7, <2>1, <2>3, <3>1 DEF RtpSetup
    <3>3. StreamFollowsOwner'
      BY <3>2, StreamAt
    <3> HIDE DEF StreamFollowsOwner
    <3> QED BY <1>7, <2>1, <2>3, <3>2, <3>3 DEF RtpSetup
  <2> QED BY <2>2, <2>3
<1>8. CASE PlayerPlay(c)
  <2>1. playing_mutex = c /\ rtp_running
    BY <1>8 DEF PlayerPlay
  <2>2. /\ playing_mutex' = c /\ pc' = [pc EXCEPT ![c] = "check"]
        /\ rtp_running' = TRUE /\ player_up' = TRUE
    BY <1>8, <2>1 DEF PlayerPlay
  <2>3. StreamFollowsOwner'
    BY <2>2, StreamAt
  <2> HIDE DEF StreamFollowsOwner
  <2>4. TypeOK' /\ WantsAreKept' /\ StreamCallsPaired'
    BY <1>8, <2>2 DEF PlayerPlay
  <2>5. HoldsWhereItSays' /\ NamesTheHolder' /\ HolderIsNamed'
    BY <1>8, <2>1, <2>2 DEF PlayerPlay
  <2> HIDE DEF TypeOK, WantsAreKept, StreamCallsPaired, HoldsWhereItSays, NamesTheHolder,
               HolderIsNamed
  <2> QED BY <2>3, <2>4, <2>5
<1>9. CASE RtpShutdown(c)
  <2>1. playing_mutex = c /\ rtp_running
    BY <1>9 DEF RtpShutdown
  <2>2. player_up /\ c \in Conns
    BY <1>9, <2>1 DEF RtpShutdown
  <2>3. /\ playing_mutex' = c /\ pc' = [pc EXCEPT ![c] = "player_stop"]
        /\ rtp_running' = FALSE /\ player_up' = TRUE
    BY <1>9, <2>1, <2>2 DEF RtpShutdown
  <2>4. StreamFollowsOwner'
    BY <2>3, StreamAt
  <2> HIDE DEF StreamFollowsOwner
  <2>5. ended' = "no" /\ TypeOK' /\ WantsAreKept' /\ StreamCallsPaired'
    BY <1>9, <2>1, <2>3 DEF RtpShutdown
  <2>6. HoldsWhereItSays' /\ NamesTheHolder' /\ HolderIsNamed'
    BY <1>9, <2>1, <2>3 DEF RtpShutdown
  <2> HIDE DEF TypeOK, WantsAreKept, StreamCallsPaired, HoldsWhereItSays, NamesTheHolder,
               HolderIsNamed
  <2> QED BY <2>4, <2>5, <2>6
<1>10. CASE PlayerStop(c)
  <2>1. playing_mutex = c /\ ~rtp_running
    BY <1>10 DEF PlayerStop
  <2>2. /\ playing_mutex' = c /\ pc' = [pc EXCEPT ![c] = "reset"]
        /\ rtp_running' = FALSE /\ player_up' = FALSE
    BY <1>10, <2>1 DEF PlayerStop
  <2>3. StreamFollowsOwner'
    BY <2>2, StreamAt
  <2> HIDE DEF StreamFollowsOwner
  <2>4. TypeOK' /\ WantsAreKept' /\ StreamCallsPaired'
    <3>1. ended = "no" /\ ended' = "no"
      BY <1>10 DEF PlayerStop
    <3>2. TypeOK'
      BY <1>10, <2>2 DEF PlayerStop
    <3>3. WantsAreKept'
      BY <1>10, <2>2 DEF PlayerStop
    <3>4. StreamCallsPaired'
      BY <3>1
    <3> HIDE DEF TypeOK, WantsAreKept, StreamCallsPaired
    <3> QED BY <3>2, <3>3, <3>4
  <2>5. HoldsWhereItSays' /\ NamesTheHolder' /\ HolderIsNamed'
    BY <1>10, <2>1, <2>2 DEF PlayerStop
  <2> HIDE DEF TypeOK, WantsAreKept, StreamCallsPaired, HoldsWhereItSays, NamesTheHolder,
               HolderIsNamed
  <2> QED BY <2>3, <2>4, <2>5
<1>11. CASE ResetShutdown(c)
  BY <1>11 DEF ResetShutdown
<1>12. CASE Unlock(c)
  BY <1>12 DEF Unlock
<1>13. CASE Finish(c)
  BY <1>13 DEF Finish
<1> HIDE DEF OwnershipInv, Basics, Protocol, Sound, TypeOK, HoldsWhereItSays, NamesTheHolder,
        HolderIsNamed, StreamFollowsOwner, WantsAreKept, StreamCallsPaired, Places,
        Wants, At, Goto, stream, conns, named
<1> QED
  BY <1>1, <1>2, <1>3, <1>4, <1>5, <1>6, <1>7, <1>8, <1>9, <1>10, <1>11, <1>12, <1>13
  DEF Converse

\* Clients and the main thread keep the ownership invariant.
LEMMA OthersInv ==
    ASSUME OwnershipInv, Basics', ~mistaken',
           \/ \E c \in Conns : Receive(c) \/ HangUp(c) \/ Accept(c)
           \/ MainStep \/ Terminate
    PROVE  OwnershipInv'
<1> USE OwnershipAssumption
    DEF OwnershipInv, Basics, Protocol, Sound, TypeOK, HoldsWhereItSays, NamesTheHolder,
        HolderIsNamed, StreamFollowsOwner, WantsAreKept, StreamCallsPaired, Places,
        Wants, At, Goto, stream, conns, named
<1>1. ASSUME NEW c \in Conns, Receive(c) PROVE OwnershipInv'
  BY <1>1 DEF Receive
<1>2. ASSUME NEW c \in Conns, HangUp(c) PROVE OwnershipInv'
  BY <1>2 DEF HangUp
<1>3. ASSUME NEW c \in Conns, Accept(c) PROVE OwnershipInv'
  <2>1. /\ ended = "no" /\ ~mistaken /\ c # Main /\ c # NoOne
        /\ pc[c] \in {"unborn", "joined"} /\ pc[Main] = "select"
        /\ pc' = [pc EXCEPT ![c] = "check", ![Main] = "mark"]
        /\ inherited' = (inherited \/ playing_thread = c)
        /\ UNCHANGED <<playing_mutex, playing_thread, rtp_running, player_up, ended>>
    BY <1>3 DEF Accept, Exists
  <2>2. playing_mutex # c /\ playing_mutex # Main
    BY <2>1
  <2>3. NamesTheHolder'
    BY <2>1, <2>2
  <2>4. HoldsWhereItSays' /\ HolderIsNamed'
    BY <2>1, <2>2
  <2>5. StreamFollowsOwner'
    BY <2>1, <2>2
  <2>6. StreamCallsPaired'
    BY <2>1
  <2> HIDE DEF NamesTheHolder, HoldsWhereItSays, HolderIsNamed, StreamFollowsOwner,
               StreamCallsPaired
  <2> QED BY <2>3, <2>4, <2>5, <2>6
<1>4. ASSUME NEW c \in Conns, MarkRunning(c) PROVE OwnershipInv'
  BY <1>4 DEF MarkRunning
<1>5. CASE TakePlayer(Main)
  BY <1>5, TakePlayerInv
<1>6. CASE Cull
  BY <1>6 DEF Cull, Culled
<1>7. CASE Exit
  BY <1>7 DEF Exit
<1>8. CASE Terminate
  BY <1>8 DEF Terminate
<1> QED
  BY <1>1, <1>2, <1>3, <1>4, <1>5, <1>6, <1>7, <1>8 DEF MainStep

\* What has been taken for the player stays so in the history.
LEMMA Remembered == ASSUME [Next]_vars PROVE mistaken => mistaken'
<1> USE DEF vars, named
<1>1. CASE UNCHANGED vars
  BY <1>1
<1>2. ASSUME NEW c \in Conns, Receive(c) \/ HangUp(c) \/ Accept(c) \/ MarkRunning(c)
      PROVE  mistaken => mistaken'
  BY <1>2 DEF Receive, HangUp, Accept, MarkRunning
<1>3. ASSUME NEW t \in Threads, TakePlayer(t)
      PROVE  mistaken => mistaken'
  BY <1>3 DEF TakePlayer, ProbeFree, ProbeHeld, ProbeRelease, TryLock, RequestShutdown,
              Kill, Lock, Assign
<1>4. CASE Cull \/ Exit \/ Terminate
  BY <1>4 DEF Cull, Exit, Terminate
<1>5. ASSUME NEW c \in Conns, Converse(c) PROVE mistaken => mistaken'
  BY <1>3, <1>5 DEF Converse, CheckShutdown, EnterRead, ReadEof, FlushPlayer, Teardown,
     RtpSetup, PlayerPlay, RtpShutdown, PlayerStop, ResetShutdown, Unlock, Finish
<1> QED BY <1>1, <1>2, <1>3, <1>4, <1>5 DEF Next, MainStep

\* OwnershipInv is inductive.
LEMMA NextInv == ASSUME OwnershipInv, [Next]_vars PROVE OwnershipInv'
<1>1. Basics'
  BY NextBasics DEF OwnershipInv
<1>2. CASE mistaken'
  BY <1>1, <1>2 DEF OwnershipInv, Sound, StreamCallsPaired
<1>3. CASE ~mistaken'
  <2>1. CASE UNCHANGED vars
    BY <1>1, <2>1 DEF vars, stream, conns, named, OwnershipInv, Protocol, Sound, TypeOK,
              HoldsWhereItSays, NamesTheHolder, HolderIsNamed, StreamFollowsOwner,
              StreamCallsPaired
  <2>2. ASSUME NEW c \in Conns, Converse(c) PROVE OwnershipInv'
    BY <1>1, <1>3, <2>2, ConverseInv
  <2> QED BY <1>1, <1>3, <2>1, <2>2, OthersInv DEF Next
<1> QED BY <1>2, <1>3

\* The mutex, playing_thread and the stream agree in every reachable state.
THEOREM Ownership == Spec => []OwnershipInv
BY InitInv, NextInv, PTL DEF Spec

\* Whoever acts as the player holds playing_mutex, for any number of connections
\* and any reuse of their threads' ids: the only way to act as the player without
\* it is to have an earlier player's id and to ask while another holds the mutex.
THEOREM Exclusive == Spec => []ExclusiveUse
<1>1. OwnershipInv => ExclusiveUse
  BY DEF OwnershipInv, Protocol, Sound, HoldsWhereItSays, ExclusiveUse, Uses
<1> QED BY <1>1, Ownership, PTL

\* No stream outlives its conversation, so every stream is stopped, unless such
\* a thread was mistaken for the player.
THEOREM NoOrphanStream == Spec => []StreamOwned
<1>1. OwnershipInv => StreamOwned
  BY OwnershipAssumption
  DEF OwnershipInv, Basics, Protocol, Sound, TypeOK, HolderIsNamed, StreamFollowsOwner, StreamOwned
<1> QED BY <1>1, Ownership, PTL

\* Unless a thread was mistaken for the player, rtp_shutdown does not die, and
\* rtp_setup only on a second SETUP of the connection that plays.
THEOREM CallsPaired == Spec => []StreamCallsPaired
<1>1. OwnershipInv => StreamCallsPaired
  BY DEF OwnershipInv, StreamCallsPaired
<1> QED BY <1>1, Ownership, PTL

-----------------------------------------------------------------------------
\* A thread that moves without touching the request, the mutex or the name of
\* the player leaves the request with its player, unless it was about to take
\* the player or moves to where the request has been reset.
LEMMA MoveKeepsRequest ==
    ASSUME OwnershipInv, ~mistaken, RequestHasPlayer,
           NEW t \in Threads, NEW l \in Places,
           pc[t] \notin {"kill", "lock", "assign"}, l \notin {"probed", "unlock"},
           pc' = [pc EXCEPT ![t] = l], ended = "no", please_shutdown' = please_shutdown,
           playing_mutex' = playing_mutex, playing_thread' = playing_thread
    PROVE  RequestHasPlayer'
BY DEF OwnershipInv, Basics, Protocol, Sound, TypeOK, RequestHasPlayer

\* A thread that passes "kill", "lock" or "assign" on to the next of them.
LEMMA TakingKeepsRequest ==
    ASSUME NEW t \in Threads,
           pc'[t] \in {"kill", "lock", "assign"}
    PROVE  RequestHasPlayer'
BY DEF RequestHasPlayer, Sound

\* Nothing to keep when no request stands, the process has ended or a thread has
\* been mistaken for the player.
LEMMA NoRequest ==
    ASSUME ~please_shutdown' \/ ended' # "no" \/ mistaken'
    PROVE  RequestHasPlayer'
BY DEF RequestHasPlayer, Sound

\* rtsp_playing and rtsp_take_player leave no request without a player.
LEMMA TakePlayerRequest ==
    ASSUME OwnershipInv, Basics', ~mistaken, ~mistaken',
           RequestHasPlayer, NEW t \in Threads, TakePlayer(t)
    PROVE  RequestHasPlayer'
<1>0. pc \in [Threads -> Places]
  BY DEF OwnershipInv, Basics, Protocol, Sound, TypeOK
<1>1. CASE ProbeFree(t)
  BY <1>0, <1>1, OwnershipAssumption DEF ProbeFree, RequestHasPlayer, Sound, At, Goto
<1>2. CASE ProbeHeld(t)
  <2>1. ended = "no" /\ WantsAreKept /\ pc[t] = "probe"
    BY <1>2 DEF ProbeHeld, At, OwnershipInv, Basics
  <2>2. want[t] \in {"flush", "teardown", "setup", "close", "exit"}
    BY <2>1 DEF WantsAreKept, OwnershipInv, Basics, TypeOK, Wants
  <2>3. pc' = [pc EXCEPT ![t] = pc'[t]] /\ pc'[t] \in Places \ {"probed", "unlock"}
    <3>1. CASE IsPlaying(t)
      <4>1. IfPlaying(want[t]) \in Places \ {"probed", "unlock"}
        BY <2>2 DEF IfPlaying, Places
      <4> QED BY <1>0, <1>2, <3>1, <4>1 DEF ProbeHeld, Goto
    <3>2. CASE ~IsPlaying(t)
      <4>1. IfNot(want[t]) \in Places \ {"probed", "unlock"}
        BY <2>2 DEF IfNot, Places
      <4> QED BY <1>0, <1>2, <3>2, <4>1 DEF ProbeHeld, Goto
    <3> QED BY <3>1, <3>2
  <2>4. UNCHANGED <<please_shutdown, playing_mutex, playing_thread>>
    BY <1>2 DEF ProbeHeld
  <2> QED BY <2>1, <2>3, <2>4, MoveKeepsRequest
<1>3. CASE ProbeRelease(t)
  <2>1. playing_mutex = t /\ pc[t] = "probed"
    BY <1>0, <1>3 DEF ProbeRelease, At, OwnershipInv, Protocol, Sound, HoldsWhereItSays
  <2>2. please_shutdown' /\ Sound' =>
           \E s \in Threads \ {t} : pc[s] \in {"kill", "lock", "assign"}
    BY <1>3, <2>1 DEF ProbeRelease, RequestHasPlayer, Sound, At
  <2>3. \A s \in Threads \ {t} : pc'[s] = pc[s]
    BY <1>0, <1>3 DEF ProbeRelease, Goto
  <2>4. CASE please_shutdown' /\ Sound'
    <3>1. PICK s \in Threads \ {t} : pc[s] \in {"kill", "lock", "assign"}
      BY <2>2, <2>4
    <3>2. pc'[s] \in {"kill", "lock", "assign"}
      BY <2>3, <3>1
    <3> QED BY <3>2, TakingKeepsRequest
  <2> QED BY <2>4, NoRequest DEF Sound
<1>4. CASE TryLock(t)
  <2>1. CASE playing_mutex = NoOne
    <3>1. pc'[t] = "assign"
      BY <1>0, <1>4, <2>1 DEF TryLock, Goto
    <3> QED BY <3>1, TakingKeepsRequest
  <2>2. CASE playing_mutex # NoOne
    <3>1. pc[t] = "trylock" /\ ended = "no" /\ pc' = [pc EXCEPT ![t] = "request"]
      BY <1>4, <2>2 DEF TryLock, At, Goto
    <3>2. UNCHANGED <<playing_mutex, playing_thread, please_shutdown>>
      BY <1>4, <2>2 DEF TryLock, named
    <3> QED BY <3>1, <3>2, MoveKeepsRequest DEF Places
  <2> QED BY <2>1, <2>2
<1>5. CASE RequestShutdown(t)
  BY <1>0, <1>5, TakingKeepsRequest DEF RequestShutdown, Goto
<1>6. CASE Kill(t)
  BY <1>0, <1>6, TakingKeepsRequest, NoRequest DEF Kill
<1>7. CASE Lock(t)
  BY <1>0, <1>7, TakingKeepsRequest DEF Lock, Goto
<1>8. CASE Assign(t)
  <2>1. playing_mutex' = t /\ playing_thread' = t
    BY <1>8 DEF Assign, At, OwnershipInv, Protocol, Sound, HoldsWhereItSays
  <2>2. pc'[t] \notin {"probed", "unlock"}
    BY <1>0, <1>8 DEF Assign, Goto, At, IfPlaying, OwnershipInv, Basics, WantsAreKept
  <2> QED BY <2>1, <2>2 DEF RequestHasPlayer, Sound
<1> QED
  BY <1>1, <1>2, <1>3, <1>4, <1>5, <1>6, <1>7, <1>8 DEF TakePlayer

\* So do a conversation's own steps.
LEMMA ConverseRequest ==
    ASSUME OwnershipInv, Basics', ~mistaken, ~mistaken',
           RequestHasPlayer, NEW c \in Conns, Converse(c)
    PROVE  RequestHasPlayer'
<1> USE DEF At, Goto, Places, stream, conns, named
<1>1. CASE TakePlayer(c)
  BY <1>1, TakePlayerRequest
<1>2. CASE CheckShutdown(c)
  <2>1. PICK l \in {"probe", "enter"} : pc' = [pc EXCEPT ![c] = l]
    BY <1>2 DEF CheckShutdown
  <2> QED BY <1>2, <2>1, MoveKeepsRequest DEF CheckShutdown
<1>3. CASE EnterRead(c)
  BY <1>3, MoveKeepsRequest DEF EnterRead
<1>4. CASE ReadEof(c)
  BY <1>4, MoveKeepsRequest DEF ReadEof
<1>5. CASE FlushPlayer(c)
  BY <1>5, MoveKeepsRequest DEF FlushPlayer
<1>6. CASE Teardown(c)
  <2>1. playing_mutex = c /\ playing_thread = c
    BY <1>6 DEF Teardown, OwnershipInv, Protocol, Sound, HoldsWhereItSays, HolderIsNamed
  <2>2. pc'[c] = "check"
    BY <1>6 DEF Teardown, OwnershipInv, Basics, TypeOK
  <2> QED BY <1>6, <2>1, <2>2 DEF Teardown, RequestHasPlayer, Sound
<1>7. CASE RtpSetup(c)
  <2>1. CASE rtp_running
    BY <1>7, <2>1, NoRequest DEF RtpSetup
  <2>2. CASE ~rtp_running
    BY <1>7, <2>2, MoveKeepsRequest DEF RtpSetup
  <2> QED BY <2>1, <2>2
<1>8. CASE PlayerPlay(c)
  BY <1>8, MoveKeepsRequest DEF PlayerPlay
<1>9. CASE RtpShutdown(c)
  <2>1. CASE rtp_running
    BY <1>9, <2>1, MoveKeepsRequest DEF RtpShutdown
  <2>2. CASE ~rtp_running
    BY <1>9, <2>2, NoRequest DEF RtpShutdown
  <2> QED BY <2>1, <2>2
<1>10. CASE PlayerStop(c)
  BY <1>10, MoveKeepsRequest DEF PlayerStop
<1>11. CASE ResetShutdown(c)
  BY <1>11, NoRequest DEF ResetShutdown
<1>12. CASE Unlock(c)
  <2>1. playing_mutex = c
    BY <1>12 DEF Unlock, OwnershipInv, Protocol, Sound, HoldsWhereItSays
  <2> QED BY <1>12, <2>1 DEF Unlock, RequestHasPlayer, Sound, OwnershipInv, Basics, TypeOK
<1>13. CASE Finish(c)
  BY <1>13, MoveKeepsRequest DEF Finish
<1> HIDE DEF At, Goto, Places, stream, conns, named
<1> QED
  BY <1>1, <1>2, <1>3, <1>4, <1>5, <1>6, <1>7, <1>8, <1>9, <1>10, <1>11, <1>12, <1>13
  DEF Converse

\* So does every other step.
LEMMA NextRequest ==
    ASSUME OwnershipInv, Basics', ~mistaken, ~mistaken',
           RequestHasPlayer, [Next]_vars
    PROVE  RequestHasPlayer'
<1> USE DEF At, Goto, stream, conns, named
<1>1. ASSUME NEW c \in Conns, Receive(c) PROVE RequestHasPlayer'
  <2>1. PICK l \in {"probe", "check"} : pc' = [pc EXCEPT ![c] = l]
    BY <1>1 DEF Receive
  <2> QED BY <1>1, <2>1, MoveKeepsRequest DEF Receive, Places
<1>2. ASSUME NEW c \in Conns, HangUp(c) PROVE RequestHasPlayer'
  BY <1>2 DEF HangUp, RequestHasPlayer, Sound
<1>3. ASSUME NEW c \in Conns, Accept(c) PROVE RequestHasPlayer'
  <2>1. playing_mutex # c /\ pc[c] \notin {"kill", "lock", "assign"}
    BY <1>3, OwnershipAssumption DEF Accept, Exists, OwnershipInv, Protocol, Sound, HolderIsNamed
  <2>2. /\ UNCHANGED <<playing_mutex, playing_thread, please_shutdown>>
        /\ ended = "no" /\ pc[Main] = "select"
        /\ \A t \in Threads \ {c, Main} : pc'[t] = pc[t]
        /\ pc'[Main] = "mark"
    BY <1>3, OwnershipAssumption DEF Accept, OwnershipInv, Basics, TypeOK
  <2> QED BY <2>1, <2>2 DEF RequestHasPlayer, Sound
<1>4. ASSUME NEW c \in Conns, MarkRunning(c) PROVE RequestHasPlayer'
  BY <1>4, MoveKeepsRequest DEF MarkRunning, Places
<1>5. CASE TakePlayer(Main)
  BY <1>5, TakePlayerRequest
<1>6. CASE Cull
  BY <1>6 DEF Cull, Culled, RequestHasPlayer, Sound
<1>7. CASE Exit
  BY <1>7, NoRequest DEF Exit
<1>8. CASE Terminate
  BY <1>8, MoveKeepsRequest DEF Terminate, Places
<1>9. CASE UNCHANGED vars
  BY <1>9 DEF vars, RequestHasPlayer, Sound
<1> HIDE DEF At, Goto, stream, conns, named
<1>10. ASSUME NEW c \in Conns, Converse(c) PROVE RequestHasPlayer'
  BY <1>10, ConverseRequest
<1> QED
  BY <1>1, <1>2, <1>3, <1>4, <1>5, <1>6, <1>7, <1>8, <1>9, <1>10 DEF Next, MainStep

\* A shutdown request has a player that will reset it, or a thread that is about
\* to be the player, until a thread is mistaken for the player.
THEOREM RequestsAnswered == Spec => []RequestHasPlayer
<1>1. Init => RequestHasPlayer
  BY DEF Init, RequestHasPlayer
<1>2. OwnershipInv /\ OwnershipInv' /\ RequestHasPlayer /\ [Next]_vars => RequestHasPlayer'
  <2> SUFFICES ASSUME OwnershipInv, OwnershipInv', RequestHasPlayer, [Next]_vars
               PROVE  RequestHasPlayer'
    OBVIOUS
  <2>1. CASE mistaken'
    BY <2>1, NoRequest
  <2>2. CASE ~mistaken'
    <3>1. ~mistaken
      BY <2>2, Remembered
    <3> QED BY <2>2, <3>1, NextRequest DEF OwnershipInv
  <2> QED BY <2>1, <2>2
<1> QED BY <1>1, <1>2, Ownership, PTL DEF Spec

-----------------------------------------------------------------------------
\* A step of ExclusivePlayer, or none.
PlayerStep == [Player!Next]_<<Owner, Streaming>>

\* rtsp_playing and rtsp_take_player acquire the player or change nothing of it.
LEMMA TakePlayerStep ==
    ASSUME OwnershipInv, ~mistaken, NEW t \in Threads, TakePlayer(t)
    PROVE  PlayerStep
<1> USE OwnershipAssumption
    DEF OwnershipInv, Basics, Protocol, Sound, TypeOK, HoldsWhereItSays,
        HolderIsNamed, At, Goto, stream, conns, named,
        Owner, Streaming, PlayerStep
<1>1. CASE TryLock(t) \/ Lock(t)
  <2>1. /\ Streaming' = Streaming
        /\ (Owner' = t /\ Owner = NoOne) \/ Owner' = Owner
    BY <1>1 DEF TryLock, Lock
  <2> HIDE DEF Owner, Streaming
  <2> QED BY <2>1 DEF Player!Next, Player!Acquire
<1>2. CASE \/ ProbeFree(t) \/ ProbeHeld(t) \/ ProbeRelease(t)
           \/ RequestShutdown(t) \/ Kill(t) \/ Assign(t)
  <2>1. rtp_running' = rtp_running /\ player_up' = player_up
    BY <1>2 DEF ProbeFree, ProbeHeld, ProbeRelease, RequestShutdown, Kill, Assign
  <2>2. CASE ProbeFree(t)
    BY <2>1, <2>2 DEF ProbeFree
  <2>3. CASE ProbeHeld(t)
    <3>1. want[t] \in Wants \ {"none"}
      BY <2>3 DEF ProbeHeld, WantsAreKept
    <3>2. pc'[t] # "probed" /\ pc[t] = "probe"
      BY <2>3, <3>1 DEF ProbeHeld, IfPlaying, IfNot, Wants
    <3>3. \A s \in Threads \ {t} : pc'[s] = pc[s]
      BY <2>3 DEF ProbeHeld
    <3>4. playing_mutex' = playing_mutex
      BY <2>3 DEF ProbeHeld
    <3> QED BY <2>1, <3>2, <3>3, <3>4
  <2>4. CASE ProbeRelease(t)
    BY <2>1, <2>4 DEF ProbeRelease
  <2>5. CASE RequestShutdown(t)
    BY <2>1, <2>5 DEF RequestShutdown
  <2>6. CASE Kill(t)
    BY <2>1, <2>6 DEF Kill
  <2>7. CASE Assign(t)
    BY <2>1, <2>7 DEF Assign, IfPlaying, WantsAreKept
  <2> QED BY <1>2, <2>2, <2>3, <2>4, <2>5, <2>6, <2>7
<1> QED BY <1>1, <1>2 DEF TakePlayer

\* A conversation starts and stops the stream only while it owns the player,
\* and gives the player up only after the stream has stopped.
LEMMA ConverseStep ==
    ASSUME OwnershipInv, ~mistaken, NEW c \in Conns, Converse(c)
    PROVE  PlayerStep
<1> USE OwnershipAssumption
    DEF OwnershipInv, Basics, Protocol, Sound, TypeOK, HoldsWhereItSays,
        HolderIsNamed, StreamFollowsOwner,
        At, Goto, stream, conns, named, Owner, Streaming, PlayerStep
<1>1. CASE RtpSetup(c)
  <2>1. Owner = c /\ Owner' = c /\ c # NoOne
    BY <1>1 DEF RtpSetup
  <2>2. CASE rtp_running
    BY <1>1, <2>1, <2>2 DEF RtpSetup
  <2>3. CASE ~rtp_running
    <3>1. ~Streaming /\ Streaming' = TRUE
      BY <1>1, <2>1, <2>3 DEF RtpSetup
    <3> HIDE DEF Owner, Streaming
    <3> QED BY <2>1, <3>1 DEF Player!Next, Player!Start
  <2> QED BY <2>2, <2>3
<1>2. CASE PlayerStop(c)
  <2>1. Owner' = Owner /\ Streaming /\ Streaming' = FALSE
    BY <1>2 DEF PlayerStop
  <2> HIDE DEF Owner, Streaming
  <2> QED BY <2>1 DEF Player!Next, Player!Stop
<1>3. CASE Unlock(c)
  <2>1. Owner' = NoOne /\ ~Streaming /\ Streaming' = Streaming
    BY <1>3 DEF Unlock
  <2> HIDE DEF Owner, Streaming
  <2> QED BY <2>1 DEF Player!Next, Player!Release
<1>4. CASE PlayerPlay(c) \/ RtpShutdown(c)
  <2>1. Owner' = Owner /\ playing_mutex = c
    BY <1>4 DEF PlayerPlay, RtpShutdown
  <2>2. Streaming = TRUE /\ Streaming' = TRUE
    BY <1>4, <2>1 DEF PlayerPlay, RtpShutdown
  <2> QED BY <2>1, <2>2
<1>5. CASE \/ CheckShutdown(c) \/ EnterRead(c) \/ ReadEof(c) \/ FlushPlayer(c)
           \/ Teardown(c) \/ ResetShutdown(c) \/ Finish(c)
  BY <1>5 DEF CheckShutdown, EnterRead, ReadEof, FlushPlayer, Teardown,
              ResetShutdown, Finish
<1>6. CASE TakePlayer(c)
  BY <1>6, TakePlayerStep
<1> QED BY <1>1, <1>2, <1>3, <1>4, <1>5, <1>6 DEF Converse

\* Clients and the main thread leave the player alone, but for the shutdown
\* that gives it up at the very end.
LEMMA OthersStep ==
    ASSUME OwnershipInv, ~mistaken,
           \/ \E c \in Conns : Receive(c) \/ HangUp(c) \/ Accept(c)
           \/ MainStep \/ Terminate
    PROVE  PlayerStep
<1> USE OwnershipAssumption
    DEF OwnershipInv, Basics, Protocol, Sound, TypeOK, HoldsWhereItSays,
        HolderIsNamed, StreamFollowsOwner,
        At, Goto, stream, conns, named, Owner, Streaming, PlayerStep
<1>1. ASSUME NEW c \in Conns, Receive(c) \/ HangUp(c) PROVE PlayerStep
  BY <1>1 DEF Receive, HangUp
<1>6. ASSUME NEW c \in Conns, Accept(c) PROVE PlayerStep
  <2>1. playing_mutex # c /\ playing_mutex # Main
    BY <1>6 DEF Accept, Exists
  <2>2. Owner' = Owner /\ Streaming' = Streaming
    BY <1>6, <2>1 DEF Accept
  <2> QED BY <2>2
<1>2. ASSUME NEW c \in Conns, MarkRunning(c) PROVE PlayerStep
  BY <1>2 DEF MarkRunning
<1>3. CASE Cull \/ Terminate
  BY <1>3 DEF Cull, Terminate
<1>4. CASE TakePlayer(Main)
  BY <1>4, TakePlayerStep
<1>5. CASE Exit
  <2>1. Owner' = NoOne /\ ~Streaming /\ Streaming' = Streaming
    BY <1>5 DEF Exit
  <2> HIDE DEF Owner, Streaming
  <2> QED BY <2>1 DEF Player!Next, Player!Release
<1> QED BY <1>1, <1>2, <1>3, <1>4, <1>5, <1>6 DEF MainStep

\* The protocol of rtsp.c implements an exclusively owned player in every step up
\* to the one in which a thread is mistaken for the player.
THEOREM Implements == Spec => ImplementsPlayer
<1>1. Init => Player!Init
  BY DEF Init, Player!Init, Owner, Streaming
<1>2. OwnershipInv /\ [Next]_vars => [~mistaken' => Player!Next]_<<Owner, Streaming>>
  <2> SUFFICES ASSUME OwnershipInv, [Next]_vars, ~mistaken' PROVE PlayerStep
    BY DEF PlayerStep
  <2>0. ~mistaken
    BY Remembered
  <2>1. CASE UNCHANGED vars
    BY <2>1 DEF vars, stream, PlayerStep, Owner, Streaming
  <2>2. ASSUME NEW c \in Conns, Converse(c) PROVE PlayerStep
    BY <2>0, <2>2, ConverseStep
  <2> QED BY <2>0, <2>1, <2>2, OthersStep DEF Next
<1> QED BY <1>1, <1>2, Ownership, PTL DEF Spec, ImplementsPlayer
===============================================================================
