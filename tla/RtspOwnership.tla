---------------------------- MODULE RtspOwnership ----------------------------
(***************************************************************************)
(* Who owns the player: the conversation threads of rtsp.c, the main       *)
(* thread that accepts and joins them, and a shutdown that takes the       *)
(* player away.  playing_mutex is held for as long as a conversation       *)
(* plays; playing_thread says who holds it; a thread that wants the player *)
(* sets please_shutdown and signals the owner (rtsp.c 56-124, 257-425,     *)
(* 781-833, 949-967; shairport.c 50-68).                                   *)
(*                                                                         *)
(* A step is what a thread does between two points where another can see   *)
(* or change these variables.  Starting and stopping a stream are single   *)
(* steps here.                                                             *)
(***************************************************************************)
EXTENDS Naturals, FiniteSets

CONSTANTS Conns,   \* the ids of conversation threads, each of which names one
                   \* thread after another: pthread_create may give a new
                   \* thread the id of a joined one
          Main,    \* the main thread
          NoOne    \* nobody: mutex free, playing_thread never assigned

Threads == Conns \cup {Main}

ASSUME OwnershipAssumption ==
    Main \notin Conns /\ NoOne \notin Threads

VARIABLES
    playing_mutex,    \* its holder or NoOne
    playing_thread,   \* thread id or NoOne
    please_shutdown,
    rtp_running,      \* rtp.c's running: the RTP receiver is up
    player_up,        \* between player_play and player_stop
    pc,               \* where each thread is
    want,             \* what each thread asked rtsp_playing for
    hungup,           \* connections whose client is gone
    inherited,        \* history: the thread that stored its id in playing_thread
                      \* was joined, and a later one has got that id
    mistaken,         \* history: the later one was told that it plays
    running,          \* conn->running
    tracked,          \* the conns array
    ended             \* how the process ended, "no" while it runs

stream  == <<rtp_running, player_up>>
conns   == <<running, tracked>>
named   == <<playing_thread, inherited, mistaken>>
vars == <<playing_mutex, named, please_shutdown, stream, pc, want, hungup, conns,
          ended>>

Wants == {"none", "flush", "teardown", "setup", "close", "exit"}

\* The thread has been created and not yet joined, so its id names it.
Exists(c) == pc[c] \notin {"unborn", "joined"}

Init ==
    /\ playing_mutex = NoOne /\ playing_thread = NoOne
    /\ please_shutdown = FALSE
    /\ rtp_running = FALSE /\ player_up = FALSE
    /\ pc = [t \in Threads |-> IF t = Main THEN "select" ELSE "unborn"]
    /\ want = [t \in Threads |-> "none"]
    /\ hungup = {} /\ inherited = FALSE /\ mistaken = FALSE
    /\ running = [c \in Conns |-> FALSE] /\ tracked = {}
    /\ ended = "no"

Goto(t, l) == pc' = [pc EXCEPT ![t] = l]
At(t, l) == ended = "no" /\ pc[t] = l

-----------------------------------------------------------------------------
\* rtsp_playing, then what its caller does with the answer.  If the mutex is
\* free it is held for a moment, and the answer is no.
ProbeFree(t) ==
    /\ At(t, "probe") /\ playing_mutex = NoOne
    /\ playing_mutex' = t
    /\ Goto(t, "probed")
    /\ UNCHANGED <<named, please_shutdown, stream, want, hungup, conns, ended>>

\* Mutant: any owner will do.
IsPlayingAnyone(t) == TRUE
IsPlaying(t) == playing_thread = t

IfPlaying(w) == CASE w = "flush"    -> "flush"
                  [] w = "teardown" -> "teardown"
                  [] w = "setup"    -> "rtp_setup"
                  [] w = "close"    -> "rtp_shutdown"
                  [] w = "exit"     -> "exit"
IfNot(w) == CASE w \in {"flush", "teardown"} -> "check"
              [] w \in {"setup", "exit"}     -> "trylock"
              [] w = "close"                 -> "finish"

\* The answer is about the id only, so a thread that has inherited an old
\* player's id takes whoever holds the mutex for itself.
ProbeHeld(t) ==
    /\ At(t, "probe") /\ playing_mutex # NoOne
    /\ Goto(t, IF IsPlaying(t) THEN IfPlaying(want[t]) ELSE IfNot(want[t]))
    /\ mistaken' = (mistaken \/ (inherited /\ playing_thread = t))
    /\ UNCHANGED <<playing_mutex, playing_thread, inherited, please_shutdown, stream, want,
                   hungup, conns, ended>>

ProbeRelease(t) ==
    /\ At(t, "probed")
    /\ playing_mutex' = NoOne
    /\ Goto(t, IfNot(want[t]))
    /\ UNCHANGED <<named, please_shutdown, stream, want, hungup, conns, ended>>

-----------------------------------------------------------------------------
\* The rest of rtsp_take_player: try, ask the player to stop, wait.
TryLock(t) ==
    /\ At(t, "trylock")
    /\ IF playing_mutex = NoOne
       THEN playing_mutex' = t /\ Goto(t, "assign")
       ELSE Goto(t, "request") /\ UNCHANGED playing_mutex
    /\ UNCHANGED <<named, please_shutdown, stream, want, hungup, conns, ended>>

RequestShutdown(t) ==
    /\ At(t, "request")
    /\ please_shutdown' = TRUE
    /\ Goto(t, "kill")
    /\ UNCHANGED <<playing_mutex, named, stream, want, hungup, conns, ended>>

\* SIGUSR1 makes a read that is blocking return EINTR and does nothing else.
\* Sent to an id that is no thread's, its effect is undefined: none or a crash.
Kill(t) ==
    /\ At(t, "kill")
    /\ \/ /\ pc' = [s \in Threads |->
                      IF s = t THEN "lock"
                      ELSE IF pc[s] = "read" /\ s = playing_thread
                           THEN "check"
                           ELSE pc[s]]
          /\ UNCHANGED ended
       \/ /\ \A s \in Threads : s = playing_thread => ~Exists(s)
          /\ ended' = "crash" /\ UNCHANGED pc
    /\ UNCHANGED <<playing_mutex, named, please_shutdown, stream, want,
                   hungup, conns>>

Lock(t) ==
    /\ At(t, "lock") /\ playing_mutex = NoOne
    /\ playing_mutex' = t
    /\ Goto(t, "assign")
    /\ UNCHANGED <<named, please_shutdown, stream, want, hungup, conns, ended>>

Assign(t) ==
    /\ At(t, "assign")
    /\ playing_thread' = t /\ inherited' = FALSE
    /\ Goto(t, IfPlaying(want[t]))
    /\ UNCHANGED <<playing_mutex, mistaken, please_shutdown, stream, want, hungup, conns,
                   ended>>

-----------------------------------------------------------------------------
\* rtsp_read_request, up to the read: the shutdown test at the loop's top.
CheckShutdown(c) ==
    /\ At(c, "check")
    /\ IF please_shutdown
       THEN Goto(c, "probe") /\ want' = [want EXCEPT ![c] = "close"]
       ELSE Goto(c, "enter") /\ UNCHANGED want
    /\ UNCHANGED <<playing_mutex, named, please_shutdown, stream, hungup,
                   conns, ended>>

\* The call of read: from here on the thread is blocked, and a signal counts.
EnterRead(c) ==
    /\ At(c, "enter")
    /\ Goto(c, "read")
    /\ UNCHANGED <<playing_mutex, named, please_shutdown, stream, want,
                   hungup, conns, ended>>

\* The read returns a request: its handler begins.  Requests that touch
\* nothing here go back to reading.
Receive(c) ==
    /\ At(c, "read") /\ c \notin hungup
    /\ \/ /\ \E w \in {"flush", "teardown", "setup"} : want' = [want EXCEPT ![c] = w]
          /\ Goto(c, "probe")
       \/ Goto(c, "check") /\ UNCHANGED want
    /\ UNCHANGED <<playing_mutex, named, please_shutdown, stream, hungup,
                   conns, ended>>

\* The read returns 0: the client has closed the connection.
ReadEof(c) ==
    /\ At(c, "read") /\ c \in hungup
    /\ Goto(c, "probe") /\ want' = [want EXCEPT ![c] = "close"]
    /\ UNCHANGED <<playing_mutex, named, please_shutdown, stream, hungup,
                   conns, ended>>

HangUp(c) ==
    /\ ended = "no" /\ Exists(c) /\ c \notin hungup
    /\ hungup' = hungup \cup {c}
    /\ UNCHANGED <<playing_mutex, named, please_shutdown, stream, pc, want,
                   conns, ended>>

-----------------------------------------------------------------------------
\* handle_flush and handle_teardown of the playing conversation.
FlushPlayer(c) ==
    /\ At(c, "flush")
    /\ Goto(c, "check")
    /\ UNCHANGED <<playing_mutex, named, please_shutdown, stream, want,
                   hungup, conns, ended>>

Teardown(c) ==
    /\ At(c, "teardown")
    /\ please_shutdown' = TRUE
    /\ Goto(c, "check")
    /\ UNCHANGED <<playing_mutex, named, stream, want, hungup, conns, ended>>

\* handle_setup once it has the player: rtp_setup, then player_play.
RtpSetup(c) ==
    /\ At(c, "rtp_setup")
    /\ IF rtp_running
       THEN ended' = "rtp_setup" /\ UNCHANGED <<rtp_running, pc>>
       ELSE rtp_running' = TRUE /\ Goto(c, "player_play") /\ UNCHANGED ended
    /\ UNCHANGED <<playing_mutex, named, please_shutdown, player_up, want,
                   hungup, conns>>

PlayerPlay(c) ==
    /\ At(c, "player_play")
    /\ player_up' = TRUE
    /\ Goto(c, "check")
    /\ UNCHANGED <<playing_mutex, named, please_shutdown, rtp_running, want,
                   hungup, conns, ended>>

-----------------------------------------------------------------------------
\* Mutants: the player thread is left running; rtp.c's running is left set.
RtpShutdownOnly(c) ==
    /\ At(c, "rtp_shutdown")
    /\ rtp_running' = FALSE /\ Goto(c, "reset")
    /\ UNCHANGED <<playing_mutex, named, please_shutdown, player_up, want,
                   hungup, conns, ended>>
RtpShutdownUncleared(c) ==
    /\ At(c, "rtp_shutdown")
    /\ Goto(c, "player_stop")
    /\ UNCHANGED <<playing_mutex, named, please_shutdown, stream, want,
                   hungup, conns, ended>>

\* The end of the conversation thread, for the player and for the others.
RtpShutdown(c) ==
    /\ At(c, "rtp_shutdown")
    /\ IF rtp_running
       THEN rtp_running' = FALSE /\ Goto(c, "player_stop") /\ UNCHANGED ended
       ELSE ended' = "rtp_shutdown" /\ UNCHANGED <<rtp_running, pc>>
    /\ UNCHANGED <<playing_mutex, named, please_shutdown, player_up, want,
                   hungup, conns>>

PlayerStop(c) ==
    /\ At(c, "player_stop")
    /\ player_up' = FALSE
    /\ Goto(c, "reset")
    /\ UNCHANGED <<playing_mutex, named, please_shutdown, rtp_running, want,
                   hungup, conns, ended>>

\* Mutant: the request is left standing.
ResetShutdownNot(c) ==
    /\ At(c, "reset")
    /\ Goto(c, "unlock")
    /\ UNCHANGED <<playing_mutex, named, please_shutdown, stream, want,
                   hungup, conns, ended>>

ResetShutdown(c) ==
    /\ At(c, "reset")
    /\ please_shutdown' = FALSE
    /\ Goto(c, "unlock")
    /\ UNCHANGED <<playing_mutex, named, stream, want, hungup, conns, ended>>

\* Mutant: the thread ends with the mutex locked.
UnlockNot(c) ==
    /\ At(c, "unlock")
    /\ Goto(c, "finish")
    /\ UNCHANGED <<playing_mutex, named, please_shutdown, stream, want,
                   hungup, conns, ended>>
Unlock(c) ==
    /\ At(c, "unlock")
    /\ playing_mutex' = NoOne
    /\ Goto(c, "finish")
    /\ UNCHANGED <<named, please_shutdown, stream, want, hungup, conns, ended>>

\* conn->running = 0 and return.
Finish(c) ==
    /\ At(c, "finish")
    /\ running' = [running EXCEPT ![c] = FALSE]
    /\ Goto(c, "gone")
    /\ UNCHANGED <<playing_mutex, named, please_shutdown, stream, want,
                   hungup, tracked, ended>>

-----------------------------------------------------------------------------
\* The main thread: accept a client and create its thread, whose id is not in
\* use, but may be that of a conversation that cleanup_threads has joined...
Accept(c) ==
    /\ At(Main, "select") /\ ~Exists(c)
    /\ pc' = [pc EXCEPT ![c] = "check", ![Main] = "mark"]
    /\ want' = [want EXCEPT ![c] = "none"] /\ hungup' = hungup \ {c}
    /\ inherited' = (inherited \/ playing_thread = c)
    /\ UNCHANGED <<playing_mutex, playing_thread, mistaken, please_shutdown, stream,
                   conns, ended>>

\* ...and only then mark it running and track it.
MarkRunning(c) ==
    /\ At(Main, "mark") /\ Exists(c) /\ c \notin tracked
    /\ running' = [running EXCEPT ![c] = TRUE]
    /\ tracked' = tracked \cup {c}
    /\ Goto(Main, "select")
    /\ UNCHANGED <<playing_mutex, named, please_shutdown, stream, want,
                   hungup, ended>>

\* cleanup_threads, at the top of the accept loop.
Culled == {c \in tracked : ~running[c]}
Cull ==
    /\ At(Main, "select") /\ Culled # {} /\ \A c \in Culled : pc[c] = "gone"
    /\ pc' = [t \in Threads |-> IF t \in Culled THEN "joined" ELSE pc[t]]
    /\ tracked' = tracked \ Culled
    /\ UNCHANGED <<playing_mutex, named, please_shutdown, stream, want,
                   hungup, running, ended>>

\* SIGINT or SIGTERM reaches the main thread: shairport_shutdown takes the
\* player and then leaves the process.
Terminate ==
    /\ At(Main, "select")
    /\ want' = [want EXCEPT ![Main] = "exit"]
    /\ Goto(Main, "probe")
    /\ UNCHANGED <<playing_mutex, named, please_shutdown, stream, hungup,
                   conns, ended>>

Exit ==
    /\ At(Main, "exit")
    /\ playing_mutex' = NoOne
    /\ ended' = "exit"
    /\ UNCHANGED <<named, please_shutdown, stream, pc, want, hungup, conns>>

-----------------------------------------------------------------------------
TakePlayer(t) == \/ ProbeFree(t) \/ ProbeHeld(t) \/ ProbeRelease(t) \/ TryLock(t)
                 \/ RequestShutdown(t) \/ Kill(t) \/ Lock(t) \/ Assign(t)

\* Everything a conversation does by itself, its client silent.
Converse(c) == \/ TakePlayer(c) \/ CheckShutdown(c) \/ EnterRead(c) \/ ReadEof(c)
               \/ FlushPlayer(c) \/ Teardown(c) \/ RtpSetup(c) \/ PlayerPlay(c)
               \/ RtpShutdown(c) \/ PlayerStop(c) \/ ResetShutdown(c)
               \/ Unlock(c) \/ Finish(c)

MainStep == \/ TakePlayer(Main) \/ Cull \/ Exit
            \/ \E c \in Conns : MarkRunning(c)

Next == \/ \E c \in Conns : Converse(c) \/ Receive(c) \/ HangUp(c) \/ Accept(c)
        \/ MainStep \/ Terminate

Spec == Init /\ [][Next]_vars

\* Every thread runs.  Clients may stay connected and silent for ever.
FairSpec == Spec /\ WF_vars(MainStep) /\ \A c \in Conns : WF_vars(Converse(c))

\* Besides, every client leaves, and in the end no more come.
LeavingSpec == FairSpec /\ \A c \in Conns : WF_vars(HangUp(c)) /\ <>[][~Accept(c)]_vars

-----------------------------------------------------------------------------
\* The places where a thread acts as the player, or has just become it.
UsePlaces == {"flush", "teardown", "rtp_setup", "player_play", "rtp_shutdown",
              "player_stop", "reset", "unlock", "exit"}
Uses(t) == pc[t] \in UsePlaces

Places == {"select", "mark", "unborn", "check", "enter", "read", "probe", "probed",
           "trylock", "request", "kill", "lock", "assign", "finish", "gone",
           "joined"} \cup UsePlaces

\* Every thread is somewhere in its code.
TypeOK ==
    /\ playing_mutex \in Threads \cup {NoOne}
    /\ playing_thread \in Threads \cup {NoOne}
    /\ please_shutdown \in BOOLEAN
    /\ rtp_running \in BOOLEAN /\ player_up \in BOOLEAN
    /\ pc \in [Threads -> Places]
    /\ want \in [Threads -> Wants]
    /\ hungup \subseteq Conns
    /\ inherited \in BOOLEAN /\ mistaken \in BOOLEAN
    /\ running \in [Conns -> BOOLEAN] /\ tracked \subseteq Conns
    /\ ended \in {"no", "crash", "rtp_setup", "rtp_shutdown", "exit"}

\* "only one thread is allowed to use the player at once" (rtsp.c 56), said of
\* every run in which no thread with an old player's id has been told that it plays:
\* a thread that starts, flushes, tears down or stops the stream holds the
\* mutex, although most of them hold it only by what rtsp_playing has told them.
Sound == ended = "no" /\ ~mistaken
ExclusiveUse == Sound => \A t \in Threads : Uses(t) => playing_mutex = t

\* A stream never outlives its conversation: while the receiver or the player
\* thread is up, the mutex is held, by a conversation that rtsp_playing will
\* recognise, so that the end of its thread stops them.
StreamOwned ==
    (rtp_running \/ player_up) /\ Sound =>
        \E c \in Conns : /\ playing_mutex = c /\ playing_thread = c
                         /\ pc[c] \notin {"unborn", "finish", "gone", "joined"}

\* rtp.c 136 and 168, "rtp_setup called with active stream!" and "rtp_shutdown
\* called without active stream!": unless a thread was mistaken for the player,
\* the second die is never reached, and the first only when the connection that
\* plays sends SETUP again, never because an earlier owner left its receiver
\* running.
StreamCallsPaired ==
    ~mistaken =>
        /\ ended # "rtp_shutdown"
        /\ ended = "rtp_setup" => /\ playing_mutex \in Conns /\ player_up
                                  /\ playing_thread = playing_mutex

\* Why they hold.  The mutex is held where the code says so; playing_thread
\* names the holder, a thread that has inherited the id, or a conversation that is
\* past its last use of it, so that rtsp_playing tells the truth to all but the
\* heir of an id; and the owner has both halves of the stream up except while it changes them.
Taking == {"trylock", "request", "kill", "lock", "assign"}
Over   == {"finish", "gone", "joined"}
Idle   == {"check", "enter", "read", "probe"}
HoldsWhereItSays ==
    \A t \in Threads : pc[t] \in {"probed", "assign"} \cup UsePlaces => playing_mutex = t
NamesTheHolder ==
    \A t \in Threads :
        playing_thread = t => playing_mutex = t \/ inherited \/ pc[t] \in Over
HolderIsNamed ==
    \A t \in Threads : playing_mutex = t =>
        IF pc[t] \in Idle \cup UsePlaces
        THEN playing_thread = t /\ ~inherited
        ELSE pc[t] \in {"probed", "assign"} /\ (playing_thread = t => inherited)
StreamFollowsOwner ==
    LET Streams == playing_mutex \in Conns /\
                   pc[playing_mutex] \in Idle \cup {"flush", "teardown", "rtp_shutdown"}
        SetsUp  == playing_mutex \in Conns /\ pc[playing_mutex] = "rtp_setup"
        Starts  == playing_mutex \in Conns /\ pc[playing_mutex] = "player_play"
        Stops   == playing_mutex \in Conns /\ pc[playing_mutex] = "player_stop"
    IN  IF SetsUp THEN rtp_running = player_up
        ELSE /\ rtp_running <=> Streams \/ Starts
             /\ player_up   <=> Streams \/ Stops
WantsAreKept ==
    /\ want[Main] \in {"none", "exit"}
    /\ pc[Main] \in {"select", "mark", "probe", "probed", "exit"} \cup Taking
    /\ pc[Main] \in {"probe", "probed", "exit"} \cup Taking => want[Main] = "exit"
    /\ \A c \in Conns :
          /\ want[c] # "exit" /\ pc[c] \notin {"select", "mark", "exit"}
          /\ pc[c] \in {"probe", "probed"} => want[c] # "none"
          /\ pc[c] \in Taking => want[c] = "setup"
Basics   == TypeOK /\ WantsAreKept
Protocol == HoldsWhereItSays /\ NamesTheHolder /\ HolderIsNamed /\ StreamFollowsOwner
OwnershipInv == Basics /\ (Sound => Protocol) /\ StreamCallsPaired

\* A shutdown request is never left standing with nobody to reset it: there is
\* a player that has yet to reset it, or a thread that is taking the player.
\* Otherwise every new conversation would close at once.
RequestHasPlayer ==
    please_shutdown /\ Sound =>
        \E t \in Threads :
           \/ pc[t] \in {"kill", "lock", "assign"}
           \/ playing_mutex = t /\ playing_thread = t
              /\ pc[t] \notin {"probed", "unlock"}

\* A thread that waits for the player gets it (rtsp_take_player, rtsp.c 86-91).
TakerServed ==
    \A t \in Threads : pc[t] = "lock" ~> (pc[t] # "lock" \/ ended # "no" \/ mistaken)

\* One thread at a time owns the player, and only its owner starts and stops
\* the stream (module ExclusivePlayer).  A thread that holds the mutex for a
\* moment inside rtsp_playing does not own the player.  It holds of every step
\* until a thread has been mistaken for the player.
Owner == IF playing_mutex # NoOne /\ pc[playing_mutex] = "probed"
         THEN NoOne ELSE playing_mutex
Streaming == rtp_running \/ player_up
Player == INSTANCE ExclusivePlayer WITH owner <- Owner, streaming <- Streaming
ImplementsPlayer ==
    Player!Init /\ [][~mistaken' => Player!Next]_<<Owner, Streaming>>
===============================================================================
