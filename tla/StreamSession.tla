---------------------------- MODULE StreamSession ----------------------------
(***************************************************************************)
(* The life of a stream: the conversation thread that owns the player sets *)
(* up the RTP receiver and the player thread and later stops both (rtp.c   *)
(* 46-193, player.c 178-229, 341-391, 432-536).  The three threads share   *)
(* rtp.c's running, please_shutdown and sock, player.c's please_stop, the  *)
(* decoded frames and ab_mutex.  What the frames hold is JitterBuffer's.   *)
(***************************************************************************)
VARIABLES
    cpc,               \* the conversation
    rpc,               \* the receiver thread, "none" when not created
    ppc,               \* the player thread, "none" when not created
    running,           \* rtp.c
    please_shutdown,   \* rtp.c
    sock,              \* the socket is open
    please_stop,       \* player.c
    allocated,         \* the frames and the decoder are allocated
    ab_mutex,          \* "free", "receiver" or "player"
    shutting_down,     \* shairport_shutdown has begun
    output,            \* the output device is started
    ab_synced,         \* player.c: a packet has come since the last resync
    early              \* history: an audio packet came before player_play was done

shared == <<running, please_shutdown, sock, please_stop, allocated, shutting_down, output>>
vars == <<cpc, rpc, ppc, shared, ab_mutex, ab_synced, early>>

Init ==
    /\ cpc = "idle" /\ rpc = "none" /\ ppc = "none"
    /\ running = FALSE /\ please_shutdown = FALSE /\ sock = FALSE
    /\ please_stop = FALSE /\ allocated = FALSE
    /\ ab_mutex = "free" /\ shutting_down = FALSE /\ output = FALSE
    /\ ab_synced = FALSE /\ early = FALSE

-----------------------------------------------------------------------------
\* rtp_setup: bind a port, start the receiver, and only then say running.
BindPort ==
    /\ cpc = "idle" /\ ~running
    /\ sock' = TRUE /\ please_shutdown' = FALSE
    /\ rpc' = "check" /\ cpc' = "set_running"
    /\ UNCHANGED <<ab_synced, early, ppc, running, please_stop, allocated, ab_mutex, shutting_down, output>>

SetRunning ==
    /\ cpc = "set_running"
    /\ running' = TRUE /\ cpc' = "play"
    /\ UNCHANGED <<ab_synced, early, rpc, ppc, please_shutdown, sock, please_stop, allocated, ab_mutex,
                   shutting_down, output>>

\* player_play: the decoder and the frames, the output, the player thread.
PlayerPlay ==
    /\ cpc = "play"
    /\ allocated' = TRUE /\ please_stop' = FALSE /\ output' = TRUE
    /\ ppc' = "check" /\ cpc' = "playing" /\ ab_synced' = FALSE
    /\ UNCHANGED <<early, rpc, running, please_shutdown, sock, ab_mutex, shutting_down>>

\* A FLUSH request in mid-stream: player_flush.
Flush ==
    /\ cpc = "playing" /\ ab_mutex = "free"
    /\ ab_synced' = FALSE
    /\ UNCHANGED <<cpc, rpc, ppc, shared, ab_mutex, early>>

\* Mutant: the stream stops running before its receiver has ended.
AskReceiverLate ==
    /\ cpc = "playing" /\ running
    /\ running' = FALSE
    /\ please_shutdown' = TRUE /\ cpc' = "signal"
    /\ UNCHANGED <<ab_synced, early, rpc, ppc, sock, please_stop, allocated, ab_mutex,
                   shutting_down, output>>

\* The conversation ends.  rtp_shutdown: ask the receiver to stop...
AskReceiver ==
    /\ cpc = "playing" /\ running
    /\ please_shutdown' = TRUE /\ cpc' = "signal"
    /\ UNCHANGED <<ab_synced, early, rpc, ppc, running, sock, please_stop, allocated, ab_mutex,
                   shutting_down, output>>

\* ...wake it, which only a recv that is blocking notices...
SignalReceiver ==
    /\ cpc = "signal"
    /\ rpc' = IF rpc = "recv" THEN "close" ELSE rpc
    /\ cpc' = "join_receiver"
    /\ UNCHANGED <<ab_synced, early, ppc, shared, ab_mutex>>

\* Mutant: the receiver is not waited for.
JoinReceiverNot ==
    /\ cpc = "join_receiver"
    /\ running' = FALSE /\ cpc' = "ask_player"
    /\ UNCHANGED <<ab_synced, early, rpc, ppc, please_shutdown, sock, please_stop, allocated, ab_mutex,
                   shutting_down, output>>

\* ...join it, and the stream is no longer running.
JoinReceiver ==
    /\ cpc = "join_receiver" /\ rpc = "done"
    /\ rpc' = "none" /\ running' = FALSE
    /\ cpc' = "ask_player"
    /\ UNCHANGED <<ab_synced, early, ppc, please_shutdown, sock, please_stop, allocated, ab_mutex,
                   shutting_down, output>>

\* Mutant: the player is not told to stop.
AskPlayerNot ==
    /\ cpc = "ask_player"
    /\ cpc' = "join_player"
    /\ UNCHANGED <<ab_synced, early, rpc, ppc, shared, ab_mutex>>

\* player_stop: ask the player thread to stop, join it, free everything.
AskPlayer ==
    /\ cpc = "ask_player"
    /\ please_stop' = TRUE /\ cpc' = "join_player"
    /\ UNCHANGED <<ab_synced, early, rpc, ppc, running, please_shutdown, sock, allocated, ab_mutex,
                   shutting_down, output>>

JoinPlayer ==
    /\ cpc = "join_player" /\ ppc = "done"
    /\ ppc' = "none" /\ output' = FALSE /\ allocated' = FALSE
    /\ cpc' = "idle"
    /\ UNCHANGED <<ab_synced, early, rpc, running, please_shutdown, sock, please_stop, ab_mutex,
                   shutting_down>>

Alive == rpc # "crashed"
Converse == /\ Alive
            /\ \/ SetRunning \/ PlayerPlay \/ SignalReceiver \/ JoinReceiver
               \/ AskPlayer \/ JoinPlayer

-----------------------------------------------------------------------------
\* rtp_receiver: test please_shutdown, then block in recv.
CheckShutdown ==
    /\ rpc = "check"
    /\ rpc' = IF please_shutdown THEN "close" ELSE "enter"
    /\ UNCHANGED <<ab_synced, early, cpc, ppc, shared, ab_mutex>>

EnterRecv ==
    /\ rpc = "enter"
    /\ rpc' = "recv"
    /\ UNCHANGED <<ab_synced, early, cpc, ppc, shared, ab_mutex>>

\* A packet, from whoever has found the port: one that is not audio is dropped.
\* The client learns the port from the response to SETUP, but a packet for the
\* port's last user may come before that.
Starting == cpc \in {"set_running", "play"}
Recv ==
    /\ rpc = "recv"
    /\ \/ rpc' = "put" /\ early' = (early \/ Starting)
       \/ rpc' = "check" /\ UNCHANGED early
    /\ UNCHANGED <<cpc, ppc, shared, ab_mutex, ab_synced>>

\* recv fails, without a signal: the receiver ends in mid-stream.
RecvFails ==
    /\ rpc = "recv"
    /\ rpc' = "close"
    /\ UNCHANGED <<ab_synced, early, cpc, ppc, shared, ab_mutex>>

\* player_put_packet's first critical section: keep the packet or not, the first
\* one always; after a gap, keep it and ask for a resend, which dies without a
\* running stream.
PutPacket ==
    /\ rpc = "put" /\ ab_mutex = "free"
    /\ rpc' \in IF ab_synced THEN {"decode", "second"} ELSE {"decode"}
    /\ ab_synced' = TRUE
    /\ UNCHANGED <<early, cpc, ppc, shared, ab_mutex>>

PutAfterGap ==
    /\ rpc = "put" /\ ab_mutex = "free" /\ ab_synced
    /\ IF running \/ shutting_down
       THEN rpc' = "decode" /\ UNCHANGED <<ab_mutex, shutting_down>>
       ELSE rpc' = "dying" /\ ab_mutex' = "receiver" /\ shutting_down' = TRUE
    /\ UNCHANGED <<ab_synced, early, cpc, ppc, running, please_shutdown, sock, please_stop, allocated, output>>

\* alac_decode into the slot, then its ready flag.  Before player_play it works
\* on null pointers, which ends the process, or, when there was a stream before,
\* whose player_stop has left please_stop set, on freed ones, which may end it.
Decode ==
    /\ rpc = "decode"
    /\ \/ (allocated \/ please_stop) /\ rpc' = "second"
       \/ ~allocated /\ rpc' = "crashed"
    /\ UNCHANGED <<ab_synced, early, cpc, ppc, shared, ab_mutex>>

SecondSection ==
    /\ rpc = "second" /\ ab_mutex = "free"
    /\ rpc' = "check"
    /\ UNCHANGED <<ab_synced, early, cpc, ppc, shared, ab_mutex>>

CloseSock ==
    /\ rpc = "close"
    /\ sock' = FALSE /\ rpc' = "done"
    /\ UNCHANGED <<ab_synced, early, cpc, ppc, running, please_shutdown, please_stop, allocated, ab_mutex,
                   shutting_down, output>>

Receiver == CheckShutdown \/ EnterRecv \/ PutPacket \/ PutAfterGap \/ Decode \/ SecondSection \/ CloseSock

-----------------------------------------------------------------------------
\* player_thread_func: until please_stop is set, a frame and its output.
CheckStop ==
    /\ ppc = "check"
    /\ ppc' = IF please_stop THEN "done" ELSE "get"
    /\ UNCHANGED <<ab_synced, early, cpc, rpc, shared, ab_mutex>>

\* buffer_get_frame: nothing to play (while buffering ab_mutex is not taken,
\* on an underrun for a moment), or, once a packet has come, a frame to take.
NoFrame ==
    /\ ppc = "get"
    /\ ppc' = "play"
    /\ UNCHANGED <<ab_synced, early, cpc, rpc, shared, ab_mutex>>

TakeFrame ==
    /\ ppc = "get" /\ ab_mutex = "free" /\ ab_synced
    /\ ab_mutex' = "player" /\ ppc' = "lookahead"
    /\ UNCHANGED <<ab_synced, early, cpc, rpc, shared>>

\* The last-chance check: nothing to ask for, or rtp_request_resend, which
\* dies without a running stream.  die returns if the program is shutting
\* down already; otherwise it waits for the player (rtsp_take_player).
AllArrived ==
    /\ ppc = "lookahead"
    /\ ppc' = "clear"
    /\ UNCHANGED <<ab_synced, early, cpc, rpc, shared, ab_mutex>>

RequestResend ==
    /\ ppc = "lookahead"
    /\ IF running \/ shutting_down
       THEN ppc' = "clear" /\ UNCHANGED shutting_down
       ELSE ppc' = "dying" /\ shutting_down' = TRUE
    /\ UNCHANGED <<ab_synced, early, cpc, rpc, running, please_shutdown, sock, please_stop, allocated,
                   ab_mutex, output>>

ReleaseFrame ==
    /\ ppc = "clear"
    /\ ab_mutex' = "free" /\ ppc' = "copy"
    /\ UNCHANGED <<ab_synced, early, cpc, rpc, shared>>

CopyFrame ==
    /\ ppc = "copy"
    /\ ppc' = "play"
    /\ UNCHANGED <<ab_synced, early, cpc, rpc, shared, ab_mutex>>

PlayOutput ==
    /\ ppc = "play"
    /\ ppc' = "check"
    /\ UNCHANGED <<ab_synced, early, cpc, rpc, shared, ab_mutex>>

Player == /\ Alive
          /\ \/ CheckStop \/ NoFrame \/ TakeFrame \/ AllArrived \/ RequestResend
             \/ ReleaseFrame \/ CopyFrame \/ PlayOutput

-----------------------------------------------------------------------------
Next == \/ Alive /\ (BindPort \/ Flush \/ AskReceiver)
        \/ Converse \/ Receiver \/ Recv \/ RecvFails \/ Player

Spec == Init /\ [][Next]_vars

\* The three threads run; packets may stop.  The receiver gets ab_mutex in the
\* end: the player holds it for a moment and then waits for the output device.
FairSpec == Spec /\ WF_vars(Converse) /\ SF_vars(Receiver) /\ WF_vars(Player)

\* Besides, packets keep coming, whether or not from the sender of the stream.
SendingSpec == FairSpec /\ WF_vars(Recv)

-----------------------------------------------------------------------------
\* The three threads are somewhere in their code.
TypeOK ==
    /\ cpc \in {"idle", "set_running", "play", "playing", "signal", "join_receiver",
                "ask_player", "join_player"}
    /\ rpc \in {"none", "check", "enter", "recv", "put", "decode", "second", "close",
                "dying", "crashed", "done"}
    /\ ppc \in {"none", "check", "get", "lookahead", "clear", "copy", "play",
                "dying", "done"}
    /\ running \in BOOLEAN /\ please_shutdown \in BOOLEAN /\ sock \in BOOLEAN
    /\ please_stop \in BOOLEAN /\ allocated \in BOOLEAN
    /\ shutting_down \in BOOLEAN /\ output \in BOOLEAN
    /\ ab_mutex \in {"free", "receiver", "player"} /\ ab_synced \in BOOLEAN
    /\ early \in BOOLEAN

\* The frames are there whenever the receiver decodes into them and whenever
\* the player works on them or plays, and the output is started whenever it
\* plays: player_stop frees them only after both threads have ended, at whatever
\* point of the stream that was and whether or not the receiver has ended by
\* itself.  The receiver starts before player_play allocates them, and a packet
\* that comes so early is the one exception.
MemoryIsLive ==
    /\ rpc = "decode" => allocated \/ early
    /\ ppc \notin {"none", "done"} => allocated /\ output

\* Between streams nothing is left over: no thread, no lock, no memory, no
\* socket, so that the next rtp_setup and player_play start from scratch.
QuietWhenIdle ==
    cpc = "idle" => /\ rpc = "none" /\ ppc = "none" /\ ab_mutex = "free"
                    /\ ~running /\ ~sock /\ ~allocated /\ ~output

\* Why the two hold, and ReceiverNeverDies below: what the conversation's place
\* says of the two threads it starts and stops, and who can hold ab_mutex.
StreamMatchesConversation ==
    /\ rpc = "none" <=> cpc \in {"idle", "ask_player", "join_player"}
    /\ ppc = "none" <=> cpc \in {"idle", "set_running", "play"}
    /\ running   <=> cpc \in {"play", "playing", "signal", "join_receiver"}
    /\ allocated <=> ppc # "none"
    /\ output    <=> ppc # "none"
    /\ sock      <=> rpc \notin {"none", "done"}
    /\ please_shutdown /\ rpc # "none" => cpc \in {"signal", "join_receiver"}
    /\ cpc \in {"signal", "join_receiver"} => please_shutdown
    /\ please_stop /\ ppc # "none" => cpc = "join_player"
MutexFollowsPlayer ==
    /\ ab_mutex = "player" <=> ppc \in {"lookahead", "clear", "dying"}
    /\ ab_mutex = "receiver" <=> rpc = "dying"
SessionInv ==
    /\ TypeOK /\ StreamMatchesConversation /\ MutexFollowsPlayer
    /\ rpc \in {"put", "decode", "second"} /\ Starting => early
    /\ rpc \in {"dying", "crashed"} => early
    /\ ppc = "done" => please_stop

\* The receiver's resend requests, made in mid-stream, never find the stream
\* down ("rtp_request_resend called without active stream!", rtp.c 180):
\* rtp_shutdown joins the receiver before it clears running.  Again a packet that
\* comes before running is set is the one exception.
ReceiverNeverDies == rpc = "dying" => early

\* The player's requests: the same die (rtp.c 180).
PlayerNeverDies == ppc # "dying"

\* Stopping a stream ends, both joins return, as long as packets keep coming:
\* rtp_shutdown's signal alone does not wake a receiver that is about to call
\* recv.  The exceptions are a thread that dies meanwhile and a packet that came
\* too early.
StopCompletes == cpc = "signal" ~> (cpc = "idle" \/ ppc = "dying" \/ early)
===============================================================================
