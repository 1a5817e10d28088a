# Formal models of shairport

Shairport receives AirPlay audio: a client opens an RTSP connection, sets up a
stream, and sends RTP packets whose ALAC frames are decoded, buffered and
played.  This directory holds TLA+ models of the parts of the program where
threads, signals, lost packets and wrapping counters meet, the TLC
configurations that check them, and theorems about them that TLAPS proves.

Line numbers below are those of the C files of this repository.

## 1. Inventory

### Threads

| thread | created by | runs |
|---|---|---|
| main | `main` (shairport.c 274) | `rtsp_listen_loop`: accept, create and join conversations; runs the signal handlers (any other thread may, too) |
| conversation, one per connection | `rtsp_listen_loop` (rtsp.c 960) | `rtsp_conversation_thread_func`: read a request, handle it, answer |
| RTP receiver, at most one | `rtp_setup` (rtp.c 160) | `rtp_receiver`: `recv`, `player_put_packet` |
| player, at most one | `player_play` (player.c 521) | `player_thread_func`: `buffer_get_frame`, `stuff_buffer`, output |
| responder | `mdnsd_start` (tinysvcmdns.c), if that back end is chosen | answers mDNS queries |

### Components

| component | state | operations | interacts with | what makes it correct |
|---|---|---|---|---|
| Sequence numbers (player.h, player.c) | none | `seq_diff`, `seq_order`, `BUFIDX` | everything below | order is right within half the number space, over the wrap; slots of one ring are distinct |
| Jitter buffer (player.c) | `audio_buffer`, `ab_read`, `ab_write`, `ab_synced`, `ab_buffering`, `ab_mutex` | `player_put_packet`, `buffer_get_frame`, `player_flush`, `init_buffer` | receiver, player thread, conversations, `rtp_request_resend` | frames are played in order, each at its position; gaps are asked for; the slot being filled is not taken; playing starts with enough buffered and restarts after an underrun |
| RTP session (rtp.c) | `running`, `please_shutdown`, `sock`, `rtp_thread` | `rtp_setup`, `rtp_shutdown`, `rtp_request_resend`, `rtp_receiver` | conversation starts and stops it, both stream threads ask for resends | stopping ends, nothing is used after it is freed, no resend without a stream |
| Player session (player.c) | `please_stop`, `player_thread`, frames, decoder | `player_play`, `player_stop` | conversation, output, shell commands | as above |
| Player ownership (rtsp.c) | `playing_mutex`, `playing_thread`, `please_shutdown`, `conns` | `rtsp_playing`, `rtsp_take_player`, `rtsp_shutdown_stream`, `cleanup_threads`, the handlers | conversations, main thread, SIGUSR1 | one user at a time, whatever ids threads are given; a stream ends with its conversation; whoever waits for the player gets it; ended threads are joined |
| Request reader (rtsp.c 203-332) | buffer, message under construction | `rtsp_read_request`, `nextline`, `msg_handle_line` | client, `please_shutdown` | framing does not depend on how the bytes are split over reads |
| Handlers and SDP (rtsp.c 363-625) | the connection's `stream_cfg` | OPTIONS, ANNOUNCE, SETUP, FLUSH, TEARDOWN, SET_PARAMETER | player, metadata | a stream starts only with a valid announcement |
| Authentication (rtsp.c 627-779) | the connection's nonce | `rtsp_auth`, `apple_challenge` | client | with a password, no handler runs before a correct digest |
| Metadata (metadata.c) | `player_meta`, `fd`, `dirty` | set, open, write, cover art | conversations, a FIFO whose readers come and go | every update reaches a reader that is there |
| Life cycle (shairport.c, common.c) | `shutting_down`, `config` | `shairport_shutdown`, `die`, signal handlers | everything | shutdown stops the stream and ends |
| Daemon (daemon.c) | a pipe, the pid file's lock | init, ready, fail, exit | the spawning process | the spawner learns of success or failure |
| Advertisement (mdns*.c) | chosen back end, child's pid | register, unregister | forked helper, SIGCHLD | the service is advertised while the program runs |
| tinysvcmdns (vendored) | record lists, stop flag | responder loop, registration, stop | responder thread | stopping ends; known answers are suppressed |
| Outputs (audio_*.c) | a library's handle | start, play, stop | player thread | – |
| ALAC (vendored) | decoder tables | `decode_frame` | receiver thread | a pure function of the packet |

### What is hard here

* The slots of the ring are filled, flagged and copied outside `ab_mutex`.
* The fill of the ring is computed in one critical section and used in another.
* Positions are 16-bit numbers that wrap, distances are signed 16-bit.
* Three threads are stopped with flags and with a signal that only counts if
  it arrives while the thread is blocked.
* `rtsp_playing` answers a question by locking the mutex for a moment, which
  other threads can see.
* `playing_thread` keeps the id of a player that has ended, and the system may
  give that id to a later thread.
* `please_shutdown` of rtsp.c is one variable for all conversations.
* A receiver runs before its stream does: packets may find it half started.
* `die` may be called by any thread, and takes the player before it exits.
* A request is cut from a stream of bytes in a buffer that also holds bytes of
  the request before; signals interrupt the reads.
* The metadata fields and the FIFO are shared by all conversations, unlocked.
* A daemon, its parent, its helper and other instances share a pipe and a pid
  file, and any of them may be killed.
* The responder of tinysvcmdns looks its records up one by one while they are
  registered, and sleeps in `select` where signals interrupt it.

`PROJECT.json` lists each hazard at its line with the properties aimed at it.

## 2. Modules

| module | models | kind |
|---|---|---|
| `SeqArith` | player.h 12-18, player.c 76-108 | operators |
| `JitterBuffer` | player.c 81-101, 178-229, 341-391, 456-502; rtp.c 178-193 | state machine, extends `SeqArith` |
| `AudioStream` | what the listener of a stream hears | abstract specification |
| `StreamSession` | rtp.c 38-193; player.c 191-229, 341-391, 432-536 | state machine |
| `RtspOwnership` | rtsp.c 56-124, 257-282, 372-425, 781-833, 923-968; shairport.c 48-68 | state machine |
| `ExclusivePlayer` | what ownership of the player promises | abstract specification |
| `RtspReader` | rtsp.c 126-332 | state machine |
| `RtspDialogue` | rtsp.c 334-425, 518-625, 685-833 | state machine |
| `MetadataFifo` | metadata.c 37-165; rtsp.c 455-516 | state machine |
| `Startup` | daemon.c; common.c 44-58; shairport.c 48-77, 239-323; mdns.c 59-110; mdns_external.c | state machine |
| `Mdnsd` | tinysvcmdns.c 1061-1676; mdns_tinysvcmdns.c 41-145 | state machine |
| `DnsMessage` | tinysvcmdns.c 75-274, 539-1016 | operators |
| `DnsReply` | tinysvcmdns.c 369-394, 565-590 | state machine, extends `DnsMessage` |
| `AlacDecoder` | alac.c 134-1124 | operators |
| `AlacEncoder` | a reference for it: what a lossless frame is | operators |
| `MCJitterBuffer`, `MCRtspOwnership`, `MCRtspReader`, `MCMetadataFifo`, `MCMdnsd`, `MCCodecs` | constants and inputs for TLC | - |
| `JitterBuffer_proofs`, `RtspOwnership_proofs`, `StreamSession_proofs`, `RtspReader_proofs`, `RtspDialogue_proofs`, `MetadataFifo_proofs`, `Startup_proofs`, `Mdnsd_proofs` | - | theorems; those about `DnsReply` are in `Mdnsd_proofs` |

A step of a model is what one thread does between two points at which another
thread can see or change the variables it uses.  A critical section is one
step, or two if other threads can see the ring half-way through it; a blocking
call is a place of its own; and so is the gap between testing a flag and
blocking, because a signal there is lost.

The RTSP side is seen at three scales, which fit together at the places named:
`RtspReader` cuts bytes into requests, for one connection; `RtspDialogue` takes
requests whole and follows what several connections are told and what the
stream they start is made of; `RtspOwnership` leaves the requests' contents away
and takes the change of the player's owner apart, step by step.  What
`RtspOwnership` calls `RtpSetup` to `PlayerStop` is what `StreamSession` opens up,
and the frames of `StreamSession` are the ring of `JitterBuffer`.

### JitterBuffer

State: the four cursors and flags of player.c 88-91, the ring (`ready` and
what the slot holds: the frame of some packet, silence, a mixture, or
uninitialized memory), the receiver's place in `player_put_packet` with its
locals `seqno` and `buf_fill`, the player's place with the frame it has taken,
and what the output was last given.  `unasked` is a history variable: the
positions `ab_write` has skipped that no resend request has named.

| action | code |
|---|---|
| `PutPacket` | `player_put_packet`, first critical section (195-215), and the count `rtp_request_resend` sends (rtp.c 190) |
| `Decode`, `MarkReady` | 217-220, without the lock |
| `FinishPut` | second critical section (222-228) |
| `PollBuffering` | the unlocked test at the top of `buffer_get_frame` (348) |
| `Underrun` | 351-360 |
| `TakeFrame`, `ClearReady` | 361-388: zero a missing frame, advance; then clear `ready` and unlock.  Two steps, since the receiver may fill the slot in between |
| `PlayFrame` | `stuff_buffer` copies the slot without the lock, and the output plays the copy |
| `Flush` | `player_flush` (498-502) |

Undefined behaviour: a slot that one thread writes while another writes or
copies it holds, or yields, a mixture (`Torn`) or either value.

`Arrives` is the network: once synchronised, any packet from `Behind` to `Ahead`
of the newest.  `StartFill` is `-b`; the model allows 1 to the size of the
ring, player.c 505 refuses only more than that.

Left out: the fill-level estimator and the playback rate, volume, dithering
and resampling, which change samples and not which frame is played.

### RtspOwnership

State: `playing_mutex` (its holder), `playing_thread`, `please_shutdown`, rtp.c's
`running`, whether the player thread is up, each thread's place and what it
asked `rtsp_playing` for, each connection's `running` flag, the `conns` array.
`ProbeFree`/`ProbeRelease` are the two halves of `rtsp_playing` with the mutex
free, `ProbeHeld` is its other branch; `TryLock`, `RequestShutdown`, `Kill`, `Lock`,
`Assign` are the steps of `rtsp_take_player`; `CheckShutdown`, `EnterRead`, `Receive`
and `ReadEof` those of `rtsp_read_request`; `RtpShutdown` to `Finish` the end of a
conversation (822-832); `Accept`, `MarkRunning` and `Cull` the main thread's; and
`Terminate` with `Exit` a SIGINT or SIGTERM that the main thread takes.

The answer of `ProbeHeld` reads `playing_thread` in the same step as the failed
trylock.  Threads that exist have different ids, so no other thread can turn the
answer into a yes; and a no that comes of a later `Assign` is had by asking after
it, so nothing is lost by it.

A conversation is known by its thread's id, and an id is used again: `Accept` only
takes care that no thread that has it exists, since `cleanup_threads` joins the ended
ones just before `pthread_create`.  So clients come without end, and
`playing_thread` may hold what an earlier thread of that id has stored.  History:
`inherited` says that it does, and `mistaken` that the later thread was told it
plays, by a `rtsp_playing` that found the mutex taken: by another thread that has not
stored its own id yet.

A signal to a thread that has never existed or has been joined is undefined:
`Kill` lets it do nothing or end the process.  Starting and stopping the stream
are single steps here; `StreamSession` opens them up.  Handlers that touch
none of this state return to reading.

### StreamSession

State: the places of the conversation, the receiver and the player, the flags
of rtp.c and player.c, whether socket, frames and output are there, and the
holder of `ab_mutex`.  What the ring holds does not matter here, so whether a
packet leaves a gap and whether the last-chance check finds a hole are free
choices; `ab_synced` is there because the first packet of a stream asks for
nothing, and a player without any packet has no frame to take.  `Flush` is
`player_flush`.  `recv` may fail and end the receiver in mid-stream (`RecvFails`).

A packet may come at any time, also before `running` is set and the frames are
allocated (`Starting`): the client does not know the port yet, but whoever streamed
to it before may.  Decoding without frames ends the process (place `"crashed"`); or,
after an earlier stream, whose `player_stop` has left `please_stop` set and its pointers
dangling, it may seem to work.  `early` is a history variable: such a packet came.  A thread that dies stays where it is: `die` calls
`shairport_shutdown`, which waits for `playing_mutex`, which the conversation that
is joining this thread holds.

### RtspReader

State: the bytes on the wire, the request its client waits for, the buffer with
the bytes after its valid end (`mem`, `inbuf`), the message under construction and
`msg_size`.  A byte is a symbol; the text of a line is one, since `nextline` only
looks for its end (`Text(h)`: a long line is a buffer full of it).  `Rest(r, e)[k]` is
what a client sends from the k-th header on: the headers left, the empty line, the
body.

| action | code |
|---|---|
| `Test` | rtsp.c 267-271 |
| `ReadHead`, `ReadNothing` | a read of any number of bytes that wait (272-283), or of none: end of file |
| `Interrupt` | EINTR (277-282, 313) |
| `ParseLine`, `NoHeader`, `NeedMore` | the loop over `nextline` and `msg_handle_line` (285-298) |
| `TooMuchContent`, `EndHead` | room for the body, or none (300-307) |
| `ReadBody`, `Deliver` | 309-324 |
| `Respond` | 814-817 |
| `Send`, `HangUp` | the client |

`nextline` (126-147) is `NextLines`: it looks at the byte after a CR even if that
was not read yet, so what old memory holds there matters; a length below zero
is the place `"crash"`.  `Keeps(k)` is the test of rtsp.c 313, which compares the
number of bytes read with `EINTR`.  `accidents` is a history variable that names
what happened on the way, so that properties can say exactly which accidents
break them.

A request has a Content-Length of its own, which need not be its body's (`length`, -1
for all that is below zero): `Declared` is what `msg_handle_line` returns for it, 0 if
the message has lost it or never had it.  Below zero, the reader takes what follows
the empty line for more headers.

### RtspDialogue

State: each conversation's place and request, its nonce, which ANNOUNCE each
part of its `stream` was copied from, the player's owner and the key and format
it was started with, and how the program was configured (`config`).  `Challenge` and `Authentic` are `rtsp_auth`, `Announce` copies
iv, key and format in the order of rtsp.c 577-605 with its early returns, `Play`
is SETUP's `rtp_setup` and `player_play`, `Close` the end of a conversation (819-833).
`Die` is what ends the program in a handler: a receiver still running, a start
fill above the buffer (`config.over`, player.c 505), an announcement of another sample
size than 16 (the form `"wide"`, which `handle_announce` accepts and `init_decoder`
does not, 134-136) or none at all, and an ANNOUNCE with fewer than twelve numbers.
What the take-over does to the player's own thread belongs to `StreamSession`.
History: which ANNOUNCE and which nonce a client was told was accepted, and
whether all clients have kept to the protocol (`orderly`).

### MetadataFifo

State: each conversation's place, the tag it sets and the fields it has still to
print; the fields, `dirty`, the descriptor and whether somebody reads the FIFO.
`SetSame`, `FreeField`, `Assign` and `Mark` are the four outcomes and steps of
`metadata_set`, `TestFd` and `Open` those of `metadata_open`, `TestDirty` to `EndRecord`
those of `metadata_write`.  Using a freed field is undefined: the model notes it
in `broken` and stops.

### Startup

State, for each instance: what its parent has heard, the pipe, the place of the
daemon, its descriptor of the pid file and the lock, its helper and the pipe of
`fork_execvp`, `mdns_pid`, `config.mdns`.  `die` is `Die` (with its message), or
`DieFormatted` for messages with arguments, whose second use of one `va_list` may
end the process instead (common.c 47-54).  The pid file is a number: a name
that leads to a file, which may be unlinked while an instance still has it open
and locked.  `Kill` may remove a daemon or a helper at any moment, `Terminate`
is SIGTERM, `ReapKnown` and `ReapOther` are `sig_child` with and without the pid
stored.  `OpenPidfile` creates the file and `KeepPidfile` stores the descriptor in
`lock_fd`, which is what `daemon_exit` looks at; a signal may come between.
`shairport_shutdown` is `Unregister`, `ShutdownStream` and then the pid file; either of the first
two may wait (`UnregisterWaits`: `mdnsd_stop`, see `Mdnsd`; `ShutdownStream`: for the
conversation that plays, see `RtspOwnership`), and nothing makes `WaitEnds` happen.

### Mdnsd

State: the registering thread, the record lists, the bytes in `notify_pipe`,
`stop_flag`, the responder's place with the packet, the look-ups it still has to
make and the reply it builds, the datagrams that wait.  What holds `data_lock` is
one step: `SetHostname`, `AddRR`, `RegisterService`; each look-up (`Populate`); so a
reply may be built from records of before and after a registration.  `Interrupt`
is EINTR in `select`, after which the code reads the notify pipe though nothing is
there (1408): the place `"blocked"`.  Among the packets, an `"error"` is a failed receive, whose length becomes
`(size_t)-1` for the parser: it reads no names, and what it makes of the rest matches
no record, so nothing is answered.  A `"discarded"` one (a wrong checksum, found after
`select`) leaves the thread in `recvfrom`, the place `"receiving"`.  A `"truncated"` one
is a query that counts more questions than it has, whose name is `NULL`:
`nlabel_to_str` asserts it (117, 1256) and the program ends (`AssertName`).  `Filter` is what each
walk over a list keeps; it is written as a recursive function because the provers
know nothing of `SelectSeq`.

### AlacDecoder, DnsMessage, DnsReply

Pure functions, written as operators on a bit position or a byte offset, with the
widths the code has.  `AlacDecoder` follows `alac_decode_frame` for 16-bit samples;
the variables that a branch leaves alone (the right channel of a mono frame) hold
`Stale`.  `AlacEncoder` is not code of the repository: it defines what a frame that
loses nothing is.  In `DnsMessage` the encoder's compression, by a list of names
already written, meets the parser's, by pointers.  Its loops are recursive functions
of the number of their turns, so that it can be proved about; `AlacDecoder`'s are
RECURSIVE operators.  `DnsReply` is a reply that grows from `mdns_init_reply` by
`rr_list_append`, of the records that the library's own constructors can make:
labels of 1 to 63 bytes, texts of at most 62 (`dup_label` refuses 63), numbers that
fit their fields, the five bytes of an NSEC's bitmap (tinysvcmdns.h 74).  Replies
hold no questions, and none are parsed.

## 3. Runs

| run | expects | question |
|---|---|---|
| `JitterBuffer_any` | pass | any arrival, overruns, underruns, a flush: `TakenIsNotNewest`, `GapsAskedFor`, `CursorsForward`, `Rebuffers` |
| `JitterBuffer_lossy` | pass | packets lost, none late: `PlaysStream` (the ring implements `AudioStream`), `LastChanceTaken` |
| `RtspOwnership_own` | pass | clients two at a time, thread ids used again, and a shutdown: `ExclusiveUse`, `StreamOwned`, `RequestHasPlayer`, `StreamCallsPaired`, `ImplementsPlayer`, `TakerServed` |
| `StreamSession_stop` | pass | stopping at any point, flushes, a receiver that fails: `MemoryIsLive`, `ReceiverNeverDies`, `StopCompletes` |
| `StreamSession_die` | violation of `PlayerNeverDies` | a last-chance resend while stopping |
| `RtspReader_frames` | pass | any split into reads, signals, right and wrong lengths, a client that hangs up: `FramedAsSent`, `HeadersOfOneRequest`, `NothingHandledOutOfStep`, `StaysInRoom`, `Answered` |
| `RtspDialogue_answers` | pass | two connections, right and wrong requests in any order, any configuration: `AuthBound`, `ChallengedOnce`, `StreamAsAnnounced`, `HandlersSurvive`, `TeardownStops` |
| `MetadataFifo_write` | pass | two conversations, a reader that comes and goes: `NothingForgotten`, `AloneIsSafe` |
| `Startup_daemon` | pass | two instances, a helper, kills and signals: `ToldTruth`, `NoOrphanHelper`, `PidfileRemoved`, `ParentNeverHangs`, `HelperWatched` |
| `Startup_one` | violation of `OneDaemon` | three instances and one pid file |
| `Mdnsd_serve` | pass | registration, two datagrams, a signal, a stop: `ReplyComplete`, `AnsweredExactly`, `GoodbyeBeforeFree`, `Announced`, `QueriesHeard`, `StopCompletes` |
| `Codecs_roundtrip` | pass | `FramesLossless`, `MessagesSurvive` over all frames and messages of the bounds |

Each passing property has a mutant in `PROJECT.json`: the operator before the
one it replaces, changed the way a plausible bug would change it.

The properties say where the code falls short of what one would wish, and hold
of what remains.  What they except is not caught by them, and the hazards of
`PROJECT.json` that are only that have no property but a note:

* `ExclusiveUse` and its companions, `TakerServed` among them: from the moment a thread with an ended player's
  id was told that it plays.
* `TakerServed`: a silent client that a signal misses between its thread's test
  and its read.  `StopCompletes` of `StreamSession`: the same of a silent sender.
* `MemoryIsLive`, `ReceiverNeverDies`: a packet before the stream is started.
* `FramedAsSent`: the accidents it names; `Answered`: lengths that are not the body's.
* `StreamAsAnnounced`: the two ways in which the iv of a stream can change under it,
  an ANNOUNCE refused for its key and one that comes during the stream.
* `HandlersSurvive`: clients that do not keep to the protocol, `-b` above the buffer.
* `AloneIsSafe`: conversations that overlap.
* `ToldTruth`: a daemon that ended without a message (the uninitialized byte of
  daemon.c 56); `ParentNeverHangs`: a helper that survives its daemon, a shutdown
  that waits.
* `PidfileRemoved`: a daemon killed, or stopped between `open` and the store to
  `lock_fd` (daemon.c 72).
* `NoOrphanHelper`: a helper whose back end is not chosen yet; `HelperWatched`: one that
  dies before its pid is stored, and a shutdown that waits for a conversation.
* `Announced`, `QueriesHeard`, `StopCompletes` of `Mdnsd`: a responder left in `recvfrom`,
  aborted by an assertion, or, for `QueriesHeard`, asleep on the empty pipe.

### Bounds

* `JitterBuffer_any`: 8 sequence numbers, 2 slots, a start fill of 1.  Packets
  arrive from 4 behind (half the number space, the edge of `seq_order`) to 3
  ahead of the newest, which is enough to overrun a ring of 2, to wrap, and to
  repeat.  Streams start at the last number, so that the wrap comes at once.
  `MaxLead` is beyond the number space, so the sender is not paced.  One flush,
  at any moment.
* `JitterBuffer_lossy`: 8 slots, start fill 4 and a first distance of 1 in place of
  16, so that the last-chance check looks at a position; gaps of one, a
  fill of at most 5, and no gap at all among them: a stream that loses nothing is
  one of its behaviours.  Two slots below the ring's size matters: with one,
  the slot still being copied is the next to be filled.
* `RtspOwnership_own`: two ids for conversations, and the main thread: the least
  with a player, a taker and a third thread that probes, and with a thread that has
  an ended player's id while another takes the player.  How many clients come is not
  bounded.  Once a thread has been mistaken for the player no property
  says more, and the run does not follow it (`UpToMistake`).  More threads at a time
  are covered by the proofs.
* `StreamSession`: unbounded behaviour of finitely many states; nothing is cut.
* `RtspReader_frames`: a buffer of 6 bytes and room for 2 headers, `EINTR` 4 as it
  is.  Requests end before, at and after the buffer's end: no body, a body that
  does not fit, more headers than there is room for, a line that fills the
  buffer, a length below zero with a body that looks like headers, lengths below
  and above the body's; all three line ends.  The number of requests is not bounded.
* `RtspDialogue_answers`: two connections, five methods, two announcements:
  the least with a foreign nonce, a stream taken over and an ANNOUNCE that
  follows another.  SET_PARAMETER, GET_PARAMETER and RECORD are handled
  like OPTIONS here, and are left to the proofs.
* `MetadataFifo_write`: two conversations, a text field and a cover, two values;
  conversations and values are symmetric.
* `Startup_daemon`: two instances, each with one helper command to try.
  `Startup_one`: three instances without a helper, the least in which two serve
  while a third has removed the file between them.
* `Mdnsd_serve`: a machine with no address, two, or an IPv6 one; two datagrams out
  of eight: queries with fresh and stale known answers, one that asks for unicast, a
  packet that is not a query, a failed and a discarded receive, a query cut short.
* `Codecs_roundtrip`: frames of up to 4 pairs of samples, small, equal, opposite and
  extreme, with 0, 1, 2 or 31 coefficients, mixed or not, coded or plain, in 1 or 2
  channels; messages of up to 3 records of all types the library writes, whose
  names share suffixes and one of whose names holds a dot, with labels of up to 4
  bytes in place of 63.  `RepliesSurvive` is the same question without these bounds.
  Runs of zeros are at most a frame long, and the encoder uses the decoder's formulas
  for prediction and for the Rice parameters: `FramesLossless` compares how values,
  runs and coefficients follow each other, not those formulas.

The violation runs use the smallest sizes at which the behaviour occurs.

### Fairness

* `JitterBuffer`: weak fairness of the receiver's and the player's steps, which
  run whenever they are not blocked.  `Rebuffers` also needs new packets, however
  many duplicates come in between: strong fairness of `NewPacket`.
* `RtspOwnership`: weak fairness of each thread.  `Lock` is a step of its
  thread: once no more clients come and those that came have left, the mutex is
  taken only finitely often and then stays free until a waiter gets it.
  `LeavingSpec` adds that every client hangs up and that in the end no more come:
  without the one a signal between the test of `please_shutdown` and the read leaves
  the taker waiting for ever, without the other a mutex that is not fair may.
* `StreamSession`: weak fairness of the conversation and of the player, strong
  fairness of the receiver, which competes with the player for `ab_mutex`: the
  player holds it for microseconds and then waits for the output device for a
  whole frame.  `SendingSpec` adds packets that keep coming; without it a signal
  between the test of `please_shutdown` and `recv` (rtp.c 52-54) is lost and
  `StopCompletes` does not hold.
* `RtspReader`: weak fairness of the reading thread, and strong fairness of its
  reads, since signals do not interrupt every one of them.  The client promises
  nothing.
* `RtspDialogue`: weak fairness of each conversation's own steps; requests and
  signals come or do not.
* `Startup`: weak fairness of each daemon's own progress, of `execvp`, of the
  handler of SIGCHLD and of the parent's read.  Nothing makes anyone start,
  fail, or be killed.
* `Mdnsd`: weak fairness of the registering thread and of the responder.

### What the violations show

* `StreamSession_die`, `rtp.c 175`: `running` is cleared before `player_stop`, so the
  player may find no stream to ask for a resend, and `die` waits for the
  conversation that waits to join it.
* `Startup_one`, `daemon.c 105`: `daemon_exit` unlocks and closes the pid file
  before it unlinks it by name, and an instance that failed to lock the file
  (`die` runs `shairport_shutdown`) unlinks it too.  After that a new
  instance creates another file, locks it, and serves beside the first.

### Behaviours of the models that no run is kept for

The models have these behaviours because the code has them.

* `rtp.c 160`: the receiver is created before `running` is set.  Two packets with a
  gap between them, sent by whoever streamed to the port before, make it ask for a
  resend without an active stream, which is a `die`; a single one is decoded into
  frames that are not allocated (`early` of `StreamSession`).
* `rtsp.c 74`: a connection's thread is given the id of a player that has ended.  A
  third thread takes the mutex, and before it stores its own id (91) the first is
  told by `rtsp_playing` that it is the player (`mistaken` of `RtspOwnership`).
* `player.c 209`: `seq_order(ab_read, seqno)` is strict, and `ab_read` is the next
  position to be played: its packet is "late but not yet played" and is dropped.
* `player.c 363`: an overrun moves `ab_read` over slots without clearing `ready`.
  A ring later, if the packet for such a slot is lost, its old frame is played,
  and the last-chance check takes it for one that has arrived.
* `player.c 223`: `buf_fill` is of before a flush that comes between the two
  critical sections, and ends buffering with nothing buffered.
* `rtsp.c 965`: `running = 1` comes after the thread may have set it to 0; such a
  thread is never joined.
* `rtsp.c 88`: the trylock may fail against another thread's `rtsp_playing`; then
  nobody plays and `playing_thread` names no thread, or one that is joined.
* `please_shutdown` closes connections that do not play; a request made against
  a momentary lock stops the next player; a second SETUP on the playing
  connection ends the program (`StreamCallsPaired` says this is the only way).
* A SETUP for a stream that was announced with another sample size than 16, or under
  a `-b` above the buffer, ends the program (player.c 134, 505).
* A stop of the program waits for the conversation that plays (shairport.c 56), and
  that for its client, if the signal finds it between its test and its read.
* A start fill of `BUFFER_FRAMES` makes the newest slot the one that is taken
  (the theorem assumes less).  A resent packet that is decoded while its
  position is given up is played as a mixture.
* `rtsp.c 313`: a part of a body of exactly four bytes is dropped as if it were a
  signal, and the connection then waits for bytes that never come.
* `mdns_external.c 55`: the helper keeps the pipe to the parent open, so that a
  daemon that dies without a word leaves its parent waiting for the helper.

## 4. Proofs

The assumptions are those the modules state of their constants.  Where an invariant is not inductive, the
strengthening is a conjunction of named parts, defined at the head of the
proof module, and each lemma says which actions keep it.

`JitterBuffer_proofs` begins with what it needs of the wrapping arithmetic:
distances are in range, `seq_diff` undoes `SeqAdd` within half the number
space, advancing adds distances, and positions less than a ring apart have
different slots (`SlotsDiffer`).  Then, for every number space, ring size, start
fill, arrival window and number of flushes that `JitterAssumption` allows:

* `TypeCorrect`, inductive as it stands.
* `NewestSlotSafe` (`TakenIsNotNewest`): from the guard of `TakeFrame` the taken position
  is 1 to ring size - 1 behind `ab_write`, and while the player holds `ab_mutex`
  nobody moves `ab_write`.  It needs `StartFill < BufferFrames`.
* `GapsCovered` (`GapsAskedFor`): the range of the request and the range skipped
  are the same set, over the wrap.
* `Forward` (`CursorsForward`): the cursors only move forward, and where the player's
  moves it is left less than a ring behind the receiver's; each step is compared with `SeqDiffAdd` and
  `SeqDiffAdvance`.
* `Implements` (`PlaysStream`) and `LastChances` (`LastChanceTaken`), where the stream is
  one that the player keeps up with (`KeepsUp`): no flush, no packet behind the
  newest, and a sender that leads by less than the ring.  Those are the conditions
  `JitterBuffer_lossy` has; with an overrun or a flush the ring does skip positions,
  and `JitterBuffer_any` shows what remains.  The inductive `RingInv` says what each
  slot holds: the newest position is in its slot as soon as the receiver has
  decoded it (`NewestInRing`); a slot that is ready holds the frame of a position
  between the oldest the player may still want and the newest (`ReadyInWindow`);
  what the player has taken is the position before `ab_read`, with its own frame or
  silence (`TakenInHand`).  From it each step is mapped: `TakeFrame` and `PlayFrame` to
  the steps of `AudioStream`, the rest to stutters or to a frame that arrives.

`RtspOwnership_proofs`, for any number of connections, at once and one after another,
and any reuse of their threads' ids: `OwnershipInv` is inductive (`Ownership`).  `ExclusiveUse` alone is not, because most users of the player hold the
mutex only by what `rtsp_playing` has told them; so the invariant says where the mutex is held
(`HoldsWhereItSays`), whom `playing_thread` may name (`NamesTheHolder`,
`HolderIsNamed`): its holder, a thread past its last use of the player, or one that has
`inherited` the id of such a thread; and which half of the stream is up where
(`StreamFollowsOwner`).  All this holds until the last has been told that it plays
(`Sound`).  From it follow `Exclusive`,
`NoOrphanStream`, `CallsPaired`, and that every step is a step of `ExclusivePlayer`
or none (`Implements`).  `RequestsAnswered` (`RequestHasPlayer`) is a second induction
on top of it.

`StreamSession_proofs`: `SessionInv` is inductive (`Session`): the conversation's place
determines the two threads, the flags and the resources, and a thread of the
receiver that is at work before the stream is started was woken by an `early` packet.
`NoUseAfterFree`,
`NothingLeftOver` and `ReceiverLives` follow.

`RtspReader_proofs`, for every buffer size, number of headers, request, line end,
split into reads and signal.  `Stream` is what is valid in the buffer followed by what
is on the wire: a read moves the border between the two and changes nothing, and
a line that is handled goes from its front.  `ReaderInv` is inductive
(`ReaderFrames`): the buffer's bounds (`InRoom`); `Framing`, by which the stream is what
is left of older requests and then a whole request (`BeforeLine`), the rest of one from
some header on (`InHeaders`), or its body (`InBody`); and which CR was cut off its LF, the
one way to a length below zero (`CutKnown`, `CrashKnown`).  From it:

* `RoomForAll` (`StaysInRoom`), `HeadersBelong` (`HeadersOfOneRequest`) and
  `NothingOutOfStep` (`NothingHandledOutOfStep`), with no further condition.
* `Frames` (`FramedAsSent`), for any requests too: one whose length is lost, missing or
  not the body's is an accident, which the reader has no way to notice; what it makes
  of the rest of the body is in `InLimbo`.

`RtspDialogue_proofs`, for any number of connections and announcements:
`DialogueInv` is inductive (`DialogueInvariant`).  It adds to the properties that a
connection's nonce is the one its client was told (`NonceIsTold`), that only a
SETUP waits for or takes the player (`SetupInHand`), that the owner is where an
owner can be (`OwnerKnown`), and that streams and the player's copies come from
accepted announcements (`StreamsAnnounced`, `PlayingAnnounced`) and, while all
clients are orderly, from exactly one (`OrderlyInHand`).  `StreamsAsAnnounced`,
`HandlersSurviveOrderlyClients` (`HandlersSurvive`), `AuthenticatedRequests` (`AuthBound`) and
`AnsweredChallengeServes` (`ChallengedOnce`) follow.

`MetadataFifo_proofs`: `AloneInv` says that, until two conversations overlap, one at
most is at work, only the field it is setting may be freed, and who is opening the
FIFO found it closed.  `AloneSafe` (`AloneIsSafe`) follows.  `NewsInv` accounts for
every field that the reader was not shown: it is dirty, was lost to a failed print,
or some conversation has still to print it or to mark it; `NothingIsForgotten`
(`NothingForgotten`) follows, for conversations that overlap as well.

`Startup_proofs`: `StartupInv` relates, for each instance, what is in the pipe and
whether it can still be written to the daemon's place (`PipeInv`), and the helper
to `mdns_pid` and `config.mdns` (`HelperInv`).  `ParentsToldTruth` and `HelpersTold`
follow, for any number of instances and commands.  `PidfileInv` says that for every
pid file there is an instance that has opened it and has not come to its end, or one
that was killed or stopped before it knew the descriptor; `NoPidfileLeft` (`PidfileRemoved`) follows.

`Mdnsd_proofs`, for any interfaces and packets:

* `StopInv` ties the responder's place to `stop_flag` and says that nothing is
  registered once that is set; `GoodbyeFirst` (`GoodbyeBeforeFree`) follows, and
  `MdnsdTypeCorrect` says that places and flags are well formed.
* `RepliesWhole` (`ReplyComplete`): records are only added, and a service comes whole
  (`GroupInv`), so that a look-up that comes late finds no less; and what a record that
  has had its turn leads to has been added or is among the look-ups still to be
  made (`Followed`, in `BuildInv`).
* `QueriesAnswered` (`AnsweredExactly`): while questions are looked up, each is still to
  be, or all its records that were there are answers (`AnswerInv`).  The theorem
  assumes `KnownAlike`: known answers of one packet that stand for the same record lie
  on the same side of half the time to live, as RFC 2181 (5.2) has them.  The code
  looks at the first only (510-525), so a packet that contradicts itself is answered by
  that one.

The second part of `Mdnsd_proofs` is about `DnsReply`, for any records and any number of
them: whatever a reply is made of, the parser reads from its bytes what the encoder
was given (`RepliesSurvive`, `MessagesSurvive`).  The state is simple (`MessageInvariant`: a reply
is a list of the given records); what has to be proved is that one function
undoes the other, and both are loops.

* First, each loop is unfolded: the function that counts its turns has the values the
  loop's variables have (`StringsAre`, `WalkIs`, `PacketsAre`, `ParseManyIs`, `PrintedAre`).
* `Spelled` says that a path of labels and pointers leads from a place through a
  name to its root, and `NameRead` that the parser's walk takes that path.  `CompIs` is
  the compression's invariant: every name in the list is spelled, in the finished
  packet, where the list says it begins.
* `NameWritten` is the heart: if the packet holds at a place what
  `mdns_encode_name` writes there, the name is spelled there, `label_len` is the number
  of bytes written, and `CompIs` holds of the list with the new suffixes too.  A name
  that ends in a pointer is spelled because the one pointed to is; pointers lead to
  labels, never to pointers, which is why the parser, that follows one at a
  time (241-244), gets by.
* `DataRead`, `RecordRead` and `RecordsRead` carry this through the data of each type,
  a record and a whole packet: each record is read where it was appended, and the
  next begins where it ends.  `ReplyRead` puts header and records together.
* `NamePrinted`: a name without dots in its labels is the one `create_nlabel` makes
  of what `nlabel_to_str` prints.

It assumes of the constants what `ReplyAssumption` says, and `MessagesSurvive` itself
is stated of packets of at most 16384 bytes (`Reach`), because a pointer has 14 bits
for a place: the encoder keeps the lower ones (820).

The invariants `RingInv`, `ReaderInv`, `ReplyInv` and `AnswerInv` were model-checked on
the instances of section 3 before they were proved.

### What a proof by induction over data takes

The induction theorems of the library take an operator as a parameter, which the
provers cannot instantiate.  What a recursive function computes (`Rest`, `Filter`,
the loops of `DnsMessage`) is proved without them: the set of the arguments at
which the claim fails would have a least element (`Least`, from the well-foundedness
of inclusion among finite sets), and at that one the claim follows from the one
before.  `UpTo` and `Recursion` of `Mdnsd_proofs` say so once and for all for claims
that are sets of arguments, and for functions defined by their value before.
RECURSIVE operators are out of reach of this, too.

### Only model-checked

* `FramesLossless`: `AlacDecoder` is written with RECURSIVE operators, which the SMT
  backend does not take, and its reading of bits with powers of two, about which
  the backends know nothing beyond small literals.
* Liveness, for which the provers have no backend: `Rebuffers`, `TakerServed`, both
  `StopCompletes`, `Answered`, `TeardownStops`, `ParentNeverHangs`, `HelperWatched`, `Announced`
  and `QueriesHeard`.

## 5. What could come next

* `Shutdown`: a signal taken by a conversation, the receiver or the player, and
  the waits among them, composing `RtspOwnership` with `StreamSession`'s places.
* The FIFO output, which reopens its pipe (audio_pipe.c).
* Theorems: every safety property the runs check is proved, but for the decoder's
  `FramesLossless`.  What is left are the safety halves of the liveness properties (what
  the places a waiting thread can be in imply), and a decoder written with recursive
  functions, whose steps could be proved about.

## 6. Not modelled

* Sockets and addresses, name resolution, logging, option parsing, the audio
  libraries and the avahi and dns_sd clients: calls of external code with no
  state of the program's own.
* Cryptography: a digest is an equality of nonce and method; the Apple challenge
  and the AES of a packet do not appear.
* The branches of alac.c for 24-bit samples, which `init_decoder` refuses
  (player.c 134-136), and memory beyond a frame's buffer.
* The playback rate and its estimator, volume, dithering and resampling:
  floating-point control without effect on the ring.
* The text of SDP and DMAP bodies; printing of records and packets
  (tinysvcmdns.c 277-367, 1018-1059).
* getopt_long, vendored, and the packaging scripts.

`PROJECT.json` lists every component with its status.
