---------------------------- MODULE RtspDialogue ----------------------------
(***************************************************************************)
(* What rtsp.c answers, and what a stream is made of: the authentication   *)
(* of requests, the handlers and the conversation around them (rtsp.c      *)
(* 334-833), for several connections over one player.                      *)
(*                                                                         *)
(* Requests come whole (RtspReader cuts them) and the player changes hands *)
(* in one step (RtspOwnership takes that apart).  A digest stands for the  *)
(* nonce and the method it was made from with the right password; nonce 0  *)
(* stands for no digest, a malformed one or one of another password.       *)
(***************************************************************************)
EXTENDS Integers

CONSTANTS Conns, NoOne,
          Sent,        \* the methods that clients send
          Announces    \* bound: no ANNOUNCE is sent after so many are handled

VARIABLES
    config,           \* password: one is set; over: -b above BUFFER_FRAMES
    place,            \* where each conversation is
    request,          \* the request in hand
    nonce, made,      \* auth_nonce of each conversation; nonces made so far
    stream,           \* conn->stream: the ANNOUNCE each part was copied from
    please_shutdown,
    owner,            \* the conversation that holds playing_mutex
    playing,          \* the key and format the player was started with
    ended,            \* a handler has ended the program
    serial,           \* history: ANNOUNCE requests handled
    announced,        \* history: the last of them answered with 200
    done,             \* history: which of SETUP and TEARDOWN was answered so
    told,             \* history: the nonce of the last 401
    spoilt, orderly   \* history: see Announce and Receive

talk == <<place, request>>
auth == <<nonce, made>>
player == <<please_shutdown, owner, playing, ended>>
client == <<serial, announced, done, told, spoilt, orderly>>
vars == <<config, talk, auth, stream, player, client>>

Ignored == {"OPTIONS", "GET_PARAMETER", "SET_PARAMETER", "RECORD"}
Methods == Ignored \cup {"ANNOUNCE", "SETUP", "FLUSH", "TEARDOWN", "PAUSE"}

ASSUME DialogueAssumption ==
    NoOne \notin Conns /\ Sent \subseteq Methods /\ Announces \in Nat

\* How a body or a Transport header may turn out; a wide ANNOUNCE is a good one
\* of another sample size than 16, badiv also stands for one with a line missing.
Forms(m) ==
    CASE m = "ANNOUNCE" -> {"good", "wide", "badiv", "badkey", "short"}
      [] m = "SETUP"    -> {"good", "missing"}
      [] OTHER          -> {"good"}

NoRequest == [method |-> "none", form |-> "good", nonce |-> 0, of |-> "none"]
NoStream == [iv |-> 0, key |-> 0, fmtp |-> 0, bits |-> 0]
Idle == [key |-> 0, fmtp |-> 0]

Init ==
    /\ config \in [password : BOOLEAN, over : BOOLEAN]
    /\ place = [c \in Conns |-> "test"]
    /\ request = [c \in Conns |-> NoRequest]
    /\ nonce = [c \in Conns |-> 0] /\ made = 0
    /\ stream = [c \in Conns |-> NoStream]
    /\ please_shutdown = FALSE /\ owner = NoOne
    /\ playing = Idle /\ ended = FALSE
    /\ serial = 0 /\ announced = [c \in Conns |-> 0]
    /\ done = [c \in Conns |-> {}] /\ told = [c \in Conns |-> 0]
    /\ spoilt = [c \in Conns |-> FALSE] /\ orderly = TRUE

-----------------------------------------------------------------------------
\* Mutant: only the others close for a taker.
TestBeforeWait(c) ==
    /\ place[c] = "test"
    /\ place' = [place EXCEPT ![c] = IF please_shutdown /\ owner # c
                                       THEN "close" ELSE "read"]
    /\ UNCHANGED <<config, request, auth, stream, player, client>>

\* A conversation reads unless somebody asked for the player.
Test(c) ==
    /\ place[c] = "test"
    /\ place' = [place EXCEPT ![c] = IF please_shutdown THEN "close" ELSE "read"]
    /\ UNCHANGED <<config, request, auth, stream, player, client>>

\* Clients may send any request with a digest of any nonce known by then,
\* for this or an earlier method.  An orderly client sets up once, after an
\* accepted ANNOUNCE, and announces all twelve numbers of a 16-bit format.
Receive(c, m, f, n, of) ==
    /\ place[c] = "read"
    /\ m = "ANNOUNCE" => serial < Announces
    /\ request' = [request EXCEPT ![c] =
                     [method |-> m, form |-> f, nonce |-> n, of |-> of]]
    /\ place' = [place EXCEPT ![c] = "handle"]
    /\ orderly' = /\ orderly /\ f \notin {"short", "wide"}
                  /\ m = "SETUP" => announced[c] # 0 /\ "SETUP" \notin done[c]
    /\ UNCHANGED <<config, auth, stream, player, serial, announced, done,
                   told, spoilt>>

\* The client closes, or a taker's signal interrupts the player's read.
Interrupt(c) ==
    /\ place[c] = "read"
    /\ \/ place' = [place EXCEPT ![c] = "close"]
       \/ /\ owner = c /\ please_shutdown
          /\ place' = [place EXCEPT ![c] = "test"]
    /\ UNCHANGED <<config, request, auth, stream, player, client>>

-----------------------------------------------------------------------------
\* msg_write_response, after which the next request is awaited.  Of the status
\* the client learns, what matters later is a 200 and (in told) a 401.
Respond(c, status) ==
    /\ place' = [place EXCEPT ![c] = "test"]
    /\ request' = [request EXCEPT ![c] = NoRequest]
    /\ done' = IF status = 200 /\ request[c].method \in {"SETUP", "TEARDOWN"}
                 THEN [done EXCEPT ![c] = @ \cup {request[c].method}] ELSE done

\* Mutant: the digest is compared without its method.
AuthenticAnyMethod(c) == nonce[c] # 0 /\ request[c].nonce = nonce[c]

\* rtsp_auth: the digest is the one of this connection's nonce and this method.
Authentic(c) ==
    /\ nonce[c] # 0 /\ request[c].nonce = nonce[c]
    /\ request[c].of = request[c].method

\* Mutant: the conversations keep their nonces in one place.
MakeNonceShared(c) ==
    IF told[c] = 0 THEN [d \in Conns |-> made + 1] ELSE nonce

\* The nonce is made for the first request of a connection and kept.
MakeNonce(c) ==
    IF nonce[c] = 0 THEN [nonce EXCEPT ![c] = made + 1] ELSE nonce

Challenge(c) ==
    /\ place[c] = "handle" /\ config.password /\ ~Authentic(c)
    /\ made' = IF nonce[c] = 0 THEN made + 1 ELSE made
    /\ nonce' = MakeNonce(c)
    /\ told' = [told EXCEPT ![c] = nonce'[c]]
    /\ Respond(c, 401)
    /\ UNCHANGED <<config, stream, player, serial, announced, spoilt,
                   orderly>>

\* Past rtsp_auth, a request goes to its method's handler.
Handling(c, methods) ==
    /\ place[c] = "handle" /\ (~config.password \/ Authentic(c))
    /\ request[c].method \in methods

\* OPTIONS, GET_PARAMETER, SET_PARAMETER and RECORD always succeed; a method
\* without a handler keeps the initial 400.
Ignore(c) ==
    /\ Handling(c, Ignored \cup {"PAUSE"})
    /\ Respond(c, IF request[c].method \in Ignored THEN 200 ELSE 400)
    /\ UNCHANGED <<config, auth, stream, player, serial, announced, told,
                   spoilt, orderly>>

\* Only the conversation that plays may flush or tear down.
Flush(c) ==
    /\ Handling(c, {"FLUSH"})
    /\ Respond(c, IF owner = c THEN 200 ELSE 400)
    /\ UNCHANGED <<config, auth, stream, player, serial, announced, told,
                   spoilt, orderly>>

Teardown(c) ==
    /\ Handling(c, {"TEARDOWN"})
    /\ please_shutdown' = (please_shutdown \/ owner = c)
    /\ Respond(c, IF owner = c THEN 200 ELSE 400)
    /\ UNCHANGED <<config, auth, stream, owner, playing, ended, serial,
                   announced, told, spoilt, orderly>>

\* An accepted ANNOUNCE, the n-th of all.
Accepted(form) == form \in {"good", "wide"}
Whole(form, n) ==
    [iv |-> n, key |-> n, fmtp |-> n, bits |-> IF form = "wide" THEN 24 ELSE 16]

\* Mutant: the iv is copied before its length is checked.
CopiedIvFirst(s, form, n) ==
    CASE Accepted(form) -> Whole(form, n)
      [] form \in {"badkey", "badiv"} -> [s EXCEPT !.iv = n]
      [] OTHER -> s

\* What an ANNOUNCE leaves in conn->stream: the iv is copied before the key
\* is deciphered and checked.
Copied(s, form, n) ==
    CASE Accepted(form)  -> Whole(form, n)
      [] form = "badkey" -> [s EXCEPT !.iv = n]
      [] OTHER           -> s

\* The stream is no longer that of one ANNOUNCE: one came while it played, or
\* one was refused for its key and none accepted since.
Spoils(c) ==
    \/ "SETUP" \in done[c] \/ request[c].form = "badkey"
    \/ spoilt[c] /\ ~Accepted(request[c].form)

\* Fewer than twelve numbers end in atoi(NULL).
Announce(c) ==
    /\ Handling(c, {"ANNOUNCE"}) /\ request[c].form # "short"
    /\ serial' = serial + 1
    /\ stream' = [stream EXCEPT ![c] = Copied(@, request[c].form, serial + 1)]
    /\ Respond(c, IF Accepted(request[c].form) THEN 200 ELSE 400)
    /\ announced' = IF Accepted(request[c].form)
                      THEN [announced EXCEPT ![c] = serial + 1] ELSE announced
    /\ spoilt' = [spoilt EXCEPT ![c] = Spoils(c)]
    /\ UNCHANGED <<config, auth, player, told, orderly>>

\* A Transport without both ports is refused; otherwise the player is taken,
\* by asking its owner to leave if there is one.
RefuseSetup(c) ==
    /\ Handling(c, {"SETUP"}) /\ request[c].form = "missing"
    /\ Respond(c, 400)
    /\ UNCHANGED <<config, auth, stream, player, serial, announced, told,
                   spoilt, orderly>>

TakePlayer(c) ==
    /\ Handling(c, {"SETUP"}) /\ request[c].form = "good"
    /\ please_shutdown' = (please_shutdown \/ owner \notin {c, NoOne})
    /\ owner' = IF owner = NoOne THEN c ELSE owner
    /\ place' = [place EXCEPT ![c] =
                   IF owner \in {c, NoOne} THEN "play" ELSE "wait"]
    /\ UNCHANGED <<config, request, auth, stream, playing, ended,
                   client>>

Lock(c) ==
    /\ place[c] = "wait" /\ owner = NoOne
    /\ owner' = c /\ place' = [place EXCEPT ![c] = "play"]
    /\ UNCHANGED <<config, request, auth, stream, please_shutdown,
                   playing, ended, client>>

\* rtp_setup and player_play: the key and the format are copied, the iv stays
\* in conn->stream.  rtp_setup dies with a stream running, player_play when
\* told to start above the buffer, init_decoder without 16-bit samples, also
\* where nothing was announced.
Startable(c) == playing = Idle /\ ~config.over /\ stream[c].bits = 16

Play(c) ==
    /\ place[c] = "play" /\ Startable(c)
    /\ playing' = [key |-> stream[c].key, fmtp |-> stream[c].fmtp]
    /\ Respond(c, 200)
    /\ UNCHANGED <<config, auth, stream, please_shutdown, owner, ended,
                   serial, announced, told, spoilt, orderly>>

Die(c) ==
    /\ \/ place[c] = "play" /\ ~Startable(c)
       \/ Handling(c, {"ANNOUNCE"}) /\ request[c].form = "short"
    /\ ended' = TRUE
    /\ UNCHANGED <<config, talk, auth, stream, please_shutdown, owner,
                   playing, client>>

\* Mutant: the stream is left running.
PlayerStoppedNot == playing

\* The end of the conversation, which stops the stream it owns; with it go the
\* nonce and, when the thread is joined, conn->stream.
PlayerStopped == Idle

Close(c) ==
    /\ place[c] = "close"
    /\ place' = [place EXCEPT ![c] = "closed"]
    /\ IF owner = c
         THEN /\ owner' = NoOne /\ playing' = PlayerStopped /\ please_shutdown' = FALSE
         ELSE UNCHANGED <<owner, playing, please_shutdown>>
    /\ nonce' = [nonce EXCEPT ![c] = 0] /\ told' = [told EXCEPT ![c] = 0]
    /\ stream' = [stream EXCEPT ![c] = NoStream]
    /\ announced' = [announced EXCEPT ![c] = 0]
    /\ done' = [done EXCEPT ![c] = {}] /\ spoilt' = [spoilt EXCEPT ![c] = FALSE]
    /\ UNCHANGED <<config, request, made, ended, serial, orderly>>

-----------------------------------------------------------------------------
Handle(c) ==
    \/ Challenge(c)
    \/ Ignore(c) \/ Flush(c) \/ Teardown(c) \/ Announce(c)
    \/ RefuseSetup(c) \/ TakePlayer(c) \/ Lock(c) \/ Play(c) \/ Die(c)

Own(c) == ~ended /\ (Test(c) \/ Handle(c) \/ Close(c))

\* A request that rtsp_auth refuses is never looked into: one form will do.
Refused(c, m, n, of) ==
    config.password /\ (n = 0 \/ n # nonce[c] \/ of # m)

Client(c) ==
    /\ ~ended
    /\ \/ Interrupt(c)
       \/ \E m \in Sent, n \in 0..made :
             \E of \in IF n = 0 THEN {m} ELSE {m, "OPTIONS"} :
                \E f \in IF Refused(c, m, n, of) THEN {"good"} ELSE Forms(m) :
                   Receive(c, m, f, n, of)

Next == \E c \in Conns : Own(c) \/ Client(c)

\* The conversations are threads that run when they can.
Spec == Init /\ [][Next]_vars /\ \A c \in Conns : WF_vars(Own(c))

-----------------------------------------------------------------------------
TypeOK ==
    /\ config \in [password : BOOLEAN, over : BOOLEAN]
    /\ place \in [Conns -> {"test", "read", "handle", "wait", "play",
                            "close", "closed"}]
    /\ request \in [Conns -> [method : Methods \cup {"none"}, nonce : Nat,
          form : {"good", "wide", "missing", "badiv", "badkey", "short"},
          of : Methods \cup {"none"}]]
    /\ nonce \in [Conns -> Nat] /\ made \in Nat
    /\ stream \in [Conns -> [iv : Nat, key : Nat, fmtp : Nat, bits : {0, 16, 24}]]
    /\ please_shutdown \in BOOLEAN /\ owner \in Conns \cup {NoOne}
    /\ playing \in [key : Nat, fmtp : Nat] /\ ended \in BOOLEAN
    /\ serial \in Nat /\ announced \in [Conns -> Nat]
    /\ done \in [Conns -> SUBSET {"SETUP", "TEARDOWN"}] /\ told \in [Conns -> Nat]
    /\ spoilt \in [Conns -> BOOLEAN] /\ orderly \in BOOLEAN

\* The request in hand answers the challenge its client was last given.
AnswersChallenge(c) ==
    /\ told[c] # 0 /\ request[c].nonce = told[c]
    /\ request[c].of = request[c].method

\* With a password set, a connection announces a stream, gets or tears down
\* the player only by requests that answer its own challenge for that very
\* method, also when the player comes long after the request: an answer to
\* another connection's challenge or to one for another method never serves
\* (rtsp_auth).
AuthBound ==
    [][\A c \in Conns :
          (/\ config.password /\ place[c] # "close"
           /\ \/ stream'[c] # stream[c] \/ done'[c] # done[c]
              \/ owner' = c /\ owner # c)
          => AnswersChallenge(c)]_vars

\* A client that answers the challenge it was last given is not challenged
\* again, however many requests, of however many connections, lie between
\* (make_nonce runs once for a connection).
ChallengedOnce == [][\A c \in Conns : AnswersChallenge(c) => ~Challenge(c)]_vars

\* Key, iv and format of the stream that plays come from one ANNOUNCE, the
\* last that its own connection had accepted, over refused ones and other
\* connections' announcements.  The exceptions are what the code does not
\* keep apart: an ANNOUNCE refused for its key has replaced the iv, and one
\* that comes during the stream replaces the iv under the player (aesiv
\* points into conn->stream).
StreamAsAnnounced ==
    (playing # Idle /\ owner # NoOne /\ ~spoilt[owner])
    => /\ playing = [key |-> announced[owner], fmtp |-> announced[owner]]
       /\ stream[owner].iv = announced[owner]

\* No handler ends the program, whoever takes the player from whom, as long as
\* clients are orderly and -b is within the buffer: no SETUP finds the receiver
\* of an earlier stream running or a stream that player_play cannot start.
\* (What the take-over does to the player's thread is StreamSession's.)
HandlersSurvive == ended => ~orderly \/ config.over

\* Once a TEARDOWN was answered with 200, its conversation lets go of the
\* player, even if its client says nothing more and never closes.
TeardownStops ==
    \A c \in Conns : "TEARDOWN" \in done[c] ~> (owner # c \/ ended)

=============================================================================
