------------------------- MODULE RtspDialogue_proofs -------------------------
(***************************************************************************)
(* What RtspDialogue promises, for any number of connections and any       *)
(* number of ANNOUNCE requests.  The invariant adds to the properties what *)
(* makes them inductive: who can be about to play, and that the three      *)
(* parts of a stream are told apart from what its client was promised only *)
(* where spoilt says so.                                                   *)
(***************************************************************************)
EXTENDS RtspDialogue, TLAPS

\* A 401 tells the client the nonce that rtsp_auth compares with.
NonceIsTold == told = nonce

\* A conversation on its way to the player has an authentic SETUP in hand.
SetupInHand ==
    \A c \in Conns : place[c] \in {"wait", "play"}
        => request[c].method = "SETUP" /\ (config.password => Authentic(c))

\* The player belongs to who is about to start or has started a stream.
OwnerKnown ==
    /\ \A c \in Conns : place[c] = "play" => owner = c
    /\ \A c \in Conns : "SETUP" \in done[c] => owner = c /\ playing # Idle
    /\ playing # Idle => owner \in Conns /\ "SETUP" \in done[owner]

\* Key and format change with an accepted ANNOUNCE only, the iv with others.
StreamsAnnounced ==
    \A c \in Conns :
        /\ stream[c].key = announced[c] /\ stream[c].fmtp = announced[c]
        /\ ~spoilt[c] => stream[c].iv = announced[c]
        /\ stream[c].bits = 0 <=> announced[c] = 0
        /\ (orderly /\ announced[c] # 0) => stream[c].bits = 16

\* The player keeps what it was started with.
PlayingAnnounced ==
    (playing # Idle /\ ~spoilt[owner])
    => playing = [key |-> announced[owner], fmtp |-> announced[owner]]

\* What orderly clients have in hand can be served.
OrderlyInHand ==
    orderly => \A c \in Conns :
        /\ place[c] = "handle" => request[c].form \notin {"short", "wide"}
        /\ (place[c] \in {"handle", "wait", "play"} /\ request[c].method = "SETUP")
             => announced[c] # 0 /\ "SETUP" \notin done[c]

DialogueInv ==
    /\ TypeOK /\ NonceIsTold /\ SetupInHand /\ OwnerKnown
    /\ StreamsAnnounced /\ PlayingAnnounced /\ OrderlyInHand /\ HandlersSurvive

-----------------------------------------------------------------------------
\* Nobody has been told anything at the start.
LEMMA DialogueInit == Init => DialogueInv
<1>1. SUFFICES ASSUME Init PROVE DialogueInv
  OBVIOUS
<1>2. TypeOK
  BY <1>1 DEF Init, TypeOK, NoRequest, NoStream, Idle, Methods, Ignored
<1>3. NonceIsTold /\ OwnerKnown /\ StreamsAnnounced /\ PlayingAnnounced
  BY <1>1 DEF Init, NonceIsTold, OwnerKnown, StreamsAnnounced,
              PlayingAnnounced, NoStream, Idle
<1>4. SetupInHand /\ OrderlyInHand /\ HandlersSurvive
  BY <1>1 DEF Init, SetupInHand, OrderlyInHand, HandlersSurvive, NoRequest
<1> QED
  BY <1>2, <1>3, <1>4 DEF DialogueInv

\* The steps that leave the player and the streams alone.
LEMMA TestKeeps ==
    ASSUME DialogueInv, NEW c \in Conns, ~ended, Test(c) \/ Interrupt(c)
    PROVE  DialogueInv'
<1> USE DEF DialogueInv
<1>1. PICK p \in {"read", "test", "close"} :
        /\ place' = [place EXCEPT ![c] = p]
        /\ UNCHANGED <<config, request, auth, stream, player, client>>
  <2>1. CASE Test(c)
    BY <2>1 DEF Test
  <2>2. CASE Interrupt(c)
    BY <2>2 DEF Interrupt
  <2> QED
    BY <2>1, <2>2
<1>2. TypeOK'
  BY <1>1 DEF TypeOK, auth, player, client
<1>3. NonceIsTold' /\ OwnerKnown' /\ StreamsAnnounced' /\ PlayingAnnounced'
  BY <1>1 DEF NonceIsTold, OwnerKnown, StreamsAnnounced, PlayingAnnounced,
              auth, player, client, TypeOK
<1>4. SetupInHand' /\ OrderlyInHand' /\ HandlersSurvive'
  BY <1>1 DEF SetupInHand, OrderlyInHand, HandlersSurvive, Authentic, auth,
              player, client, TypeOK
<1> QED
  BY <1>2, <1>3, <1>4

\* A request is received.
LEMMA ReceiveKeeps ==
    ASSUME DialogueInv, DialogueAssumption, NEW c \in Conns, ~ended,
           NEW m \in Sent, NEW f \in Forms(m), NEW n \in 0..made,
           NEW of \in {m, "OPTIONS"}, Receive(c, m, f, n, of)
    PROVE  DialogueInv'
<1> USE DEF DialogueInv
<1>1. /\ m \in Methods /\ of \in Methods /\ n \in Nat
      /\ f \in {"good", "wide", "missing", "badiv", "badkey", "short"}
  BY DEF DialogueAssumption, Forms, Methods, Ignored, TypeOK
<1>2. TypeOK'
  BY <1>1 DEF Receive, TypeOK, auth, player
<1>3. NonceIsTold' /\ OwnerKnown' /\ StreamsAnnounced' /\ PlayingAnnounced'
  BY DEF Receive, NonceIsTold, OwnerKnown, StreamsAnnounced, PlayingAnnounced,
         auth, player, TypeOK
<1>4. SetupInHand' /\ HandlersSurvive'
  BY DEF Receive, SetupInHand, HandlersSurvive, Authentic, auth, player, TypeOK
<1>5. OrderlyInHand'
  BY DEF Receive, OrderlyInHand, TypeOK
<1> QED
  BY <1>2, <1>3, <1>4, <1>5

\* A client is told a new nonce.
LEMMA ChallengeKeeps ==
    ASSUME DialogueInv, NEW c \in Conns, ~ended, Challenge(c)
    PROVE  DialogueInv'
<1> USE DEF DialogueInv
<1>1. nonce' = [nonce EXCEPT ![c] = nonce'[c]] /\ nonce'[c] \in Nat /\ made' \in Nat
  <2>1. CASE nonce[c] = 0
    BY <2>1 DEF Challenge, MakeNonce, TypeOK
  <2>2. CASE nonce[c] # 0
    <3>1. nonce' = nonce /\ made' = made
      BY <2>2 DEF Challenge, MakeNonce
    <3> QED
      BY <3>1 DEF TypeOK
  <2> QED
    BY <2>1, <2>2
<1>2. done' = done
  BY DEF Challenge, Respond
<1>3. TypeOK'
  BY <1>1, <1>2 DEF Challenge, Respond, TypeOK, NoRequest, player
<1>4. NonceIsTold' /\ OwnerKnown' /\ StreamsAnnounced' /\ PlayingAnnounced'
  BY <1>1, <1>2 DEF Challenge, Respond, NonceIsTold, OwnerKnown,
         StreamsAnnounced, PlayingAnnounced, player, TypeOK
<1>5. SetupInHand' /\ HandlersSurvive'
  BY <1>1 DEF Challenge, Respond, SetupInHand, HandlersSurvive, Authentic,
              player, TypeOK
<1>6. OrderlyInHand'
  BY <1>2 DEF Challenge, Respond, OrderlyInHand, TypeOK, NoRequest
<1> QED
  BY <1>3, <1>4, <1>5, <1>6

\* The handlers that answer without touching player or streams.
LEMMA AnswerKeeps ==
    ASSUME DialogueInv, NEW c \in Conns, ~ended,
           Ignore(c) \/ Flush(c) \/ Teardown(c) \/ RefuseSetup(c)
    PROVE  DialogueInv'
<1> USE DEF DialogueInv
<1>1. /\ place' = [place EXCEPT ![c] = "test"]
      /\ request' = [request EXCEPT ![c] = NoRequest]
      /\ done' \in [Conns -> SUBSET {"SETUP", "TEARDOWN"}]
      /\ \A d \in Conns : "SETUP" \in done'[d] <=> "SETUP" \in done[d]
      /\ please_shutdown' \in BOOLEAN
      /\ UNCHANGED <<config, auth, stream, owner, playing, ended, serial,
                     announced, told, spoilt, orderly>>
  <2>1. CASE Ignore(c) \/ Flush(c) \/ RefuseSetup(c)
    <3>1. done' = done
      BY <2>1 DEF Ignore, Flush, RefuseSetup, Respond, Handling, Ignored
    <3> QED
      BY <2>1, <3>1 DEF Ignore, Flush, RefuseSetup, Respond, player, TypeOK
  <2>2. CASE Teardown(c)
    <3>1. \/ done' = [done EXCEPT ![c] = @ \cup {"TEARDOWN"}]
          \/ done' = done
      <4>1. CASE owner = c
        BY <2>2, <4>1 DEF Teardown, Respond, Handling
      <4>2. CASE owner # c
        BY <2>2, <4>2 DEF Teardown, Respond, Handling
      <4> QED
        BY <4>1, <4>2
    <3>2. /\ done' \in [Conns -> SUBSET {"SETUP", "TEARDOWN"}]
          /\ \A d \in Conns : "SETUP" \in done'[d] <=> "SETUP" \in done[d]
      <4>1. CASE done' = done
        BY <4>1 DEF TypeOK
      <4>2. CASE done' = [done EXCEPT ![c] = @ \cup {"TEARDOWN"}]
        BY <4>2 DEF TypeOK
      <4> QED
        BY <3>1, <4>1, <4>2
    <3> QED
      BY <2>2, <3>2 DEF Teardown, Respond, TypeOK
  <2> QED
    BY <2>1, <2>2
<1>2. TypeOK'
  BY <1>1 DEF TypeOK, NoRequest, auth
<1>3. NonceIsTold' /\ OwnerKnown' /\ StreamsAnnounced' /\ PlayingAnnounced'
  BY <1>1 DEF NonceIsTold, OwnerKnown, StreamsAnnounced, PlayingAnnounced,
              auth, TypeOK
<1>4. SetupInHand' /\ OrderlyInHand' /\ HandlersSurvive'
  BY <1>1 DEF SetupInHand, OrderlyInHand, HandlersSurvive, Authentic, auth,
              TypeOK, NoRequest
<1> QED
  BY <1>2, <1>3, <1>4

\* An ANNOUNCE is copied, as far as it goes.
LEMMA AnnounceKeeps ==
    ASSUME DialogueInv, NEW c \in Conns, ~ended, Announce(c)
    PROVE  DialogueInv'
<1> USE DEF DialogueInv
<1>1. /\ place' = [place EXCEPT ![c] = "test"]
      /\ request' = [request EXCEPT ![c] = NoRequest]
      /\ done' = done /\ serial' = serial + 1
      /\ UNCHANGED <<config, auth, player, told, orderly>>
  BY DEF Announce, Respond, Handling
<1>2. /\ stream' \in [Conns -> [iv : Nat, key : Nat, fmtp : Nat, bits : {0, 16, 24}]]
      /\ announced' \in [Conns -> Nat] /\ spoilt' \in [Conns -> BOOLEAN]
      /\ \A d \in Conns \ {c} : /\ stream'[d] = stream[d]
                               /\ announced'[d] = announced[d]
                               /\ spoilt'[d] = spoilt[d]
      /\ stream'[c].key = announced'[c] /\ stream'[c].fmtp = announced'[c]
      /\ ~spoilt'[c] => stream'[c].iv = announced'[c]
      /\ stream'[c].bits = 0 <=> announced'[c] = 0
      /\ (orderly /\ announced'[c] # 0) => stream'[c].bits = 16
      /\ announced[c] # 0 => announced'[c] # 0
      /\ "SETUP" \in done[c] => spoilt'[c]
  <2>4. spoilt' = [spoilt EXCEPT ![c] = Spoils(c)] /\ Spoils(c) \in BOOLEAN
    BY DEF Announce, Spoils, TypeOK
  <2>0. stream' = [stream EXCEPT ![c] = Copied(stream[c], request[c].form, serial + 1)]
    BY DEF Announce
  <2>1. CASE Accepted(request[c].form)
    <3>1. PICK b \in {16, 24} :
            /\ stream' = [stream EXCEPT ![c] = [iv |-> serial + 1,
                             key |-> serial + 1, fmtp |-> serial + 1, bits |-> b]]
            /\ request[c].form # "wide" => b = 16
      <4>1. Copied(stream[c], request[c].form, serial + 1)
              = Whole(request[c].form, serial + 1)
        BY <2>1 DEF Copied, Accepted
      <4> QED
        BY <2>0, <4>1 DEF Whole
    <3>2. announced' = [announced EXCEPT ![c] = serial + 1]
      BY <2>1 DEF Announce
    <3>3. Spoils(c) <=> ("SETUP" \in done[c] \/ request[c].form = "badkey")
      BY <2>1 DEF Spoils
    <3>4. request[c].form # "badkey"
      BY <2>1 DEF Accepted
    <3>5. orderly => b = 16
      BY <3>1 DEF Announce, Handling, OrderlyInHand
    <3> QED
      BY <2>4, <3>1, <3>2, <3>3, <3>4, <3>5 DEF TypeOK
  <2>2. CASE request[c].form = "badkey"
    <3>1. /\ stream' = [stream EXCEPT ![c] = [stream[c] EXCEPT !.iv = serial + 1]]
          /\ announced' = announced
      BY <2>0, <2>2 DEF Announce, Copied, Accepted
    <3>2. Spoils(c)
      BY <2>2 DEF Spoils
    <3>3. stream[c] \in [iv : Nat, key : Nat, fmtp : Nat, bits : {0, 16, 24}]
      BY DEF TypeOK
    <3>4. /\ stream'[c].bits = stream[c].bits /\ stream'[c].key = stream[c].key
          /\ stream'[c].fmtp = stream[c].fmtp /\ serial + 1 \in Nat
      BY <3>1, <3>3 DEF TypeOK
    <3>5. stream' \in [Conns -> [iv : Nat, key : Nat, fmtp : Nat, bits : {0, 16, 24}]]
      BY <3>1, <3>3, <3>4 DEF TypeOK
    <3> QED
      BY <2>4, <3>1, <3>2, <3>4, <3>5 DEF TypeOK, StreamsAnnounced
  <2>3. CASE request[c].form \notin {"good", "wide", "badkey"}
    <3>1. stream' = stream /\ announced' = announced
      <4>1. Copied(stream[c], request[c].form, serial + 1) = stream[c]
        BY <2>3 DEF Copied, Accepted
      <4> QED
        BY <2>0, <2>3, <4>1 DEF Announce, TypeOK, Accepted
    <3>2. Spoils(c) <=> ("SETUP" \in done[c] \/ spoilt[c])
      BY <2>3 DEF Spoils, Accepted
    <3>3. spoilt' \in [Conns -> BOOLEAN] /\ (spoilt'[c] <=> Spoils(c))
      BY <2>4 DEF TypeOK
    <3>4. \A d \in Conns \ {c} : spoilt'[d] = spoilt[d]
      BY <2>4 DEF TypeOK
    <3> QED
      BY <3>1, <3>2, <3>3, <3>4 DEF TypeOK, StreamsAnnounced
  <2>5. \/ Accepted(request[c].form) \/ request[c].form = "badkey"
        \/ request[c].form \notin {"good", "wide", "badkey"}
    BY DEF Accepted
  <2> QED
    BY <2>1, <2>2, <2>3, <2>5
<1>3. TypeOK'
  <2>1. serial' \in Nat
    BY <1>1 DEF TypeOK
  <2> QED
    BY <1>1, <1>2, <2>1 DEF TypeOK, NoRequest, auth, player
<1>4. NonceIsTold' /\ OwnerKnown' /\ StreamsAnnounced'
  BY <1>1, <1>2 DEF NonceIsTold, OwnerKnown, StreamsAnnounced, auth, player, TypeOK
<1>5. PlayingAnnounced'
  <2>1. CASE playing = Idle
    BY <1>1, <2>1 DEF PlayingAnnounced, player
  <2>2. CASE playing # Idle /\ owner = c
    BY <1>1, <1>2, <2>2 DEF PlayingAnnounced, OwnerKnown, player, TypeOK
  <2>3. CASE playing # Idle /\ owner # c
    BY <1>1, <1>2, <2>3 DEF PlayingAnnounced, OwnerKnown, player, TypeOK
  <2> QED
    BY <2>1, <2>2, <2>3
<1>6. SetupInHand' /\ OrderlyInHand' /\ HandlersSurvive'
  BY <1>1, <1>2 DEF SetupInHand, OrderlyInHand, HandlersSurvive, Authentic,
                    auth, player, TypeOK, NoRequest
<1> QED
  BY <1>3, <1>4, <1>5, <1>6

\* A SETUP takes the player, or waits for it.
LEMMA TakeKeeps ==
    ASSUME DialogueInv, DialogueAssumption, NEW c \in Conns, ~ended,
           TakePlayer(c) \/ Lock(c)
    PROVE  DialogueInv'
<1> USE DEF DialogueInv
<1>1. PICK p \in {"wait", "play"} :
        /\ place' = [place EXCEPT ![c] = p]
        /\ p = "play" => owner' = c
        /\ place[c] \in {"handle", "wait"} /\ request[c].method = "SETUP"
        /\ config.password => Authentic(c)
        /\ owner' = owner \/ (owner = NoOne /\ owner' = c)
        /\ please_shutdown' \in BOOLEAN
        /\ UNCHANGED <<config, request, auth, stream, playing, ended, client>>
  <2>1. CASE TakePlayer(c) /\ owner \in {c, NoOne}
    BY <2>1 DEF TakePlayer, Handling, TypeOK
  <2>2. CASE TakePlayer(c) /\ owner \notin {c, NoOne}
    BY <2>2 DEF TakePlayer, Handling, TypeOK
  <2>3. CASE Lock(c)
    BY <2>3 DEF Lock, SetupInHand, TypeOK
  <2> QED
    BY <2>1, <2>2, <2>3
<1>2. TypeOK'
  BY <1>1 DEF TypeOK, auth, client
<1>3. NonceIsTold' /\ StreamsAnnounced' /\ HandlersSurvive' /\ SetupInHand'
  BY <1>1 DEF NonceIsTold, StreamsAnnounced, HandlersSurvive, SetupInHand,
              Authentic, auth, client, TypeOK
<1>4. OwnerKnown' /\ PlayingAnnounced'
  BY <1>1 DEF OwnerKnown, PlayingAnnounced, DialogueAssumption, client, TypeOK
<1>5. OrderlyInHand'
  BY <1>1 DEF OrderlyInHand, client, TypeOK
<1> QED
  BY <1>2, <1>3, <1>4, <1>5

\* The owner starts the stream with what its connection holds.
LEMMA PlayKeeps ==
    ASSUME DialogueInv, NEW c \in Conns, ~ended, Play(c)
    PROVE  DialogueInv'
<1> USE DEF DialogueInv
<1>1. owner = c /\ request[c].method = "SETUP" /\ stream[c].fmtp # 0
  BY DEF Play, Startable, OwnerKnown, SetupInHand, StreamsAnnounced
<1>2. done' = [done EXCEPT ![c] = @ \cup {"SETUP"}]
  BY <1>1 DEF Play, Respond
<1>3. TypeOK'
  BY <1>2 DEF Play, Respond, TypeOK, NoRequest, auth
<1>4. playing' # Idle
      /\ playing' = [key |-> announced[c], fmtp |-> announced[c]]
  BY <1>1 DEF Play, Idle, StreamsAnnounced
<1>5. NonceIsTold' /\ StreamsAnnounced' /\ SetupInHand' /\ HandlersSurvive'
  BY DEF Play, Respond, NonceIsTold, StreamsAnnounced, SetupInHand,
         HandlersSurvive, Authentic, auth, TypeOK
<1>6. OwnerKnown' /\ PlayingAnnounced'
  BY <1>1, <1>2, <1>4 DEF Play, Respond, OwnerKnown, PlayingAnnounced, TypeOK
<1>7. OrderlyInHand'
  BY <1>2 DEF Play, Respond, OrderlyInHand, TypeOK, NoRequest
<1> QED
  BY <1>3, <1>5, <1>6, <1>7

\* The program ends only when a client was not orderly or -b too large.
LEMMA DieKeeps ==
    ASSUME DialogueInv, NEW c \in Conns, ~ended, Die(c)
    PROVE  DialogueInv'
<1> USE DEF DialogueInv
<1>1. ~orderly \/ config.over
  <2>1. CASE place[c] = "play" /\ ~Startable(c)
    BY <2>1 DEF Startable, OwnerKnown, OrderlyInHand, SetupInHand,
                StreamsAnnounced
  <2>2. CASE Handling(c, {"ANNOUNCE"}) /\ request[c].form = "short"
    BY <2>2 DEF Handling, OrderlyInHand
  <2> QED
    BY <2>1, <2>2 DEF Die
<1> QED
  BY <1>1 DEF Die, TypeOK, NonceIsTold, SetupInHand, OwnerKnown,
              StreamsAnnounced, PlayingAnnounced, OrderlyInHand,
              HandlersSurvive, Authentic, talk, auth, client

\* A conversation ends, and its stream with it.
LEMMA CloseKeeps ==
    ASSUME DialogueInv, DialogueAssumption, NEW c \in Conns, ~ended, Close(c)
    PROVE  DialogueInv'
<1> USE DEF DialogueInv
<1>1. TypeOK'
  <2>1. CASE owner = c
    <3>1. owner' = NoOne /\ playing' = Idle /\ please_shutdown' = FALSE
      BY <2>1 DEF Close, PlayerStopped
    <3> QED
      BY <3>1 DEF Close, TypeOK, Idle, NoStream
  <2>2. CASE owner # c
    BY <2>2 DEF Close, TypeOK, NoStream
  <2> QED
    BY <2>1, <2>2
<1>2. NonceIsTold' /\ SetupInHand' /\ OrderlyInHand' /\ HandlersSurvive'
  BY DEF Close, NonceIsTold, SetupInHand, OrderlyInHand, HandlersSurvive,
         Authentic, TypeOK
<1>3. StreamsAnnounced'
  BY DEF Close, StreamsAnnounced, NoStream, TypeOK
<1>4. OwnerKnown' /\ PlayingAnnounced'
  <2>1. CASE owner = c
    BY <2>1 DEF Close, OwnerKnown, PlayingAnnounced, PlayerStopped, TypeOK
  <2>2. CASE owner # c
    BY <2>2 DEF Close, OwnerKnown, PlayingAnnounced, TypeOK
  <2> QED
    BY <2>1, <2>2
<1> QED
  BY <1>1, <1>2, <1>3, <1>4

-----------------------------------------------------------------------------
\* Every step keeps the invariant.
LEMMA DialogueStep ==
    ASSUME DialogueInv, DialogueAssumption, [Next]_vars
    PROVE  DialogueInv'
<1>1. CASE UNCHANGED vars
  BY <1>1 DEF vars, talk, auth, player, client, DialogueInv, TypeOK,
              NonceIsTold, SetupInHand, OwnerKnown, StreamsAnnounced,
              PlayingAnnounced, OrderlyInHand, HandlersSurvive, Authentic
<1>2. CASE Next
  <2>1. PICK c \in Conns : Own(c) \/ Client(c)
    BY <1>2 DEF Next
  <2>2. CASE Own(c)
    <3>1. ~ended /\ (Test(c) \/ Handle(c) \/ Close(c))
      BY <2>2 DEF Own
    <3>2. CASE Handle(c)
      BY <3>1, <3>2, ChallengeKeeps, AnswerKeeps, AnnounceKeeps, TakeKeeps,
         PlayKeeps, DieKeeps DEF Handle
    <3> QED
      BY <3>1, <3>2, TestKeeps, CloseKeeps
  <2>3. CASE Client(c)
    <3>1. ~ended
      BY <2>3 DEF Client
    <3>2. CASE Interrupt(c)
      BY <3>1, <3>2, TestKeeps
    <3>3. CASE ~Interrupt(c)
      <4>1. PICK m \in Sent, n \in 0..made :
              \E of \in {m, "OPTIONS"}, f \in Forms(m) \cup {"good"} :
                 Receive(c, m, f, n, of)
        BY <2>3, <3>3 DEF Client
      <4>2. "good" \in Forms(m)
        BY DEF Forms
      <4> QED
        BY <3>1, <4>1, <4>2, ReceiveKeeps
    <3> QED
      BY <3>2, <3>3
  <2> QED
    BY <2>1, <2>2, <2>3
<1> QED
  BY <1>1, <1>2

\* The invariant of every reachable state.
THEOREM DialogueInvariant == Spec => []DialogueInv
BY DialogueInit, DialogueStep, DialogueAssumption, PTL DEF Spec

\* The state of the conversations stays within its types.
THEOREM DialogueTypeCorrect == Spec => []TypeOK
<1>1. DialogueInv => TypeOK
  BY DEF DialogueInv
<1> QED
  BY <1>1, DialogueInvariant, PTL

\* The stream that plays is the one its own client announced last, whatever
\* other connections announce and whatever is refused.
THEOREM StreamsAsAnnounced == Spec => []StreamAsAnnounced
<1>1. DialogueInv => StreamAsAnnounced
  BY DEF DialogueInv, PlayingAnnounced, StreamAsAnnounced, StreamsAnnounced,
         TypeOK
<1> QED
  BY <1>1, DialogueInvariant, PTL

\* Only a client that is out of order, or a start fill above the buffer, lets a
\* handler end the program.
THEOREM HandlersSurviveOrderlyClients == Spec => []HandlersSurvive
<1>1. DialogueInv => HandlersSurvive
  BY DEF DialogueInv
<1> QED
  BY <1>1, DialogueInvariant, PTL

\* With a password, streams are announced, set up and torn down only by
\* requests that answer their own connection's challenge.
THEOREM AuthenticatedRequests == Spec => AuthBound
<1>1. ASSUME DialogueInv, [Next]_vars
      PROVE  [\A c \in Conns :
                (/\ config.password /\ place[c] # "close"
                 /\ \/ stream'[c] # stream[c] \/ done'[c] # done[c]
                    \/ owner' = c /\ owner # c)
                => AnswersChallenge(c)]_vars
  <2>1. SUFFICES ASSUME Next, NEW c \in Conns, config.password, place[c] # "close",
                   stream'[c] # stream[c] \/ done'[c] # done[c]
                   \/ (owner' = c /\ owner # c)
                 PROVE AnswersChallenge(c)
    BY <1>1
  <2>2. PICK d \in Conns : Own(d) \/ Client(d)
    BY <2>1 DEF Next
  <2>3. \/ Ignore(d) \/ Flush(d) \/ Teardown(d) \/ Announce(d)
        \/ TakePlayer(d) \/ Lock(d) \/ Play(d) \/ Close(d)
    <3>1. CASE Client(d) \/ Test(d) \/ Die(d)
      BY <2>1, <3>1 DEF Client, Interrupt, Receive, Test, Die, player, client
    <3>2. CASE Challenge(d) \/ RefuseSetup(d)
      <4>1. done' = done
        BY <3>2 DEF Challenge, RefuseSetup, Respond
      <4>2. stream' = stream /\ owner' = owner
        BY <3>2 DEF Challenge, RefuseSetup, player
      <4> QED
        BY <2>1, <4>1, <4>2
    <3> QED
      BY <2>2, <3>1, <3>2 DEF Own, Handle
  <2>4. d = c
    <3>1. SUFFICES ASSUME d # c PROVE FALSE
      OBVIOUS
    <3>2. stream'[c] = stream[c] /\ done'[c] = done[c]
      BY <1>1, <2>3, <3>1 DEF Ignore, Flush, Teardown, Announce, TakePlayer,
         Lock, Play, Close, Respond, client, player, DialogueInv, TypeOK
    <3>3. owner' \in {owner, d, NoOne}
      BY <2>3 DEF Ignore, Flush, Teardown, Announce, TakePlayer, Lock, Play,
         Close, player
    <3> QED
      BY <2>1, <3>1, <3>2, <3>3, DialogueAssumption DEF DialogueAssumption
  <2>5. Authentic(c)
    BY <1>1, <2>1, <2>3, <2>4 DEF Ignore, Flush, Teardown, Announce,
       TakePlayer, Lock, Play, Close, Handling, DialogueInv, SetupInHand
  <2> QED
    BY <1>1, <2>5 DEF Authentic, AnswersChallenge, DialogueInv, NonceIsTold
<1> QED
  BY <1>1, DialogueInvariant, PTL DEF Spec, AuthBound

\* A client that answers the challenge it was given is never challenged again.
THEOREM AnsweredChallengeServes == Spec => ChallengedOnce
<1>1. ASSUME DialogueInv
      PROVE  \A c \in Conns : AnswersChallenge(c) => ~Challenge(c)
  BY <1>1 DEF DialogueInv, NonceIsTold, AnswersChallenge, Challenge, Authentic
<1> QED
  BY <1>1, DialogueInvariant, PTL DEF Spec, ChallengedOnce

=============================================================================
