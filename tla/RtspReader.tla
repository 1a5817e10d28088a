------------------------------ MODULE RtspReader ------------------------------
(***************************************************************************)
(* How rtsp.c cuts a connection's bytes into requests: rtsp_read_request,  *)
(* nextline and msg_handle_line (rtsp.c 126-332), for one connection whose *)
(* client waits for each response before it sends the next request.        *)
(*                                                                         *)
(* A byte is a symbol.  The text of a line is one symbol, since cutting it *)
(* makes no difference: "line" is a request line, "hdr" a header, "cl" the *)
(* Content-Length; a "long" line fills the buffer.  mem is the buffer of   *)
(* Size bytes and one more, its first inbuf bytes valid; "?" was never     *)
(* written, and what is neither valid, "lf" nor "?" is kept as "nul".      *)
(***************************************************************************)
EXTENDS Integers, Sequences, SequencesExt

CONSTANTS Size,        \* buflen: 512
          MaxHeaders,  \* room in rtsp_message: 16
          EINTR,       \* the errno that rtsp.c 313 compares a length with: 4
          LineEnds,    \* how clients end lines
          Requests     \* what clients send: [headers, body, length]

\* What is in a request but its first line; "b" is any other text.  length is
\* what its Content-Length says, -1 for everything below zero.
Sendable == {"hdr", "cl", "long", "b", "cr", "lf"}

ASSUME ReaderAssumption ==
    /\ Size \in Nat \ {0} /\ MaxHeaders \in Nat /\ EINTR \in Nat \ {0}
    /\ LineEnds \subseteq {<<"cr">>, <<"lf">>, <<"cr", "lf">>}
    /\ \A r \in Requests :
        /\ r.headers \in Seq({"hdr", "cl", "long"}) \ {<<>>}
        /\ r.body \in Seq(Sendable) /\ r.length \in Nat \cup {-1}

VARIABLES
    net,              \* bytes the client has sent and nobody has read
    sent,             \* the request the client waits for
    hungup,           \* the client has closed the connection
    please_shutdown,  \* some thread wants the player
    place,            \* where the conversation is
    mem, inbuf,       \* the buffer
    msg,              \* the message under construction
    msg_size,         \* the length of its body, -1 while unknown
    accidents         \* history: what happened to the request on its way

buffer == <<mem, inbuf, msg, msg_size>>
client == <<net, sent, hungup>>
vars == <<client, please_shutdown, place, buffer, accidents>>

NoMsg == [method |-> "none", headers |-> <<>>]
NoRequest == [headers |-> <<>>, body |-> <<>>, length |-> 0]
Fresh == [i \in 1..Size + 1 |-> "?"]

Init ==
    /\ net = <<>> /\ sent = NoRequest /\ hungup = FALSE
    /\ please_shutdown = FALSE /\ place = "test"
    /\ mem = Fresh /\ inbuf = 0 /\ msg = NoMsg /\ msg_size = -1
    /\ accidents = {}

Ended == place \in {"closed", "crash"}

-----------------------------------------------------------------------------
\* The client sends a request; what is left of an earlier one comes first.
\* Rest(r, e)[k] is what follows from r's k-th header on, in lines that end in e.
Text(h) == [i \in 1..(IF h = "long" THEN Size ELSE 1) |-> h]
Rest(r, e) ==
    LET rest[k \in 1..Len(r.headers) + 1] ==
            IF k > Len(r.headers) THEN e \o r.body
            ELSE Text(r.headers[k]) \o e \o rest[k + 1]
    IN rest

Send ==
    /\ sent = NoRequest /\ ~hungup
    /\ \E r \in Requests, e \in LineEnds :
        /\ sent' = r
        /\ net' = net \o <<"line">> \o e \o Rest(r, e)[1]
    /\ accidents' = IF net = <<>> THEN {} ELSE {"left"}
    /\ UNCHANGED <<hungup, please_shutdown, place, buffer>>

HangUp ==
    /\ ~hungup /\ hungup' = TRUE
    /\ UNCHANGED <<net, sent, please_shutdown, place, buffer, accidents>>

\* Another thread asks for the player, or the player has reset the request.
Ask ==
    /\ please_shutdown' = ~please_shutdown
    /\ UNCHANGED <<client, place, buffer, accidents>>

-----------------------------------------------------------------------------
\* The loop's test of the request.
Test ==
    /\ place = "test"
    /\ place' = IF please_shutdown THEN "closed" ELSE "read"
    /\ UNCHANGED <<client, please_shutdown, buffer, accidents>>

\* read returns some of the bytes that have come and fit.
Store(k) == [i \in DOMAIN mem |->
                IF i \in inbuf + 1..inbuf + k THEN net[i - inbuf] ELSE mem[i]]
Consume(k) == net' = SubSeq(net, k + 1, Len(net))

\* The byte after those read is "lf", in the network or in old memory.
LfMayFollow(k) == \/ k < Len(net) /\ net[k + 1] = "lf"
                  \/ mem[inbuf + k + 1] \in {"lf", "?"}

ReadHead ==
    /\ place = "read"
    /\ \E k \in 1..Len(net) :
        /\ inbuf + k <= Size
        /\ mem' = Store(k) /\ Consume(k) /\ inbuf' = inbuf + k
        /\ accidents' = IF net[k] = "cr" /\ LfMayFollow(k)
                        THEN accidents \cup {"cut"} ELSE accidents
    /\ place' = "parse"
    /\ UNCHANGED <<sent, hungup, please_shutdown, msg, msg_size>>

\* Mutant: a full buffer is not taken for the end of the file.
NoBytesGone == net = <<>> /\ hungup
\* It returns nothing when the client has gone, or the buffer is full.
NoBytes == (net = <<>> /\ hungup) \/ (place = "read" /\ inbuf = Size)
ReadNothing ==
    /\ place \in {"read", "body"}
    /\ place = "body" => inbuf < msg_size
    /\ NoBytes
    /\ place' = "closed"
    /\ UNCHANGED <<client, please_shutdown, buffer, accidents>>

\* SIGUSR1 interrupts a read that blocks; in the body that is a read failure.
Interrupt ==
    /\ place \in {"read", "body"}
    /\ place = "body" => inbuf < msg_size
    /\ place' = IF place = "read" THEN "test" ELSE "closed"
    /\ UNCHANGED <<client, please_shutdown, buffer, accidents>>

-----------------------------------------------------------------------------
\* nextline looks past the valid bytes for the "lf" after a last "cr".
LineEndsAt == {i \in 1..inbuf : mem[i] \in {"cr", "lf"}}
FirstEnd == CHOOSE i \in LineEndsAt : \A j \in LineEndsAt : i <= j
FirstLine == SubSeq(mem, 1, FirstEnd - 1)

\* Mutants: nextline takes every end for one byte; it skips a line feed after
\* a line feed.
NextLinesSingle == {FirstEnd + 1}
NextLinesGreedy == IF mem[FirstEnd + 1] \in {"lf", "?"} THEN {FirstEnd + 2}
                   ELSE {FirstEnd + 1}
NextLines ==
    LET after == mem[FirstEnd + 1]
    IN IF mem[FirstEnd] = "cr" /\ after = "?" THEN {FirstEnd + 1, FirstEnd + 2}
       ELSE IF mem[FirstEnd] = "cr" /\ after = "lf" THEN {FirstEnd + 2}
       ELSE {FirstEnd + 1}

\* A request line may have bytes of an earlier body before it: they become a
\* part of the method, which no handler has then.
RequestLine(text) == text # <<>> /\ Last(text) = "line"
\* Mutant: the method is looked for anywhere in its word.
MethodAnywhere(text) == "known"
Method(text) == IF text = <<"line">> THEN "known" ELSE "unknown"

\* Mutant: a full message forgets its first header.
AddHeaderLast(h) == [msg EXCEPT !.headers =
    IF Len(@) < MaxHeaders THEN Append(@, h) ELSE Append(Tail(@), h)]
AddHeader(h) == [msg EXCEPT !.headers =
    IF Len(@) < MaxHeaders THEN Append(@, h) ELSE @]

\* The length of the body as the message has it; the body's own need not agree.
Declared == IF Contains(msg.headers, "cl") THEN sent.length ELSE 0

\* msg_handle_line: a request line, a header, the empty line, or a failure.
\* After the empty line of a message with a length below zero the reader goes
\* on with headers.
HandleLine(text) ==
    \/ /\ msg.method = "none" /\ RequestLine(text)
       /\ msg' = [msg EXCEPT !.method = Method(text)]
       /\ UNCHANGED <<msg_size, accidents>>
    \/ /\ msg.method # "none" /\ text \in {<<"hdr">>, <<"cl">>}
       /\ msg' = AddHeader(Head(text))
       /\ accidents' = IF Len(msg.headers) < MaxHeaders THEN accidents
                       ELSE accidents \cup {"headers"}
       /\ UNCHANGED msg_size
    \/ /\ msg.method # "none" /\ text = <<>>
       /\ msg_size' = Declared
       /\ accidents' = IF Declared = Len(sent.body) THEN accidents
                       ELSE accidents \cup {"length"}
       /\ UNCHANGED msg
Understood(text) == IF msg.method = "none" THEN RequestLine(text)
                    ELSE text \in {<<>>, <<"hdr">>, <<"cl">>}

\* Handle one line and move the rest to the front; if nextline went past the
\* valid bytes, their number is negative and memmove overruns the buffer.
ParseLine ==
    /\ place = "parse" /\ msg_size < 0 /\ LineEndsAt # {}
    /\ Understood(FirstLine)
    /\ HandleLine(FirstLine)
    /\ \E next \in NextLines :
        /\ inbuf' = inbuf - next + 1
        /\ place' = IF inbuf' < 0 THEN "crash" ELSE "parse"
        /\ mem' = [i \in DOMAIN mem |->
                     IF i <= inbuf' THEN mem[i + next - 1]
                     ELSE IF i < FirstEnd \/ i >= next
                          THEN IF mem[i] \in {"lf", "?"} THEN mem[i] ELSE "nul"
                          ELSE "nul"]
    /\ UNCHANGED <<client, please_shutdown>>

NoHeader ==
    /\ place = "parse" /\ msg_size < 0 /\ LineEndsAt # {}
    /\ ~Understood(FirstLine)
    /\ place' = "closed"
    /\ UNCHANGED <<client, please_shutdown, buffer, accidents>>

NeedMore ==
    /\ place = "parse" /\ msg_size < 0 /\ LineEndsAt = {}
    /\ place' = "test"
    /\ UNCHANGED <<client, please_shutdown, buffer, accidents>>

\* There is no memory for the body.
TooMuchContent ==
    /\ place = "parse" /\ msg_size > Size
    /\ place' = "closed"
    /\ UNCHANGED <<client, please_shutdown, buffer, accidents>>

\* The headers are complete: make room for the body.
EndHead ==
    /\ place = "parse" /\ msg_size >= 0
    /\ mem' = IF msg_size <= Size THEN mem
              ELSE [i \in 1..msg_size |-> IF i <= Size THEN mem[i] ELSE "?"]
    /\ place' = "body"
    /\ UNCHANGED <<client, please_shutdown, inbuf, msg, msg_size, accidents>>

\* The number of bytes read is compared with EINTR.
Keeps(k) == k # EINTR

ReadBody ==
    /\ place = "body"
    /\ \E k \in 1..Len(net) :
        /\ inbuf + k <= msg_size
        /\ Consume(k)
        /\ IF Keeps(k)
           THEN mem' = Store(k) /\ inbuf' = inbuf + k /\ UNCHANGED accidents
           ELSE accidents' = accidents \cup {"four"} /\ UNCHANGED <<mem, inbuf>>
    /\ UNCHANGED <<sent, hungup, please_shutdown, place, msg, msg_size>>

Deliver ==
    /\ place = "body" /\ inbuf >= msg_size
    /\ place' = "handle"
    /\ UNCHANGED <<client, please_shutdown, buffer, accidents>>

\* The response is written, the message freed, and the next one awaited.
Respond ==
    /\ place = "handle"
    /\ sent' = NoRequest /\ place' = "test"
    /\ mem' = Fresh /\ inbuf' = 0 /\ msg' = NoMsg /\ msg_size' = -1
    /\ UNCHANGED <<net, hungup, please_shutdown, accidents>>

Read == \/ Test \/ ReadHead \/ ReadNothing \/ ParseLine \/ NoHeader \/ NeedMore
        \/ TooMuchContent \/ EndHead \/ ReadBody \/ Deliver \/ Respond
Next == Send \/ HangUp \/ Ask \/ Interrupt \/ Read
Spec == Init /\ [][Next]_vars
\* The conversation's thread runs; signals do not interrupt every read.
FairSpec == Spec /\ WF_vars(Read) /\ SF_vars(ReadHead) /\ SF_vars(ReadNothing)

-----------------------------------------------------------------------------
Content == SubSeq(mem, 1, inbuf)

\* However the bytes of a request are split over reads, a request is handled
\* with exactly the headers and the body that were sent (rtsp.c 257-323),
\* unless a read ended after a CR that an LF follows (in the network or in old
\* memory), there were too many headers, a read of the body returned EINTR
\* bytes, bytes of the request before were left behind, or the length that the
\* message has is not the body's.
FramedAsSent ==
    place = "handle" /\ accidents = {} =>
        msg.headers = sent.headers /\ Content = sent.body

\* Even after an accident no header of one request, nor one the client did not
\* send, is handled with another (rtsp.c 155-166, 203-240).
HeadersOfOneRequest ==
    place = "handle" => IsPrefix(msg.headers, sent.headers)

\* Once bytes of a request are left behind its response, the connection and
\* its client are out of step: the line they begin is refused, or becomes a
\* method no handler has, so they are never acted on (rtsp.c 206-226, 805-811).
NothingHandledOutOfStep ==
    place = "handle" /\ "left" \in accidents => msg.method = "unknown"

\* nextline stays within the bytes that were read (rtsp.c 124-146), except
\* when a read ended after a CR and old memory holds an LF; no read writes past
\* the buffer, whose room the body changes; and a message takes no more headers
\* than it has room for (rtsp.c 155-166, 278-319).
StaysInRoom ==
    /\ place = "crash" => "cut" \in accidents
    /\ inbuf \in 0..Len(mem) \/ place = "crash"
    /\ Len(msg.headers) <= MaxHeaders

\* A request is answered or its connection closed (rtsp.c 257-324), unless a
\* part of its body was taken for a signal or its length is below zero or more
\* than the body's: then the rest is waited for, and will never come.
Answered ==
    sent # NoRequest ~> \/ sent = NoRequest \/ Ended
                        \/ "four" \in accidents
                        \/ sent.length \notin 0..Len(sent.body)

=============================================================================
