--------------------------------- MODULE Mdnsd ---------------------------------
(***************************************************************************)
(* The responder of tinysvcmdns.c: its thread (main_loop, 1391-1490, with  *)
(* the replies and announces of 1142-1314), the calls that fill and stop   *)
(* it (1495-1676), and the back end that makes them                        *)
(* (mdns_tinysvcmdns.c 41-145).  A record is [name, type, target]: the     *)
(* address of an A or AAAA, the name a PTR or SRV leads to.  What is done  *)
(* with data_lock held is one step, and so is a look-up; what the thread   *)
(* does between two look-ups may come before or after others' steps.       *)
(***************************************************************************)
EXTENDS Integers, Sequences, SequencesExt

CONSTANTS Interfaces,  \* the lists of addresses the machine may have
          Packets,     \* what arrives: [kind, qn, ans], where kind is "query",
                       \* "other" or "error" (recvfrom fails), "discarded" (it
                       \* goes on waiting) or "truncated" (a query that ends
                       \* before all the questions it counts)
          MaxPackets   \* BOUND: how many of them arrive

DEFAULT_TTL == 120
SERVICES == "services"

Interface == [type : {"A", "AAAA"}, addr : STRING]
Question == [name : STRING, type : STRING, unicast_query : BOOLEAN]
KnownAnswer == [name : STRING, type : STRING, target : STRING, ttl : Nat]

ASSUME MdnsdAssumption ==
    /\ Interfaces \subseteq Seq(Interface)
    /\ Packets \subseteq [kind : {"query", "other", "error", "discarded", "truncated"},
                          qn : Seq(Question), ans : Seq(KnownAnswer)]
    /\ MaxPackets \in Nat

VARIABLES
    main, left,          \* the registering thread; the interfaces still to add
    group, announce, services,   \* the responder's lists
    notify, stop_flag,   \* bytes in notify_pipe
    place,               \* the responder's thread
    net, arrived,        \* datagrams that wait; how many have come
    pkt,                 \* the query at work
    asks, phase, cursor, \* look-ups to make; for which list, at which record
    reply,               \* mdns_reply
    there,               \* history: the records when the query came
    announced, goodbye   \* history: records announced, and taken back

lists == <<group, announce, services>>
pipe == <<notify, stop_flag>>
build == <<pkt, asks, phase, cursor, reply, there>>
vars == <<main, left, lists, pipe, place, net, arrived, build, announced, goodbye>>

NoPacket == [kind |-> "other", qn |-> <<>>, ans |-> <<>>]
NoReply == [ans |-> <<>>, add |-> <<>>, num_ans |-> 0, num_add |-> 0]

Init ==
    /\ main = "start" /\ left = <<>>
    /\ group = <<>> /\ announce = <<>> /\ services = <<>>
    /\ notify = 0 /\ stop_flag = 0 /\ place = "test"
    /\ net = <<>> /\ arrived = 0
    /\ pkt = NoPacket /\ asks = <<>> /\ phase = "ask" /\ cursor = 0
    /\ reply = NoReply /\ there = {}
    /\ announced = {} /\ goodbye = {}

\* What a walk over the list s keeps.
Filter(s, keep) ==
    LET kept[i \in 0..Len(s)] ==
            IF i = 0 THEN <<>>
            ELSE IF s[i] \in keep THEN Append(kept[i - 1], s[i]) ELSE kept[i - 1]
    IN kept[Len(s)]

Record(name, type, target) == [name |-> name, type |-> type, target |-> target]
Host(i) == Record("host", i.type, i.addr)
SRV == Record("inst", "SRV", "host")
TXT == Record("inst", "TXT", "txt")
PTR == Record("type", "PTR", "inst")
BPTR == Record(SERVICES, "PTR", "type")

-----------------------------------------------------------------------------
\* The back end registers: without an interface it fails, and leaves the
\* responder running.
NoInterface ==
    /\ main = "start" /\ <<>> \in Interfaces
    /\ main' = "failed"
    /\ UNCHANGED <<left, lists, pipe, place, net, arrived, build, announced, goodbye>>

\* mdnsd_set_hostname, with the first interface.
SetHostname ==
    /\ main = "start"
    /\ \E list \in Interfaces \ {<<>>} :
        /\ group' = <<Host(Head(list)), Record("host", "NSEC", Head(list).type)>>
        /\ left' = Tail(list)
    /\ main' = "add"
    /\ UNCHANGED <<announce, services, pipe, place, net, arrived, build,
                   announced, goodbye>>

AddRR ==
    /\ main = "add" /\ left # <<>>
    /\ group' = Append(group, Host(Head(left)))
    /\ left' = Tail(left)
    /\ UNCHANGED <<main, announce, services, pipe, place, net, arrived, build,
                   announced, goodbye>>

\* mdnsd_register_svc: the service's records and its place in both lists...
RegisterService ==
    /\ main = "add" /\ left = <<>>
    /\ group' = group \o <<TXT, SRV, PTR, BPTR>>
    /\ announce' = Append(announce, PTR)
    /\ services' = Append(services, PTR)
    /\ main' = "notify"
    /\ UNCHANGED <<left, pipe, place, net, arrived, build, announced, goodbye>>

\* Mutant: nobody is told.
NotifyNot ==
    /\ main = "notify" /\ main' = "running"
    /\ UNCHANGED <<left, lists, pipe, place, net, arrived, build, announced, goodbye>>
\* ...and a byte for the responder.
Notify ==
    /\ main = "notify" /\ main' = "running"
    /\ notify' = notify + 1
    /\ UNCHANGED <<left, lists, stop_flag, place, net, arrived, build,
                   announced, goodbye>>

\* mdnsd_stop, in any thread but the responder's...
Stop ==
    /\ main = "running" /\ stop_flag = 0
    /\ main' = "stopping" /\ stop_flag' = 1
    /\ UNCHANGED <<left, lists, notify, place, net, arrived, build, announced, goodbye>>

\* Mutant: the responder is not woken.
WakeNot ==
    /\ main = "stopping" /\ main' = "waiting"
    /\ UNCHANGED <<left, lists, pipe, place, net, arrived, build, announced, goodbye>>
Wake ==
    /\ main = "stopping" /\ main' = "waiting"
    /\ notify' = notify + 1
    /\ UNCHANGED <<left, lists, stop_flag, place, net, arrived, build,
                   announced, goodbye>>

Free ==
    /\ main = "waiting" /\ stop_flag = 2
    /\ main' = "freed"
    /\ UNCHANGED <<left, lists, pipe, place, net, arrived, build, announced, goodbye>>

\* ...or in a handler of SIGTERM that the responder's thread runs, which then
\* waits for itself.
StopInResponder ==
    /\ main = "running" /\ stop_flag = 0
    /\ stop_flag' = 1 /\ notify' = notify + 1
    /\ place' = "stuck"
    /\ UNCHANGED <<main, left, lists, net, arrived, build, announced, goodbye>>

Register == NoInterface \/ SetHostname \/ AddRR \/ RegisterService \/ Notify
Unregister == Wake \/ Free

-----------------------------------------------------------------------------
Arrive ==
    /\ arrived < MaxPackets /\ arrived' = arrived + 1
    /\ \E p \in Packets : net' = Append(net, p)
    /\ UNCHANGED <<main, left, lists, pipe, place, build, announced, goodbye>>

Test ==
    /\ place = "test"
    /\ place' = IF stop_flag = 0 THEN "select" ELSE "goodbye"
    /\ UNCHANGED <<main, left, lists, pipe, net, arrived, build, announced, goodbye>>

\* Mutant: the byte is left in the pipe.
FlushNot == UNCHANGED notify
Flush == notify' = notify - 1
ReadNotify ==
    /\ place \in {"select", "blocked"} /\ notify > 0
    /\ place' = "announce" /\ Flush
    /\ UNCHANGED <<main, left, lists, stop_flag, net, arrived, build, announced, goodbye>>

\* A signal ends a select that waits and leaves its set as it was, so the
\* thread reads the pipe, empty as it is.
Interrupt ==
    /\ place = "select" /\ notify = 0 /\ net = <<>>
    /\ place' = "blocked"
    /\ UNCHANGED <<main, left, lists, pipe, net, arrived, build, announced, goodbye>>

Questions(p) == Filter(p.qn, {q \in Range(p.qn) : ~q.unicast_query})

Readable ==
    /\ place = "receiving" \/ (place = "select" /\ notify = 0)
    /\ net # <<>>

\* A datagram that the kernel discards after select (a bad checksum) leaves the
\* thread in recvfrom.  After an error the length is (size_t)-1, of which the
\* parser makes questions without a name, which match no record, or no packet.
Receive ==
    /\ Readable /\ Head(net).kind # "truncated"
    /\ net' = Tail(net)
    /\ LET p == Head(net)
       IN /\ place' = CASE p.kind = "query" -> "build"
                       [] p.kind = "discarded" -> "receiving"
                       [] OTHER -> "announce"
          /\ pkt' = IF p.kind = "query" THEN p ELSE NoPacket
          /\ asks' = IF p.kind = "query" THEN Questions(p) ELSE <<>>
    /\ phase' = "ask" /\ cursor' = 0 /\ reply' = NoReply
    /\ there' = Range(group)
    /\ UNCHANGED <<main, left, lists, pipe, arrived, announced, goodbye>>

\* A question past the end of the datagram has no name, which nlabel_to_str
\* asserts: the program ends.
AssertName ==
    /\ Readable /\ Head(net).kind = "truncated"
    /\ net' = Tail(net)
    /\ main' = "aborted" /\ place' = "aborted"
    /\ UNCHANGED <<left, lists, pipe, arrived, build, announced, goodbye>>

-----------------------------------------------------------------------------
\* populate_answers: the records that match, those not in the list already.
Matches(r, ask) ==
    /\ r.name = ask.name
    /\ ask.type = r.type \/ (ask.type = "ANY" /\ r.type # "NSEC")
Found(ask) == Filter(group, {r \in Range(group) : Matches(r, ask)})
NewIn(list, found) == Filter(found, Range(found) \ Range(list))
Count(list, found) == Len(NewIn(list, found))

Ask(name, type) == [name |-> name, type |-> type, unicast_query |-> FALSE]
\* Mutant: the host of a service is not looked up.
RelatedNoHost(r) ==
    CASE r.type = "PTR" -> <<Ask(r.target, "ANY")>>
      [] r.type = "SRV" -> <<Ask(r.name, "TXT")>>
      [] r.type \in {"A", "AAAA"} -> <<Ask(r.name, "NSEC")>>
      [] OTHER -> <<>>
Related(r) ==
    CASE r.type = "PTR" -> <<Ask(r.target, "ANY")>>
      [] r.type = "SRV" -> <<Ask(r.target, "ANY"), Ask(r.name, "TXT")>>
      [] r.type \in {"A", "AAAA"} -> <<Ask(r.name, "NSEC")>>
      [] OTHER -> <<>>

Populate ==
    /\ place = "build" /\ asks # <<>>
    /\ asks' = Tail(asks)
    /\ LET found == Found(Head(asks))
       IN reply' = IF phase = "ask"
            THEN [reply EXCEPT !.ans = @ \o NewIn(@, found),
                               !.num_ans = @ + Count(reply.ans, found)]
            ELSE [reply EXCEPT !.add = @ \o NewIn(@, found),
                               !.num_add = @ + Count(reply.add, found)]
    /\ UNCHANGED <<main, left, lists, pipe, place, net, arrived, pkt,
                   phase, cursor, there, announced, goodbye>>

\* rr_entry_match: a known answer is one of the type and name and, if it is a
\* PTR, with the target; the first one counts.
SameRR(k, r) ==
    k.type = r.type /\ k.name = r.name /\ (r.type = "PTR" => k.target = r.target)
Knows(r) == Filter(pkt.ans, {k \in Range(pkt.ans) : SameRR(k, r)})
\* Mutant: an answer is only dropped while it is fresh.
SuppressedFresh(r) ==
    pkt.kind = "query" /\ Knows(r) # <<>> /\ Head(Knows(r)).ttl >= DEFAULT_TTL
Suppressed(r) ==
    pkt.kind = "query" /\ Knows(r) # <<>> /\ Head(Knows(r)).ttl >= DEFAULT_TTL \div 2

\* The answers are complete: those the querier knows are dropped, then
\* add_related_rr goes over the answers...
Suppress ==
    /\ place = "build" /\ asks = <<>> /\ phase = "ask"
    /\ LET kept == Filter(reply.ans, {r \in Range(reply.ans) : ~Suppressed(r)})
       IN reply' = [reply EXCEPT !.ans = kept,
                                 !.num_ans = @ - (Len(reply.ans) - Len(kept))]
    /\ phase' = "ans" /\ cursor' = 0
    /\ UNCHANGED <<main, left, lists, pipe, place, net, arrived, pkt,
                   asks, there, announced, goodbye>>

\* ...and then over the records it has added, and those it adds to them.
Current == IF phase = "ans" THEN reply.ans ELSE reply.add
NextRelated ==
    /\ place = "build" /\ asks = <<>> /\ phase # "ask" /\ cursor < Len(Current)
    /\ cursor' = cursor + 1
    /\ asks' = Related(Current[cursor + 1])
    /\ UNCHANGED <<main, left, lists, pipe, place, net, arrived, pkt,
                   phase, reply, there, announced, goodbye>>

EndOfList ==
    /\ place = "build" /\ asks = <<>> /\ phase # "ask" /\ cursor = Len(Current)
    /\ IF phase = "ans" THEN phase' = "add" /\ place' = place
                        ELSE phase' = phase /\ place' = "send"
    /\ cursor' = 0
    /\ UNCHANGED <<main, left, lists, pipe, net, arrived, pkt, asks,
                   reply, there, announced, goodbye>>

\* A reply with answers is encoded and sent.
Send ==
    /\ place = "send" /\ place' = "announce"
    /\ announced' = announced \cup (IF pkt.kind = "other" /\ reply.num_ans > 0
                                   THEN Range(reply.ans) ELSE {})
    /\ UNCHANGED <<main, left, lists, pipe, net, arrived, build, goodbye>>

-----------------------------------------------------------------------------
\* After each round the services that wait are announced, one by one.
Announce ==
    /\ place = "announce" /\ announce # <<>>
    /\ announce' = Tail(announce)
    /\ asks' = <<Ask(Head(announce).name, "PTR"), Ask(SERVICES, "PTR")>>
    /\ place' = "build" /\ pkt' = NoPacket
    /\ phase' = "ask" /\ cursor' = 0 /\ reply' = NoReply /\ there' = Range(group)
    /\ UNCHANGED <<main, left, group, services, pipe, net, arrived,
                   announced, goodbye>>

NothingToAnnounce ==
    /\ place = "announce" /\ announce = <<>>
    /\ place' = "test"
    /\ UNCHANGED <<main, left, lists, pipe, net, arrived, build, announced, goodbye>>

\* Mutant: what is still to announce is forgotten instead.
GoodbyesWaiting == announce
Goodbyes == services
\* When it is to stop, it takes the services back with a time to live of 0...
SayGoodbye ==
    /\ place = "goodbye" /\ place' = "close"
    /\ goodbye' = Range(Goodbyes)
    /\ UNCHANGED <<main, left, lists, pipe, net, arrived, build, announced>>

\* ...and says that it has.
Close ==
    /\ place = "close" /\ place' = "ended"
    /\ stop_flag' = 2
    /\ UNCHANGED <<main, left, lists, notify, net, arrived, build, announced, goodbye>>

Respond ==
    \/ Test \/ ReadNotify \/ Receive \/ AssertName \/ Populate \/ Suppress
    \/ NextRelated \/ EndOfList \/ Send \/ Announce \/ NothingToAnnounce \/ SayGoodbye \/ Close
Next == Register \/ Unregister \/ Stop \/ StopInResponder \/ Arrive \/ Interrupt
        \/ (place # "stuck" /\ Respond)
Spec == Init /\ [][Next]_vars
\* Threads run; packets, signals and the wish to stop come or do not.
FairSpec == Spec /\ WF_vars(Register) /\ WF_vars(Unregister) /\ WF_vars(Respond)

-----------------------------------------------------------------------------
\* Places and flags have the values the code gives them (tinysvcmdns.c
\* 1391-1490, 1650-1676).
TypeOK ==
    /\ main \in {"start", "failed", "add", "notify", "running", "stopping",
                 "waiting", "freed", "aborted"}
    /\ place \in {"test", "select", "blocked", "receiving", "build", "send",
                  "announce", "goodbye", "close", "ended", "stuck", "aborted"}
    /\ notify \in Nat /\ stop_flag \in 0..2 /\ arrived \in 0..MaxPackets

Names(r) == r \in Range(reply.ans) \cup Range(reply.add)

\* A reply that leads to the service says all of it (tinysvcmdns.c 1180-1230):
\* with its PTR come its SRV and TXT, with its SRV the host's addresses, though
\* the records are looked up one by one while others are registered.
ReplyComplete ==
    place = "send" /\ reply.num_ans > 0 =>
        /\ Names(PTR) => Names(SRV) /\ Names(TXT)
        /\ Names(SRV) => \A r \in there : r.type \in {"A", "AAAA"} => Names(r)

\* A query is answered with every record it asked for that was there, and with
\* no other, except those it knows with half of their time left
\* (tinysvcmdns.c 1250-1299): a PTR with this target, or any of the name and
\* type.
AnsweredExactly ==
    place = "send" /\ pkt.kind = "query" =>
        LET asked(r) == \E i \in 1..Len(pkt.qn) :
                            ~pkt.qn[i].unicast_query /\ Matches(r, pkt.qn[i])
            known(r) == \E i \in 1..Len(pkt.ans) :
                /\ pkt.ans[i].name = r.name /\ pkt.ans[i].type = r.type
                /\ r.type = "PTR" => pkt.ans[i].target = r.target
                /\ 2 * pkt.ans[i].ttl >= DEFAULT_TTL
        IN /\ \A r \in Range(reply.ans) : asked(r) /\ ~known(r)
           /\ \A r \in there : asked(r) /\ ~known(r) => r \in Range(reply.ans)

\* What mdnsd_stop frees nobody uses, and every service that was announced has
\* been taken back by then (tinysvcmdns.c 1463-1489, 1658-1675).
GoodbyeBeforeFree ==
    main = "freed" => place = "ended" /\ Range(services) \subseteq goodbye

\* A service that is registered is announced (tinysvcmdns.c 1437-1460,
\* 1593-1604), even if a signal has put the responder to sleep before, unless
\* it waits in recvfrom for good or a truncated query has ended the program.
Announced ==
    main = "running" ~> \/ PTR \in announced \/ stop_flag # 0
                        \/ place = "aborted" \/ [](place = "receiving")

\* A datagram is taken up, unless a signal has put the responder to sleep
\* (tinysvcmdns.c 1408-1417): bytes in the pipe hold it up only for a while.
QueriesHeard ==
    net # <<>> ~> net = <<>> \/ place \in {"blocked", "aborted"} \/ stop_flag # 0

\* mdnsd_stop returns (tinysvcmdns.c 1650-1664), wherever the responder is and
\* whether or not it sleeps, unless the responder's own thread calls it or is
\* left in recvfrom, which mdnsd_stop's byte does not end.
StopCompletes ==
    main = "stopping" ~> main \in {"freed", "aborted"} \/ [](place = "receiving")
=============================================================================
