------------------------------ MODULE DnsReply ------------------------------
(***************************************************************************)
(* A reply that grows record by record (tinysvcmdns.c 565-590, 334-385),   *)
(* and what is asked of the messages it is sent as.                        *)
(***************************************************************************)
EXTENDS DnsMessage

CONSTANTS Ids,       \* the ids that queries carry and replies repeat
          Records    \* the records that replies are made of

Octet == 0..255
Character == 1..255

\* What the responder is given: labels and texts that create_label makes, the
\* texts short enough for dup_label too, and numbers that fit their fields.
IsLabel(label) == label \in Seq(Character) /\ Len(label) \in 1..MaxLabel
IsName(name) ==
    /\ name \in Seq(Seq(Character)) /\ name # <<>>
    /\ \A i \in 1..Len(name) : IsLabel(name[i])
IsTexts(texts) ==
    /\ texts \in Seq(Seq(Character)) /\ texts # <<>>
    /\ \A i \in 1..Len(texts) : Len(texts[i]) < MaxLabel
IsShort(v) == v \in Nat /\ v < 65536
IsLong(v) == v \in Nat /\ v \div 65536 < 65536
IsBytes(bytes, n) == bytes \in Seq(Octet) /\ Len(bytes) = n
IsData(type, data) ==
    \/ type = RR_A /\ IsBytes(data, 4)
    \/ type = RR_AAAA /\ IsBytes(data, 16)
    \/ type = RR_PTR /\ IsName(data)
    \/ type = RR_TXT /\ IsTexts(data)
    \/ type = RR_SRV /\ IsShort(data.port) /\ IsName(data.target)
    \/ type = RR_NSEC /\ IsBytes(data, 5)
IsRecord(r) ==
    /\ r = [name |-> r.name, type |-> r.type, ttl |-> r.ttl,
            cache_flush |-> r.cache_flush, data |-> r.data]
    /\ IsName(r.name) /\ IsData(r.type, r.data)
    /\ IsLong(r.ttl)
    /\ r.cache_flush \in BOOLEAN

ASSUME ReplyAssumption ==
    /\ MaxLabel \in 1..63
    /\ \A id \in Ids : IsShort(id)
    /\ \A r \in Records : IsRecord(r)

VARIABLE message

\* MDNS_FLAG_RESP and MDNS_FLAG_AA.
mdns_init_reply(id) == [id |-> id, flags |-> 33792, ans |-> <<>>, add |-> <<>>]

MessageInit == \E id \in Ids : message = mdns_init_reply(id)
\* Only an entry that is in the list already is refused; records that say the
\* same may be two entries.
rr_list_append ==
    \E r \in Records : \/ message' = [message EXCEPT !.ans = Append(@, r)]
                       \/ message' = [message EXCEPT !.add = Append(@, r)]
MessageSpec == MessageInit /\ [][rr_list_append]_message

-----------------------------------------------------------------------------
\* The parser skips the data of types it does not know.
Legible(r) == IF r.type \in {RR_SRV, RR_NSEC} THEN [r EXCEPT !.data = <<>>] ELSE r

\* A name whose labels hold no dot, which those of an instance may.
Plain(name) == \A i \in 1..Len(name) : \A j \in 1..Len(name[i]) : name[i][j] # Dot

\* A reply says what its records say: the names that mdns_encode_pkt compresses
\* (tinysvcmdns.c 809-850) are those that mdns_parse_pkt reads (230-274), each
\* record ends where the next begins, and no record of a well-formed reply
\* makes the parser give up, as long as a pointer's 14 bits reach any place in
\* the packet.  A name printed with dots is the one made from that text.
MessagesSurvive ==
    LET pkt == mdns_encode_pkt(message)
        name(i) == message.ans[i].name
    IN /\ Len(pkt) <= Reach =>
              mdns_parse_pkt(pkt) =
                  [id |-> message.id, flags |-> message.flags, qn |-> <<>>,
                   ans |-> [i \in DOMAIN message.ans |-> Legible(message.ans[i])]]
       /\ \A i \in DOMAIN message.ans :
              Plain(name(i)) => create_nlabel(Front(nlabel_to_str(name(i)))) = name(i)
=============================================================================
