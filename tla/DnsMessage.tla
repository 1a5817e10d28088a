------------------------------ MODULE DnsMessage ------------------------------
(***************************************************************************)
(* tinysvcmdns.c's names and messages as operators (74-275, 539-1016): how *)
(* a reply's records become bytes, with compressed names, and how bytes    *)
(* become questions and records.  A name is the sequence of its labels and *)
(* a label the sequence of its characters; a packet is a sequence of       *)
(* bytes, its offsets counting from 0.  A record is [name, type, ttl,      *)
(* cache_flush, data]: data is an address's bytes, the name that a PTR     *)
(* points to, the texts of a TXT, [port, target] or a bitmap.  Loops are   *)
(* recursive functions of the number of their turns.                       *)
(***************************************************************************)
EXTENDS Integers, Sequences, SequencesExt

CONSTANTS MaxLabel,   \* the longest label: 63
          Failed      \* what a parser returns that fails

RR_A == 1
RR_PTR == 12
RR_TXT == 16
RR_AAAA == 28
RR_SRV == 33
RR_NSEC == 47
Dot == 46

-----------------------------------------------------------------------------
\* create_label refuses what is too long, and dup_label one less.
create_label(txt) == IF Len(txt) > MaxLabel THEN Failed ELSE txt
dup_label(label) == IF Len(label) + 1 > MaxLabel THEN Failed ELSE label

\* Where a text that is not empty is cut: at its dots, though not at one that
\* comes last, and behind its end.
NextDot(txt, i) ==
    CHOOSE d \in i + 1..Len(txt) + 1 :
        /\ d = Len(txt) + 1 \/ (d < Len(txt) /\ txt[d] = Dot)
        /\ \A e \in i + 1..d - 1 : ~(e < Len(txt) /\ txt[e] = Dot)
create_nlabel(txt) ==
    LET dot[j \in 0..Len(txt) + 1] ==
            IF j = 0 THEN 0
            ELSE LET d == dot[j - 1] IN IF d > Len(txt) THEN d ELSE NextDot(txt, d)
        n == CHOOSE k \in 1..Len(txt) + 1 :
                 dot[k] > Len(txt) /\ \A j \in 1..k - 1 : dot[j] <= Len(txt)
    IN [j \in 1..n |-> SubSeq(txt, dot[j - 1] + 1, dot[j] - 1)]

nlabel_to_str(name) ==
    LET text[j \in 0..Len(name)] ==
            IF j = 0 THEN <<>> ELSE text[j - 1] \o name[j] \o <<Dot>>
    IN text[Len(name)]
join_nlabel(label, name) == <<label>> \o name

\* The fields hold 16 bits and 32.
u16(v) == <<(v \div 256) % 256, v % 256>>
u32(v) == u16(v \div 65536) \o u16(v % 65536)
read_u16(pkt, off) == pkt[off + 1] * 256 + pkt[off + 2]
read_u32(pkt, off) == read_u16(pkt, off) * 65536 + read_u16(pkt, off + 2)

-----------------------------------------------------------------------------
\* The bytes of the first j labels of a name, or texts of a TXT.
Strings(list) ==
    LET bytes[j \in 0..Len(list)] ==
            IF j = 0 THEN <<>> ELSE bytes[j - 1] \o <<Len(list[j])>> \o list[j]
    IN bytes

\* A pointer's bytes are its two highest bits and 14 bits for a place.
PointerBits == 49152
Reach == 16384

\* What a name is without its first i labels.
Suffix(name, i) == SubSeq(name, i + 1, Len(name))

\* A name's suffix that is copied into a packet, and where it begins there.
\* Mutant: where its second label does.
CachedLate(off, name, c) == off + Len(Strings(name)[Len(name) - Len(c) + 1])
Cached(off, name, c) == off + Len(Strings(name)[Len(name) - Len(c)])

\* comp holds the names that the packet contains already, with their places.
\* Labels are copied up to the first such name, which a pointer stands for.
mdns_encode_name(off, name, comp) ==
    LET n == Len(name)
        copied == CHOOSE k \in 0..n : /\ k < n => Suffix(name, k) \in DOMAIN comp
                                      /\ \A i \in 0..k - 1 : Suffix(name, i) \notin DOMAIN comp
        new == {Suffix(name, i) : i \in 0..copied - 1}
        end == IF copied = n THEN <<0>>
               ELSE u16(PointerBits + (comp[Suffix(name, copied)] % Reach))
    IN [bytes |-> Strings(name)[copied] \o end,
        comp |-> [c \in DOMAIN comp \cup new |->
                      IF c \in new THEN Cached(off, name, c) ELSE comp[c]]]

EncodeData(off, rr, comp) ==
    LET Plain(bytes) == [bytes |-> bytes, comp |-> comp]
        target == mdns_encode_name(off + 6, rr.data.target, comp)
        name == mdns_encode_name(off, rr.name, comp)
    IN CASE rr.type \in {RR_A, RR_AAAA} -> Plain(rr.data)
         [] rr.type = RR_PTR -> mdns_encode_name(off, rr.data, comp)
         [] rr.type = RR_TXT -> Plain(Strings(rr.data)[Len(rr.data)])
         [] rr.type = RR_SRV ->
                [target EXCEPT !.bytes = u16(0) \o u16(0) \o u16(rr.data.port) \o @]
         [] rr.type = RR_NSEC ->
                [name EXCEPT !.bytes = @ \o <<0, Len(rr.data)>> \o rr.data]

\* The record's length is filled in after its data.
mdns_encode_rr(off, rr, comp) ==
    LET name == mdns_encode_name(off, rr.name, comp)
        fixed == name.bytes \o u16(rr.type) \o <<IF rr.cache_flush THEN 128 ELSE 0, 1>>
                 \o u32(rr.ttl)
        data == EncodeData(off + Len(fixed) + 2, rr, name.comp)
    IN [bytes |-> fixed \o u16(Len(data.bytes)) \o data.bytes, comp |-> data.comp]

Header(reply) == u16(reply.id) \o u16(reply.flags) \o u16(0)
                 \o u16(Len(reply.ans)) \o u16(0) \o u16(Len(reply.add))

\* The packet after each of the records.
Encoded(header, records) ==
    LET pkt[i \in 0..Len(records)] ==
            IF i = 0 THEN [bytes |-> header, comp |-> <<>>]
            ELSE LET p == pkt[i - 1]
                     rr == mdns_encode_rr(Len(p.bytes), records[i], p.comp)
                 IN [bytes |-> p.bytes \o rr.bytes, comp |-> rr.comp]
    IN pkt
mdns_encode_pkt(reply) ==
    LET records == reply.ans \o reply.add
    IN Encoded(Header(reply), records)[Len(records)].bytes

-----------------------------------------------------------------------------
IsPointer(byte) == byte >= 192

\* The label that begins here or is pointed to, and where reading goes on:
\* behind it.
Pointer(pkt, off) == (pkt[off + 1] % 64) * 256 + pkt[off + 2]
LabelPlace(pkt, off) == IF IsPointer(pkt[off + 1]) THEN Pointer(pkt, off) ELSE off
LabelAt(pkt, off) == SubSeq(pkt, off + 2, off + 1 + pkt[off + 1])
Behind(pkt, off) == LabelPlace(pkt, off) + 1 + pkt[LabelPlace(pkt, off) + 1]
Ended(pkt, off) == off >= Len(pkt) \/ pkt[off + 1] = 0

\* A name's walk through the packet.
Walk(pkt, off) ==
    LET hop[j \in 0..Len(pkt)] ==
            IF j = 0 THEN off
            ELSE LET p == hop[j - 1] IN IF Ended(pkt, p) THEN p ELSE Behind(pkt, p)
    IN hop

\* The length of a name's bytes here: it ends in a root or a pointer.
label_len(pkt, off) ==
    LET hop == Walk(pkt, off)
        Stops(k) == Ended(pkt, hop[k]) \/ IsPointer(pkt[hop[k] + 1])
        k == CHOOSE i \in DOMAIN hop : Stops(i) /\ \A j \in 0..i - 1 : ~Stops(j)
    IN hop[k] - off + (IF hop[k] >= Len(pkt) THEN 0
                       ELSE IF pkt[hop[k] + 1] = 0 THEN 1 ELSE 2)

uncompress_nlabel(pkt, off) ==
    LET hop == Walk(pkt, off)
        n == CHOOSE k \in DOMAIN hop :
                 Ended(pkt, hop[k]) /\ \A j \in 0..k - 1 : ~Ended(pkt, hop[j])
    IN IF off >= Len(pkt) THEN Failed
       ELSE [i \in 1..n |-> LabelAt(pkt, LabelPlace(pkt, hop[i - 1]))]

copy_label(pkt, off) ==
    IF off >= Len(pkt) \/ off + pkt[off + 1] + 1 > Len(pkt) THEN Failed
    ELSE dup_label(LabelAt(pkt, off))
NoCopy(pkt, off) ==
    \/ off >= Len(pkt) \/ off + pkt[off + 1] + 1 > Len(pkt)
    \/ pkt[off + 1] + 1 > MaxLabel

\* Where the texts in len bytes of data begin, and the number of texts.
Texts(pkt, off, len) ==
    LET at[j \in 0..len] ==
            IF j = 0 THEN off
            ELSE LET p == at[j - 1] IN IF p >= off + len THEN p ELSE p + 1 + pkt[p + 1]
    IN at
TextCount(pkt, off, len) ==
    LET at == Texts(pkt, off, len)
    IN CHOOSE k \in 0..len : at[k] >= off + len /\ \A j \in 0..k - 1 : at[j] < off + len

\* What is wrong with a record's data, the data of a type that is known, and
\* how far the parser goes: over an address or the texts, or the given length.
ParseError(pkt, off, type, len) ==
    \/ type = RR_A /\ len < 4
    \/ type = RR_AAAA /\ len < 16
    \/ type = RR_PTR /\ off >= Len(pkt)
    \/ type = RR_TXT /\ \E j \in 1..TextCount(pkt, off, len) :
                            NoCopy(pkt, Texts(pkt, off, len)[j - 1])
ParseData(pkt, off, type, len) ==
    LET Address(n) == SubSeq(pkt, off + 1, off + n)
    IN CASE type = RR_A -> Address(4)
         [] type = RR_AAAA -> Address(16)
         [] type = RR_PTR -> uncompress_nlabel(pkt, off)
         [] type = RR_TXT ->
                IF len = 0 THEN <<<<>>>>
                ELSE [j \in 1..TextCount(pkt, off, len) |->
                          copy_label(pkt, Texts(pkt, off, len)[j - 1])]
         [] OTHER -> <<>>
Used(pkt, off, type, len) ==
    CASE type = RR_A -> 4
      [] type = RR_AAAA -> 16
      [] type = RR_TXT -> Texts(pkt, off, len)[TextCount(pkt, off, len)] - off
      [] OTHER -> len

\* A question or record and its length, which is 0 for one that fails.
mdns_parse_qn(pkt, off) ==
    LET name == label_len(pkt, off)
    IN [len |-> name + 4,
        e |-> [name |-> uncompress_nlabel(pkt, off), type |-> read_u16(pkt, off + name),
               unicast_query |-> pkt[off + name + 3] >= 128]]
\* A record whose name ends at the offset at.
RecordAt(pkt, off, at, type, len) ==
    IF off > Len(pkt) \/ at + 10 + len > Len(pkt) \/ ParseError(pkt, at + 10, type, len)
    THEN [len |-> 0, e |-> Failed]
    ELSE [len |-> at + 10 + Used(pkt, at + 10, type, len) - off,
          e |-> [name |-> uncompress_nlabel(pkt, off), type |-> type,
                 ttl |-> read_u32(pkt, at + 4), cache_flush |-> pkt[at + 3] >= 128,
                 data |-> ParseData(pkt, at + 10, type, len)]]
mdns_parse_rr(pkt, off) ==
    LET at == off + label_len(pkt, off)
    IN RecordAt(pkt, off, at, read_u16(pkt, at), read_u16(pkt, at + 8))

\* After each of n questions or records from off; one that fails ends them.
ParsedOne(p, one) ==
    IF p.ok /\ one.len # 0
    THEN [ok |-> TRUE, list |-> Append(p.list, one.e), next |-> p.next + one.len]
    ELSE [p EXCEPT !.ok = FALSE]
ParseMany(pkt, off, n, question) ==
    LET parse[i \in 0..n] ==
            IF i = 0 THEN [ok |-> TRUE, list |-> <<>>, next |-> off]
            ELSE LET p == parse[i - 1]
                 IN ParsedOne(p, IF question THEN mdns_parse_qn(pkt, p.next)
                              ELSE mdns_parse_rr(pkt, p.next))
    IN parse[n]

\* The authority and additional sections are not parsed.
mdns_parse_pkt(pkt) ==
    LET qn == ParseMany(pkt, 12, read_u16(pkt, 4), TRUE)
        ans == ParseMany(pkt, qn.next, read_u16(pkt, 6), FALSE)
    IN IF Len(pkt) < 12 \/ ~qn.ok \/ ~ans.ok THEN Failed
       ELSE [id |-> read_u16(pkt, 0), flags |-> read_u16(pkt, 2),
             qn |-> qn.list, ans |-> ans.list]
=============================================================================
