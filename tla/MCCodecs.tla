------------------------------- MODULE MCCodecs -------------------------------
(***************************************************************************)
(* The pure algorithms against their references.  A state is an input: an  *)
(* ALAC frame that grows by a sample or a DNS message by a record.         *)
(***************************************************************************)
EXTENDS AlacEncoder, DnsReply

CONSTANTS MaxSamples, MaxRecords

VARIABLE frame

\* ALAC: what senders announce (rice history 10, 40, 14), and few samples that
\* are alike, opposite, small and extreme.
Setinfo(n) == [samples |-> n, initial |-> 10, kmodifier |-> 14, mult |-> 40]
Describes == {[rice |-> 4, coef |-> <<>>, quant |-> 9],
              [rice |-> 4, coef |-> <<700, -300>>, quant |-> 9],
              [rice |-> 2, coef |-> <<16>>, quant |-> 4],
              [rice |-> 4, coef |-> [i \in 1..31 |-> 1], quant |-> 9]}
Frames == [channels : {0, 1}, plain : {FALSE}, hassize : BOOLEAN, raw : {0, 1}, shift : {2},
           weight : {0, 3}, a : Describes, b : {[rice |-> 4, coef |-> <<64>>, quant |-> 5]},
           samples : {<<>>}]
    \cup [channels : {0, 1}, plain : {TRUE}, hassize : BOOLEAN, raw : {0}, shift : {0},
          weight : {0}, a : {0}, b : {0}, samples : {<<>>}]
Small == {<<0, 0>>, <<3, 1>>, <<-5, -5>>}
Samples(f) == IF f.raw = 0 THEN Small \cup {<<32767, -32768>>} ELSE Small

\* DNS: a host "h.l", services "i.t.l" and "j.t.l" of type "t.l", a name as long
\* as labels may be, and an instance with a dot in its name.
HostName == create_nlabel(<<104, Dot, 108>>)
TypeName == create_nlabel(<<116, Dot, 108>>)
One == join_nlabel(create_label(<<105>>), TypeName)
Two == join_nlabel(create_label(<<106, 106>>), TypeName)
Dotted == join_nlabel(create_label(<<106, Dot>>), HostName)
Longest == join_nlabel(create_label(<<99, 100, 101, 102>>), HostName)
RR(n, t, flush, d) == [name |-> n, type |-> t, ttl |-> 120, cache_flush |-> flush, data |-> d]
SomeIds == {258}
SomeRecords ==
    {RR(HostName, RR_A, TRUE, <<192, 168, 0, 1>>),
     RR(HostName, RR_AAAA, TRUE, [i \in 1..16 |-> i]),
     RR(TypeName, RR_PTR, FALSE, One), RR(TypeName, RR_PTR, FALSE, Two),
     RR(One, RR_SRV, TRUE, [port |-> 5002, target |-> HostName]),
     RR(Two, RR_TXT, TRUE, <<<<97>>, <<>>, <<98, 99, 100>>>>),
     RR(Longest, RR_PTR, FALSE, Dotted),
     RR(HostName, RR_NSEC, TRUE, <<64, 0, 0, 8, 0>>)}

NoFrame == [samples |-> <<>>]

Init == frame \in Frames \cup {NoFrame} /\ MessageInit
AddSample ==
    /\ frame # NoFrame /\ Len(frame.samples) < MaxSamples
    /\ \E p \in Samples(frame) : frame' = [frame EXCEPT !.samples = Append(@, p)]
    /\ UNCHANGED message
AddRecord ==
    /\ frame = NoFrame /\ Len(message.ans \o message.add) < MaxRecords
    /\ rr_list_append
    /\ UNCHANGED frame
Next == AddSample \/ AddRecord
Spec == Init /\ [][Next]_<<frame, message>>

-----------------------------------------------------------------------------
\* Long enough for the predictor's first samples, which run past a shorter
\* frame's buffer (alac.c 471-484).
LongEnough(f) ==
    /\ Len(f.samples) > 1
    /\ ~f.plain /\ Len(f.a.coef) # 31 => Len(f.samples) > Len(f.a.coef)

\* Decoding is lossless: of what a reference encoder writes, in one channel or
\* two, coded or plain, mixed or not, with blocks of zeros, values too large
\* for a prefix and coefficients that adapt, the decoder (alac.c 139-1110)
\* returns every sample.  One channel fills the left samples only.
FramesLossless ==
    frame # NoFrame =>
    LET n == Len(frame.samples)
        mono(p) == <<p[1], Stale>>
    IN LongEnough(frame) =>
       alac_decode_frame(Encode(frame, Setinfo(8)), Setinfo(IF frame.hassize THEN 8 ELSE n))
           = [i \in 1..n |-> IF frame.channels = 1 THEN frame.samples[i]
                             ELSE mono(frame.samples[i])]
=============================================================================
