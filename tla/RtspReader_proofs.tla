--------------------------- MODULE RtspReader_proofs ---------------------------
(***************************************************************************)
(* What rtsp_read_request makes of a connection's bytes, for every size of *)
(* the buffer, every request and every way to split it over reads.         *)
(*                                                                         *)
(* Stream is what is in the buffer and what is still to be read, as one    *)
(* sequence.  A read moves the border between the two and changes nothing; *)
(* a line that is handled goes from the front.  So the invariant says what *)
(* the stream is: what is left of older requests and then one whole        *)
(* request (BeforeLine); the rest of a request from some header on         *)
(* (InHeaders), or headers for ever (InLimbo); or its body (InBody).  It   *)
(* needs to know beside it where the valid bytes end (InRoom) and which CR *)
(* was cut off its LF (CutKnown).                                          *)
(***************************************************************************)
EXTENDS RtspReader, SequenceTheorems, FiniteSetTheorems, TLAPS

\* Every non-empty set of natural numbers has a least element.
LEMMA Least == ASSUME NEW T, T \subseteq Nat, T # {}
               PROVE  \E x \in T : \A y \in T : x <= y
<1> DEFINE F == {0..n : n \in T}
<1>1. F \subseteq FiniteSubsetsOf(Nat) /\ F # {}
  <2>1. \A n \in T : 0..n \in FiniteSubsetsOf(Nat)
    BY FS_Interval DEF FiniteSubsetsOf
  <2> QED BY <2>1
<1>2. IsWellFoundedOn(StrictSubsetOrdering(Nat), FiniteSubsetsOf(Nat))
  BY FS_StrictSubsetOrderingWellFounded
<1>3. \E x \in F : \A y \in F : ~ (<<y, x>> \in StrictSubsetOrdering(Nat))
  <2> HIDE DEF F
  <2> QED BY <1>1, <1>2, WFMin
<1>4. PICK m \in T : \A n \in T : ~ (<<0..n, 0..m>> \in StrictSubsetOrdering(Nat))
  BY <1>3
<1>5. ASSUME NEW n \in T, n < m PROVE FALSE
  <2>1. 0..n \subseteq 0..m /\ 0..n # 0..m
    <3>1. m \in 0..m /\ m \notin 0..n
      BY <1>5
    <3> QED BY <1>5, <3>1
  <2>2. <<0..n, 0..m>> \in StrictSubsetOrdering(Nat)
    BY <2>1 DEF StrictSubsetOrdering
  <2> QED BY <1>4, <2>2
<1> QED BY <1>5

-----------------------------------------------------------------------------
\* A line ends with a CR, an LF, or both.
LEMMA EndTypes ==
    ASSUME NEW e \in LineEnds
    PROVE  /\ e \in Seq(Sendable)
           /\ Len(e) \in {1, 2} /\ e[1] \in {"cr", "lf"}
           /\ e \in {<<"cr">>, <<"lf">>, <<"cr", "lf">>}
<1>1. e \in {<<"cr">>, <<"lf">>, <<"cr", "lf">>}
  BY ReaderAssumption
<1>2. CASE e = <<"cr">>
  BY <1>2 DEF Sendable
<1>3. CASE e = <<"lf">>
  BY <1>3 DEF Sendable
<1>4. CASE e = <<"cr", "lf">>
  BY <1>4 DEF Sendable
<1> QED BY <1>1, <1>2, <1>3, <1>4

\* A request has a header, or more, and a body of bytes a client may send.
LEMMA RequestTypes ==
    ASSUME NEW r \in Requests
    PROVE  /\ r.headers \in Seq({"hdr", "cl", "long"}) /\ Len(r.headers) \in Nat \ {0}
           /\ r.body \in Seq(Sendable) /\ r.length \in Nat \cup {-1}
           /\ r # NoRequest
BY ReaderAssumption DEF NoRequest

\* A header's text is its symbol, once or, if it is long, a buffer full.
LEMMA TextType ==
    ASSUME NEW h \in {"hdr", "cl", "long"}
    PROVE  /\ Text(h) \in Seq(Sendable)
           /\ Len(Text(h)) = IF h = "long" THEN Size ELSE 1
           /\ \A i \in 1..Len(Text(h)) : Text(h)[i] = h
BY ReaderAssumption DEF Text, Sendable

\* The equation of Rest at one header, for a table f of what follows.
RestAt(r, e, f, k) == IF k > Len(r.headers) THEN e \o r.body
                      ELSE Text(r.headers[k]) \o e \o f[k + 1]
RestTables(r) == [1..Len(r.headers) + 1 -> Seq(Sendable)]

\* One header more of what follows is bytes again.
LEMMA RestAtType ==
    ASSUME NEW r \in Requests, NEW e \in LineEnds, NEW k \in 1..Len(r.headers) + 1, NEW f,
           k <= Len(r.headers) => f[k + 1] \in Seq(Sendable)
    PROVE  RestAt(r, e, f, k) \in Seq(Sendable)
<1>1. CASE k > Len(r.headers)
  BY <1>1, RequestTypes, EndTypes, ConcatProperties DEF RestAt
<1>2. CASE ~(k > Len(r.headers))
  <2>1. k \in 1..Len(r.headers)
    BY <1>2, RequestTypes
  <2>2. r.headers[k] \in {"hdr", "cl", "long"}
    BY <2>1, RequestTypes, ElementOfSeq
  <2>3. Text(r.headers[k]) \in Seq(Sendable)
    BY <2>2, TextType
  <2>4. e \o f[k + 1] \in Seq(Sendable)
    BY <2>1, EndTypes, ConcatProperties
  <2>5. Text(r.headers[k]) \o e \in Seq(Sendable)
    BY <2>3, EndTypes, ConcatProperties
  <2>6. (Text(r.headers[k]) \o e) \o f[k + 1] \in Seq(Sendable)
    BY <2>1, <2>5, ConcatProperties
  <2> QED BY <1>2, <2>6 DEF RestAt
<1> QED BY <1>1, <1>2

\* Such a table can be filled in from the end.
LEMMA RestExists ==
    ASSUME NEW r \in Requests, NEW e \in LineEnds
    PROVE  \E f \in RestTables(r) : \A k \in 1..Len(r.headers) + 1 : f[k] = RestAt(r, e, f, k)
<1> DEFINE n == Len(r.headers)
           Filled(f, t) == \A k \in n + 1 - t..n + 1 : f[k] = RestAt(r, e, f, k)
           Missing == {t \in 0..n : ~ \E f \in RestTables(r) : Filled(f, t)}
<1>1. n \in Nat
  BY RequestTypes
<1>2. 0 \notin Missing
  <2> DEFINE f == [k \in 1..n + 1 |-> e \o r.body]
  <2>1. f \in RestTables(r)
    BY RequestTypes, EndTypes, ConcatProperties DEF RestTables
  <2>2. Filled(f, 0)
    BY <1>1 DEF RestAt
  <2> HIDE DEF f
  <2> QED BY <1>1, <2>1, <2>2
<1>3. ASSUME NEW t \in 1..n, t \in Missing, t - 1 \notin Missing PROVE FALSE
  <2>1. t - 1 \in 0..n
    BY <1>1
  <2>2. PICK g \in RestTables(r) : Filled(g, t - 1)
    BY <1>3, <2>1
  <2> DEFINE m == n + 1 - t
             f == [g EXCEPT ![m] = RestAt(r, e, g, m)]
  <2>3. m \in 1..n /\ n + 1 - (t - 1) = m + 1
    BY <1>1
  <2>4. f \in RestTables(r)
    <3>1. m \in 1..n + 1 /\ g[m + 1] \in Seq(Sendable)
      BY <1>1, <2>3 DEF RestTables
    <3> HIDE DEF m
    <3>2. RestAt(r, e, g, m) \in Seq(Sendable)
      BY <3>1, RestAtType
    <3> QED BY <3>2 DEF RestTables
  <2>5. \A k \in m..n + 1 : RestAt(r, e, f, k) = RestAt(r, e, g, k)
    BY <1>1, <2>3 DEF RestAt, RestTables
  <2>6. \A k \in m..n + 1 : f[k] = RestAt(r, e, g, k)
    BY <1>1, <2>2, <2>3 DEF RestTables
  <2>7. Filled(f, t)
    BY <2>5, <2>6
  <2> QED BY <1>3, <2>4, <2>7
<1>4. Missing = {}
  <2> SUFFICES ASSUME Missing # {} PROVE FALSE
    OBVIOUS
  <2>1. PICK t \in Missing : \A u \in Missing : t <= u
    <3>1. Missing \subseteq Nat
      BY <1>1
    <3> HIDE DEF Missing
    <3> QED BY <3>1, Least
  <2>2. t \in 1..n /\ t - 1 \notin Missing
    <3>1. t \in 0..n /\ t # 0
      BY <1>2
    <3>2. t - 1 \notin Missing
      <4> HIDE DEF Missing
      <4> QED BY <1>1, <2>1, <3>1
    <3> QED BY <1>1, <3>1, <3>2
  <2> QED BY <1>3, <2>2
<1>5. PICK f \in RestTables(r) : Filled(f, n)
  BY <1>1, <1>4
<1>6. n + 1 - n = 1
  BY <1>1
<1> QED BY <1>5, <1>6

\* So Rest satisfies its equations, and is made of what clients send.
LEMMA RestEquations ==
    ASSUME NEW r \in Requests, NEW e \in LineEnds
    PROVE  /\ Rest(r, e)[Len(r.headers) + 1] = e \o r.body
           /\ \A k \in 1..Len(r.headers) :
                Rest(r, e)[k] = Text(r.headers[k]) \o e \o Rest(r, e)[k + 1]
           /\ \A k \in 1..Len(r.headers) + 1 : Rest(r, e)[k] \in Seq(Sendable)
<1> DEFINE n == Len(r.headers)
           Eq(f) == f = [k \in 1..n + 1 |-> RestAt(r, e, f, k)]
<1>1. n \in Nat
  BY RequestTypes
<1>2. \E f : Eq(f)
  <2>1. PICK f \in RestTables(r) : \A k \in 1..n + 1 : f[k] = RestAt(r, e, f, k)
    BY RestExists
  <2>2. f = [k \in 1..n + 1 |-> f[k]]
    BY DEF RestTables
  <2>3. Eq(f)
    BY <2>1, <2>2
  <2> QED BY <2>3
<1>3. Rest(r, e) = CHOOSE f : Eq(f)
  BY DEF Rest, RestAt
<1>4. Eq(Rest(r, e))
  <2> HIDE DEF Eq
  <2> QED BY <1>2, <1>3
<1>5. \A k \in 1..n + 1 : Rest(r, e)[k] = RestAt(r, e, Rest(r, e), k)
  BY <1>4
<1> DEFINE Ill == {t \in 0..n : Rest(r, e)[n + 1 - t] \notin Seq(Sendable)}
<1>6. Ill = {}
  <2> SUFFICES ASSUME Ill # {} PROVE FALSE
    OBVIOUS
  <2>1. PICK t \in Ill : \A u \in Ill : t <= u
    <3>1. Ill \subseteq Nat
      BY <1>1
    <3> HIDE DEF Ill
    <3> QED BY <3>1, Least
  <2> DEFINE k == n + 1 - t
  <2>2. k \in 1..n + 1
    BY <1>1
  <2>3. ASSUME k <= n PROVE Rest(r, e)[k + 1] \in Seq(Sendable)
    <3>1. t \in 0..n /\ t - 1 \in 0..n /\ n + 1 - (t - 1) = k + 1
      BY <1>1, <2>3
    <3>2. t - 1 \notin Ill
      <4> HIDE DEF Ill
      <4> QED BY <2>1, <3>1
    <3> QED BY <3>1, <3>2
  <2> HIDE DEF k
  <2>4. Rest(r, e)[k] \in Seq(Sendable)
    BY <1>5, <2>2, <2>3, RestAtType
  <2> QED BY <2>4 DEF k
<1>7. ASSUME NEW k \in 1..n + 1 PROVE Rest(r, e)[k] \in Seq(Sendable)
  <2>1. n + 1 - k \in 0..n /\ n + 1 - (n + 1 - k) = k
    BY <1>1
  <2> QED BY <1>6, <2>1
<1> HIDE DEF Eq, Ill
<1>8. Rest(r, e)[n + 1] = e \o r.body
  <2>1. n + 1 \in 1..n + 1 /\ n + 1 > n
    BY <1>1
  <2> QED BY <1>5, <2>1 DEF RestAt
<1>9. ASSUME NEW k \in 1..n
      PROVE  Rest(r, e)[k] = Text(r.headers[k]) \o e \o Rest(r, e)[k + 1]
  <2>1. k \in 1..n + 1 /\ ~(k > n)
    BY <1>1
  <2> QED BY <1>5, <2>1 DEF RestAt
<1> QED BY <1>7, <1>8, <1>9

-----------------------------------------------------------------------------
Readable == Sendable \cup {"line"}
Bytes == Readable \cup {"nul", "?"}

\* The first k elements of m, and then n.
Joined(m, k, n) == [i \in 1..k + Len(n) |-> IF i <= k THEN m[i] ELSE n[i - k]]

Valid(m, k) == \A i \in 1..k : m[i] \in Readable

\* What was there stays in its place, and what is read comes after it.
LEMMA JoinedIs ==
    ASSUME NEW m, NEW k \in Nat, NEW n \in Seq(Readable)
    PROVE  /\ Len(Joined(m, k, n)) = k + Len(n) /\ Len(n) \in Nat /\ k + Len(n) \in Nat
           /\ \A i \in 1..k : Joined(m, k, n)[i] = m[i]
           /\ \A i \in 1..Len(n) : Joined(m, k, n)[k + i] = n[i]
           /\ Valid(m, k) => Joined(m, k, n) \in Seq(Readable)
<1>1. Len(n) \in Nat /\ \A i \in 1..Len(n) : n[i] \in Readable
  BY LenProperties, ElementOfSeq
<1>2. Valid(m, k) => \A i \in 1..k + Len(n) : Joined(m, k, n)[i] \in Readable
  BY <1>1 DEF Joined, Valid
<1> QED BY <1>1, <1>2 DEF Joined

\* The bytes that are in the buffer and those still to be read.
Stream == Joined(mem, inbuf, net)

ReaderTypeOK ==
    /\ net \in Seq(Readable)
    /\ sent \in Requests \cup {NoRequest}
    /\ place \in {"test", "read", "parse", "body", "handle", "closed", "crash"}
    /\ mem \in Seq(Bytes) /\ inbuf \in Int
    /\ msg \in [method : {"none", "known", "unknown"}, headers : Seq({"hdr", "cl"})]
    /\ msg_size \in Nat \cup {-1}
    /\ accidents \in SUBSET {"cut", "headers", "four", "left", "length"}

\* Where the valid bytes end, and that all of them have been read.
InRoom ==
    /\ place # "crash" => inbuf \in 0..Len(mem)
    /\ place \in {"test", "read", "parse"} => Len(mem) = Size + 1 /\ inbuf <= Size
    /\ place \in {"test", "read"} => msg_size = -1
    /\ place \in {"body", "handle"} => msg_size \in 0..Len(mem)
    /\ place = "handle" => inbuf >= msg_size
    /\ ~Ended => \A i \in 1..inbuf : mem[i] \in Readable
    /\ Len(msg.headers) <= MaxHeaders

\* The buffer is empty at the start.
LEMMA InitRoom == Init => ReaderTypeOK /\ InRoom
<1> SUFFICES ASSUME Init PROVE ReaderTypeOK /\ InRoom
  OBVIOUS
<1>1. Size \in Nat \ {0} /\ MaxHeaders \in Nat
  BY ReaderAssumption
<1>2. /\ mem \in Seq(Bytes) /\ Len(mem) = Size + 1
  BY <1>1 DEF Init, Fresh, Bytes
<1>3. /\ <<>> \in Seq(Readable) /\ <<>> \in Seq({"hdr", "cl"}) /\ Len(<<>>) = 0
  OBVIOUS
<1>4. ReaderTypeOK
  BY <1>2, <1>3 DEF ReaderTypeOK, Init, NoMsg
<1>5. InRoom
  BY <1>1, <1>2, <1>3 DEF InRoom, Init, Ended, NoMsg
<1> QED BY <1>4, <1>5

\* What a request adds to the network's bytes.
LEMMA SentType ==
    ASSUME NEW r \in Requests, NEW e \in LineEnds
    PROVE  /\ e \o Rest(r, e)[1] \in Seq(Sendable)
           /\ Rest(r, e)[1] \in Seq(Sendable)
<1>1. Rest(r, e)[1] \in Seq(Sendable)
  <2>1. 1 \in 1..Len(r.headers) + 1
    BY RequestTypes
  <2> QED BY <2>1, RestEquations
<1> QED BY <1>1, EndTypes, ConcatProperties

\* A client puts one whole request on the wire.
LEMMA SendNet ==
    ASSUME ReaderTypeOK, Send
    PROVE  \E r \in Requests, e \in LineEnds :
             /\ sent' = r
             /\ net' = net \o (<<"line">> \o (e \o Rest(r, e)[1]))
             /\ <<"line">> \o (e \o Rest(r, e)[1]) \in Seq(Readable)
             /\ net' \in Seq(Readable)
<1>1. PICK r \in Requests, e \in LineEnds :
        /\ sent' = r
        /\ net' = net \o <<"line">> \o e \o Rest(r, e)[1]
  BY DEF Send
<1> DEFINE t == Rest(r, e)[1]
<1>2. /\ t \in Seq(Readable) /\ e \in Seq(Readable) /\ <<"line">> \in Seq(Readable)
      /\ net \in Seq(Readable) /\ e \o t \in Seq(Readable)
  <2>1. Sendable \subseteq Readable /\ "line" \in Readable
    BY DEF Readable
  <2>2. t \in Seq(Readable) /\ e \in Seq(Readable)
    BY <2>1, SentType, EndTypes, SeqMonotonic
  <2> HIDE DEF t
  <2> QED BY <2>1, <2>2, ConcatProperties DEF ReaderTypeOK
<1> HIDE DEF t
<1>3. net \o <<"line">> \in Seq(Readable) /\ <<"line">> \o (e \o t) \in Seq(Readable)
  BY <1>2, ConcatProperties
<1>4. net \o <<"line">> \o e \o t = net \o (<<"line">> \o (e \o t))
  <2>1. (net \o <<"line">> \o e) \o t = (net \o <<"line">>) \o (e \o t)
    BY <1>2, <1>3, ConcatAssociative
  <2>2. (net \o <<"line">>) \o (e \o t) = net \o (<<"line">> \o (e \o t))
    BY <1>2, ConcatAssociative
  <2> QED BY <2>1, <2>2
<1>5. net' = net \o (<<"line">> \o (e \o t))
  BY <1>1, <1>4 DEF t
<1>6. net' \in Seq(Readable)
  BY <1>2, <1>3, <1>5, ConcatProperties
<1> QED BY <1>1, <1>3, <1>5, <1>6 DEF t

\* A read of k bytes appends them to the valid ones.
LEMMA ReadStores ==
    ASSUME ReaderTypeOK, inbuf \in 0..Len(mem), NEW k \in 1..Len(net), inbuf + k <= Len(mem)
    PROVE  /\ Store(k) \in Seq(Bytes) /\ Len(Store(k)) = Len(mem)
           /\ \A i \in 1..Len(mem) : Store(k)[i] =
                 IF i \in inbuf + 1..inbuf + k THEN net[i - inbuf] ELSE mem[i]
           /\ SubSeq(net, k + 1, Len(net)) \in Seq(Readable)
           /\ Len(SubSeq(net, k + 1, Len(net))) = Len(net) - k
           /\ \A i \in 1..Len(net) - k : SubSeq(net, k + 1, Len(net))[i] = net[k + i]
<1>1. /\ net \in Seq(Readable) /\ Len(net) \in Nat
      /\ mem \in Seq(Bytes) /\ Len(mem) \in Nat /\ DOMAIN mem = 1..Len(mem)
      /\ Readable \subseteq Bytes
  BY LenProperties DEF ReaderTypeOK, Bytes
<1>2. \A i \in 1..Len(net) : net[i] \in Readable
  BY <1>1, ElementOfSeq
<1>3. \A i \in 1..Len(mem) : mem[i] \in Bytes
  BY <1>1, ElementOfSeq
<1>4. \A i \in 1..Len(mem) : Store(k)[i] =
          IF i \in inbuf + 1..inbuf + k THEN net[i - inbuf] ELSE mem[i]
  BY <1>1 DEF Store
<1>5. \A i \in 1..Len(mem) : Store(k)[i] \in Bytes
  BY <1>1, <1>2, <1>3, <1>4
<1>6. Store(k) \in Seq(Bytes) /\ Len(Store(k)) = Len(mem)
  BY <1>1, <1>5 DEF Store
<1> DEFINE m == k + 1
<1>7. m \in Int /\ \A i \in m..Len(net) : net[i] \in Readable
  BY <1>1, <1>2
<1>8. /\ SubSeq(net, m, Len(net)) \in Seq(Readable)
      /\ Len(SubSeq(net, m, Len(net))) = IF m <= Len(net) THEN Len(net) - m + 1 ELSE 0
      /\ \A i \in 1..Len(net) - m + 1 : SubSeq(net, m, Len(net))[i] = net[m + i - 1]
  <2> HIDE DEF m
  <2> QED BY <1>1, <1>7, SubSeqProperties
<1> QED BY <1>1, <1>4, <1>6, <1>8

-----------------------------------------------------------------------------
\* nextline finds the first line end of the valid bytes.
LEMMA FirstEndIs ==
    ASSUME ReaderTypeOK, InRoom, place = "parse", LineEndsAt # {}
    PROVE  /\ FirstEnd \in 1..inbuf /\ mem[FirstEnd] \in {"cr", "lf"}
           /\ \A i \in 1..FirstEnd - 1 : mem[i] \notin {"cr", "lf"}
           /\ FirstEnd = inbuf => LineEndsAt = {inbuf}
           /\ FirstLine \in Seq(Readable) /\ Len(FirstLine) = FirstEnd - 1
           /\ \A i \in 1..FirstEnd - 1 : FirstLine[i] = mem[i]
<1>1. inbuf \in Nat
  BY LenProperties DEF InRoom, ReaderTypeOK
<1>2. \E i \in LineEndsAt : \A j \in LineEndsAt : i <= j
  <2>1. LineEndsAt \subseteq Nat
    BY <1>1 DEF LineEndsAt
  <2> QED BY <2>1, Least
<1>3. FirstEnd \in LineEndsAt /\ \A j \in LineEndsAt : FirstEnd <= j
  BY <1>2 DEF FirstEnd
<1>4. FirstEnd \in 1..inbuf /\ mem[FirstEnd] \in {"cr", "lf"}
  BY <1>3 DEF LineEndsAt
<1>5. \A i \in 1..FirstEnd - 1 : mem[i] \notin {"cr", "lf"}
  BY <1>1, <1>3, <1>4 DEF LineEndsAt
<1>6. FirstEnd = inbuf => LineEndsAt = {inbuf}
  BY <1>1, <1>3, <1>4 DEF LineEndsAt
<1> DEFINE n == FirstEnd - 1
<1>7. n \in Int /\ \A i \in 1..n : mem[i] \in Readable
  BY <1>1, <1>4 DEF InRoom, Ended
<1>8. /\ SubSeq(mem, 1, n) \in Seq(Readable)
      /\ Len(SubSeq(mem, 1, n)) = IF 1 <= n THEN n - 1 + 1 ELSE 0
      /\ \A i \in 1..n - 1 + 1 : SubSeq(mem, 1, n)[i] = mem[1 + i - 1]
  <2> HIDE DEF n
  <2> QED BY <1>7, SubSeqProperties
<1>9. /\ FirstLine \in Seq(Readable) /\ Len(FirstLine) = FirstEnd - 1
      /\ \A i \in 1..FirstEnd - 1 : FirstLine[i] = mem[i]
  BY <1>1, <1>4, <1>8 DEF FirstLine
<1> QED BY <1>4, <1>5, <1>6, <1>9

\* A CR that ends the valid bytes and is handled as the end of a line is known
\* to be cut from an LF, if one follows in the network; or, if it is the only
\* line end there is, in old memory.
CutKnown ==
    /\ place = "parse" /\ msg_size < 0 /\ inbuf > 0 /\ mem[inbuf] = "cr"
    /\ Understood(FirstLine)
    /\ \/ net # <<>> /\ net[1] = "lf"
       \/ LineEndsAt = {inbuf} /\ mem[inbuf + 1] \in {"lf", "?"}
    => "cut" \in accidents
CrashKnown == place = "crash" => "cut" \in accidents /\ sent # NoRequest

\* The line goes, with the one or two bytes that end it.
LEMMA NextIs ==
    ASSUME ReaderTypeOK, InRoom, place = "parse", LineEndsAt # {}, NEW next \in NextLines
    PROVE  /\ next \in {FirstEnd + 1, FirstEnd + 2}
           /\ next = FirstEnd + 2 =>
                 mem[FirstEnd] = "cr" /\ mem[FirstEnd + 1] \in {"lf", "?"}
           /\ next = FirstEnd + 1 /\ mem[FirstEnd] = "cr" => mem[FirstEnd + 1] # "lf"
<1>1. FirstEnd \in Nat
  BY FirstEndIs, LenProperties DEF ReaderTypeOK, InRoom
<1> QED BY <1>1 DEF NextLines

\* A length below zero comes of an LF that was cut off its CR.
LEMMA ParseCuts ==
    ASSUME ReaderTypeOK, InRoom, CutKnown, ParseLine, inbuf' < 0
    PROVE  "cut" \in accidents
<1>1. PICK next \in NextLines : inbuf' = inbuf - next + 1
  BY DEF ParseLine
<1>2. /\ place = "parse" /\ LineEndsAt # {} /\ Understood(FirstLine) /\ msg_size < 0
  BY DEF ParseLine
<1>3. /\ FirstEnd \in 1..inbuf /\ inbuf \in Nat
      /\ next \in {FirstEnd + 1, FirstEnd + 2}
  BY <1>2, FirstEndIs, NextIs, LenProperties DEF ReaderTypeOK, InRoom
<1>4. next = FirstEnd + 2 /\ FirstEnd = inbuf
  BY <1>1, <1>3
<1>5. mem[inbuf] = "cr" /\ mem[inbuf + 1] \in {"lf", "?"} /\ LineEndsAt = {inbuf}
  BY <1>2, <1>4, NextIs, FirstEndIs
<1> QED BY <1>2, <1>3, <1>5 DEF CutKnown

\* What is left in the buffer.
LEMMA ParseMoves ==
    ASSUME ReaderTypeOK, InRoom, ParseLine
    PROVE  /\ mem' \in Seq(Bytes) /\ Len(mem') = Len(mem)
           /\ \E next \in NextLines :
                /\ inbuf' = inbuf - next + 1
                /\ \A i \in 1..inbuf' : i + next - 1 \in 1..inbuf /\ mem'[i] = mem[i + next - 1]
                /\ \A i \in inbuf' + 1..Len(mem) : i > 0 =>
                     /\ mem'[i] \in {mem[i], "nul"}
                     /\ mem'[i] \in {"lf", "?"} => i < FirstEnd \/ i >= next
<1>1. PICK next \in NextLines :
        /\ inbuf' = inbuf - next + 1
        /\ mem' = [i \in DOMAIN mem |->
                     IF i <= inbuf' THEN mem[i + next - 1]
                     ELSE IF i < FirstEnd \/ i >= next
                          THEN IF mem[i] \in {"lf", "?"} THEN mem[i] ELSE "nul"
                          ELSE "nul"]
  BY DEF ParseLine
<1>2. /\ DOMAIN mem = 1..Len(mem) /\ Len(mem) \in Nat
      /\ \A i \in 1..Len(mem) : mem[i] \in Bytes
      /\ inbuf \in 0..Len(mem) /\ "nul" \in Bytes
  BY LenProperties, ElementOfSeq DEF ReaderTypeOK, InRoom, ParseLine, Bytes
<1>3. FirstEnd \in 1..inbuf /\ next \in {FirstEnd + 1, FirstEnd + 2}
  BY FirstEndIs, NextIs DEF ParseLine
<1>4. \A i \in 1..inbuf' : i + next - 1 \in 1..inbuf /\ mem'[i] = mem[i + next - 1]
  BY <1>1, <1>2, <1>3
<1>5. \A i \in inbuf' + 1..Len(mem) : i > 0 =>
                     /\ mem'[i] \in {mem[i], "nul"}
                     /\ mem'[i] \in {"lf", "?"} => i < FirstEnd \/ i >= next
  BY <1>1, <1>2, <1>3
<1>6. \A i \in 1..Len(mem) : mem'[i] \in Bytes
  <2> SUFFICES ASSUME NEW i \in 1..Len(mem) PROVE mem'[i] \in Bytes
    OBVIOUS
  <2>1. CASE i <= inbuf'
    BY <1>2, <1>4, <2>1, <1>1, <1>3
  <2>2. CASE ~(i <= inbuf')
    BY <1>1, <1>2, <2>2
  <2> QED BY <2>1, <2>2
<1>7. mem' \in Seq(Bytes) /\ Len(mem') = Len(mem)
  BY <1>1, <1>2, <1>6
<1> QED BY <1>1, <1>4, <1>5, <1>7

\* msg_handle_line adds one header at most, if there is room.
LEMMA HandleType ==
    ASSUME ReaderTypeOK, InRoom, NEW text, HandleLine(text)
    PROVE  /\ msg' \in [method : {"none", "known", "unknown"}, headers : Seq({"hdr", "cl"})]
           /\ msg_size' \in Nat \cup {-1} /\ Len(msg'.headers) <= MaxHeaders
           /\ accidents \subseteq accidents' /\ accidents' \subseteq accidents \cup {"headers", "length"}
<1>1. CASE msg.method = "none" /\ msg' = [msg EXCEPT !.method = Method(text)]
           /\ UNCHANGED <<msg_size, accidents>>
  BY <1>1 DEF ReaderTypeOK, InRoom, Method
<1>2. CASE /\ msg.method # "none" /\ text \in {<<"hdr">>, <<"cl">>}
           /\ msg' = AddHeader(Head(text))
           /\ accidents' = IF Len(msg.headers) < MaxHeaders THEN accidents
                           ELSE accidents \cup {"headers"}
           /\ UNCHANGED msg_size
  <2>1. Head(text) \in {"hdr", "cl"}
    BY <1>2
  <2> DEFINE h == msg.headers
  <2>2. h \in Seq({"hdr", "cl"}) /\ Len(h) \in Nat /\ MaxHeaders \in Nat
    BY LenProperties, ReaderAssumption DEF ReaderTypeOK
  <2>3. CASE Len(h) < MaxHeaders
    <3>1. msg' = [msg EXCEPT !.headers = Append(h, Head(text))]
      BY <1>2, <2>3 DEF AddHeader, ReaderTypeOK
    <3>2. Append(h, Head(text)) \in Seq({"hdr", "cl"}) /\ Len(Append(h, Head(text))) = Len(h) + 1
      BY <2>1, <2>2
    <3>3. msg' \in [method : {"none", "known", "unknown"}, headers : Seq({"hdr", "cl"})]
      BY <3>1, <3>2 DEF ReaderTypeOK
    <3>4. Len(msg'.headers) = Len(h) + 1
      BY <3>1, <3>2 DEF ReaderTypeOK
    <3> HIDE DEF h
    <3>5. msg_size' \in Nat \cup {-1} /\ accidents' = accidents
      BY <1>2, <2>3 DEF ReaderTypeOK, h
    <3> QED BY <2>2, <2>3, <3>3, <3>4, <3>5
  <2>4. CASE ~(Len(h) < MaxHeaders)
    <3>1. msg' = msg
      BY <1>2, <2>4 DEF AddHeader, ReaderTypeOK
    <3> QED BY <1>2, <2>4, <3>1 DEF ReaderTypeOK, InRoom
  <2> QED BY <2>3, <2>4
<1>3. CASE /\ msg_size' = Declared
           /\ accidents' = IF Declared = Len(sent.body) THEN accidents
                           ELSE accidents \cup {"length"}
           /\ UNCHANGED msg
  <2>1. sent.length \in Nat \cup {-1}
    <3>1. CASE sent \in Requests
      BY <3>1, RequestTypes
    <3>2. CASE sent = NoRequest
      BY <3>2 DEF NoRequest
    <3> QED BY <3>1, <3>2 DEF ReaderTypeOK
  <2>2. Declared \in Nat \cup {-1}
    BY <2>1 DEF Declared
  <2> QED BY <1>3, <2>2 DEF ReaderTypeOK, InRoom
<1> QED BY <1>1, <1>2, <1>3 DEF HandleLine

\* A line is taken out of the buffer, and the rest of it moved to the front.
LEMMA ParseRoom ==
    ASSUME ReaderTypeOK, InRoom, ParseLine
    PROVE  ReaderTypeOK' /\ InRoom'
<1>1. /\ mem' \in Seq(Bytes) /\ Len(mem') = Len(mem) /\ Len(mem) = Size + 1 /\ inbuf <= Size
      /\ inbuf \in Nat /\ Size \in Nat
  BY ParseMoves, LenProperties, ReaderAssumption DEF ParseLine, InRoom, ReaderTypeOK
<1>2. PICK next \in NextLines :
                /\ inbuf' = inbuf - next + 1
                /\ \A i \in 1..inbuf' : i + next - 1 \in 1..inbuf /\ mem'[i] = mem[i + next - 1]
  BY ParseMoves
<1>3. FirstEnd \in 1..inbuf /\ next \in {FirstEnd + 1, FirstEnd + 2}
  BY FirstEndIs, NextIs DEF ParseLine
<1>4. inbuf' \in Int /\ inbuf' <= inbuf
  BY <1>1, <1>2, <1>3
<1>5. /\ msg' \in [method : {"none", "known", "unknown"}, headers : Seq({"hdr", "cl"})]
      /\ msg_size' \in Nat \cup {-1} /\ Len(msg'.headers) <= MaxHeaders
      /\ accidents' \subseteq accidents \cup {"headers", "length"}
  BY HandleType DEF ParseLine
<1>6. /\ place' = IF inbuf' < 0 THEN "crash" ELSE "parse"
      /\ UNCHANGED <<net, sent>>
  BY DEF ParseLine, client
<1>7. ReaderTypeOK'
  BY <1>1, <1>4, <1>5, <1>6 DEF ReaderTypeOK
<1>8. \A i \in 1..inbuf' : mem'[i] \in Readable
  BY <1>2 DEF InRoom, ParseLine, Ended
<1>9. InRoom'
  BY <1>1, <1>4, <1>5, <1>6, <1>8 DEF InRoom
<1> QED BY <1>7, <1>9

\* A read asks for no more than there is room for.
LEMMA ReadRoom ==
    ASSUME ReaderTypeOK, InRoom, ReadHead \/ ReadBody
    PROVE  ReaderTypeOK' /\ InRoom'
<1>0. /\ inbuf \in 0..Len(mem) /\ Len(mem) \in Nat /\ Size \in Nat /\ Len(net) \in Nat
      /\ Readable \subseteq Bytes /\ net \in Seq(Readable)
      /\ \A i \in 1..Len(net) : net[i] \in Readable
  BY LenProperties, ReaderAssumption, ElementOfSeq
  DEF InRoom, ReaderTypeOK, ReadHead, ReadBody, Bytes
<1>1. CASE ReadHead
  <2>1. PICK k \in 1..Len(net) :
          /\ inbuf + k <= Size
          /\ mem' = Store(k) /\ Consume(k) /\ inbuf' = inbuf + k
          /\ accidents' = IF net[k] = "cr" /\ LfMayFollow(k)
                          THEN accidents \cup {"cut"} ELSE accidents
    BY <1>1 DEF ReadHead
  <2>2. inbuf + k <= Len(mem) /\ Len(mem) = Size + 1
    BY <1>0, <1>1, <2>1 DEF InRoom, ReadHead
  <2>3. /\ place = "read" /\ place' = "parse"
        /\ UNCHANGED <<sent, msg, msg_size>> /\ msg_size = -1
    BY <1>1 DEF ReadHead, InRoom
  <2>4. /\ mem' \in Seq(Bytes) /\ Len(mem') = Len(mem) /\ net' \in Seq(Readable)
        /\ \A i \in 1..Len(mem) : mem'[i] =
                 IF i \in inbuf + 1..inbuf + k THEN net[i - inbuf] ELSE mem[i]
    BY <1>0, <2>1, <2>2, ReadStores DEF Consume
  <2>5. \A i \in 1..inbuf' : mem'[i] \in Readable
    BY <1>0, <2>1, <2>2, <2>3, <2>4 DEF InRoom, Ended
  <2>6. ReaderTypeOK'
    BY <1>0, <2>1, <2>3, <2>4 DEF ReaderTypeOK
  <2>7. InRoom'
    BY <1>0, <2>1, <2>2, <2>3, <2>4, <2>5 DEF InRoom
  <2> QED BY <2>6, <2>7
<1>2. CASE ReadBody
  <2>1. PICK k \in 1..Len(net) :
        /\ inbuf + k <= msg_size
        /\ Consume(k)
        /\ IF Keeps(k)
           THEN mem' = Store(k) /\ inbuf' = inbuf + k /\ UNCHANGED accidents
           ELSE accidents' = accidents \cup {"four"} /\ UNCHANGED <<mem, inbuf>>
    BY <1>2 DEF ReadBody
  <2>2. inbuf + k <= Len(mem) /\ msg_size \in 0..Len(mem)
    BY <1>0, <1>2, <2>1 DEF InRoom, ReadBody
  <2>3. /\ place = "body" /\ place' = "body"
        /\ UNCHANGED <<sent, msg, msg_size>>
    BY <1>2 DEF ReadBody
  <2>4. net' \in Seq(Readable)
    BY <1>0, <2>1, <2>2, ReadStores DEF Consume
  <2>5. /\ Store(k) \in Seq(Bytes) /\ Len(Store(k)) = Len(mem)
        /\ \A i \in 1..Len(mem) : Store(k)[i] =
                 IF i \in inbuf + 1..inbuf + k THEN net[i - inbuf] ELSE mem[i]
    BY <1>0, <2>1, <2>2, ReadStores
  <2>6. mem' \in Seq(Bytes) /\ Len(mem') = Len(mem) /\ inbuf' \in 0..Len(mem)
    <3>1. CASE Keeps(k)
      BY <1>0, <2>1, <2>2, <2>5, <3>1
    <3>2. CASE ~Keeps(k)
      BY <1>0, <2>1, <3>2 DEF ReaderTypeOK
    <3> QED BY <3>1, <3>2
  <2>7. \A i \in 1..inbuf' : mem'[i] \in Readable
    BY <1>0, <2>1, <2>2, <2>3, <2>5 DEF InRoom, Ended
  <2>8. ReaderTypeOK'
    <3>1. accidents' \in {accidents, accidents \cup {"four"}}
      BY <2>1
    <3>2. accidents' \in SUBSET {"cut", "headers", "four", "left", "length"}
      BY <3>1 DEF ReaderTypeOK
    <3>3. inbuf' \in Int
      BY <1>0, <2>6
    <3> QED BY <2>3, <2>4, <2>6, <3>2, <3>3 DEF ReaderTypeOK
  <2>9. InRoom'
    BY <1>0, <2>2, <2>3, <2>6, <2>7 DEF InRoom
  <2> QED BY <2>8, <2>9
<1> QED BY <1>1, <1>2

\* The buffer grows to hold the body.
LEMMA EndHeadRoom ==
    ASSUME ReaderTypeOK, InRoom, EndHead
    PROVE  /\ ReaderTypeOK' /\ InRoom'
           /\ \A i \in 1..inbuf : mem'[i] = mem[i]
<1>1. /\ inbuf \in 0..Size /\ Len(mem) = Size + 1 /\ Size \in Nat /\ msg_size \in Nat
      /\ \A i \in 1..Len(mem) : mem[i] \in Bytes
      /\ place' = "body" /\ UNCHANGED <<net, sent, inbuf, msg, msg_size, accidents>>
      /\ "?" \in Bytes
  BY LenProperties, ReaderAssumption, ElementOfSeq
  DEF InRoom, ReaderTypeOK, EndHead, Bytes, client
<1>2. /\ mem' \in Seq(Bytes) /\ Len(mem') >= msg_size /\ Len(mem') >= inbuf /\ Len(mem') \in Nat
      /\ \A i \in 1..inbuf : mem'[i] = mem[i]
  <2>1. CASE msg_size <= Size
    BY <1>1, <2>1 DEF EndHead, ReaderTypeOK
  <2>2. CASE ~(msg_size <= Size)
    <3>1. mem' = [i \in 1..msg_size |-> IF i <= Size THEN mem[i] ELSE "?"]
      BY <2>2 DEF EndHead
    <3> QED BY <1>1, <2>2, <3>1
  <2> QED BY <2>1, <2>2
<1>3. ReaderTypeOK'
  BY <1>1, <1>2 DEF ReaderTypeOK
<1>4. InRoom'
  BY <1>1, <1>2 DEF InRoom, Ended, EndHead
<1> QED BY <1>2, <1>3, <1>4

\* The client, the tests and the signals leave the buffer as it is.
LEMMA RestRoom ==
    ASSUME ReaderTypeOK, InRoom,
           Send \/ HangUp \/ Ask \/ Interrupt \/ Test \/ ReadNothing \/ NoHeader \/ TooMuchContent \/ NeedMore
             \/ Deliver \/ UNCHANGED vars
    PROVE  ReaderTypeOK' /\ InRoom'
<1>1. CASE Send
  <2>1. net' \in Seq(Readable) /\ sent' \in Requests
    BY <1>1, SendNet
  <2> QED BY <1>1, <2>1 DEF Send, buffer, ReaderTypeOK, InRoom, Ended
<1>2. CASE HangUp \/ Ask \/ UNCHANGED vars
  <2>1. UNCHANGED <<net, sent, place, mem, inbuf, msg, msg_size, accidents>>
    BY <1>2 DEF HangUp, Ask, vars, buffer, client
  <2> QED BY <2>1 DEF ReaderTypeOK, InRoom, Ended
<1>4. CASE Test \/ NeedMore
  <2>1. /\ UNCHANGED <<net, sent, mem, inbuf, msg, msg_size, accidents>>
        /\ place \in {"test", "parse"} /\ place' \in {"closed", "read", "test"}
        /\ msg_size = -1
    <3>1. CASE Test
      BY <3>1 DEF Test, buffer, client, InRoom
    <3>2. CASE NeedMore
      BY <3>2 DEF NeedMore, buffer, client, ReaderTypeOK
    <3> QED BY <1>4, <3>1, <3>2
  <2> QED BY <2>1 DEF ReaderTypeOK, InRoom, Ended
<1>3. CASE Interrupt \/ ReadNothing \/ NoHeader \/ TooMuchContent \/ Deliver
  BY <1>3 DEF Interrupt, ReadNothing, NoHeader, TooMuchContent, Deliver, buffer, client, ReaderTypeOK,
              InRoom, Ended
<1> QED BY <1>1, <1>2, <1>3, <1>4

\* The next request is read into a new buffer.
LEMMA RespondRoom ==
    ASSUME ReaderTypeOK, InRoom, Respond
    PROVE  ReaderTypeOK' /\ InRoom'
<1>1. Size \in Nat \ {0} /\ MaxHeaders \in Nat
  BY ReaderAssumption
<1>2. /\ mem' \in Seq(Bytes) /\ Len(mem') = Size + 1
  BY <1>1 DEF Respond, Fresh, Bytes
<1>3. /\ <<>> \in Seq({"hdr", "cl"}) /\ Len(<<>>) = 0
  OBVIOUS
<1>4. ReaderTypeOK'
  BY <1>2, <1>3 DEF ReaderTypeOK, Respond, NoMsg
<1>5. InRoom'
  BY <1>1, <1>2, <1>3 DEF InRoom, Respond, Ended, NoMsg
<1> QED BY <1>4, <1>5

\* Every step keeps the buffer's bounds.
LEMMA RoomStep ==
    ASSUME ReaderTypeOK, InRoom, [Next]_vars
    PROVE  ReaderTypeOK' /\ InRoom'
BY ParseRoom, ReadRoom, EndHeadRoom, RestRoom, RespondRoom DEF Next, Read

-----------------------------------------------------------------------------
\* A CR that is last stays last, and an LF that comes to be behind it was the
\* end of a line before it.
LEMMA ParseKeepsLast ==
    ASSUME ReaderTypeOK, InRoom, ParseLine, inbuf' > 0
    PROVE  /\ inbuf > 0 /\ mem'[inbuf'] = mem[inbuf]
           /\ mem[inbuf] = "cr" /\ mem'[inbuf' + 1] \in {"lf", "?"} =>
                 \E i \in 1..inbuf' : i # inbuf' /\ mem'[i] = "lf"
<1>1. PICK next \in NextLines :
        /\ inbuf' = inbuf - next + 1
        /\ \A i \in 1..inbuf' : i + next - 1 \in 1..inbuf /\ mem'[i] = mem[i + next - 1]
        /\ \A i \in inbuf' + 1..Len(mem) : i > 0 =>
             /\ mem'[i] \in {mem[i], "nul"}
             /\ mem'[i] \in {"lf", "?"} => i < FirstEnd \/ i >= next
  BY ParseMoves
<1>2. place = "parse" /\ LineEndsAt # {}
  BY DEF ParseLine
<1>3. /\ FirstEnd \in 1..inbuf /\ next \in {FirstEnd + 1, FirstEnd + 2}
      /\ inbuf \in Nat /\ inbuf <= Size /\ Len(mem) = Size + 1 /\ Size \in Nat
  BY <1>2, FirstEndIs, NextIs, ReaderAssumption, LenProperties DEF ReaderTypeOK, InRoom
<1>4. \A i \in 1..inbuf : mem[i] # "?"
  BY <1>2 DEF InRoom, Ended, Readable, Sendable
<1>5. \A i \in 1..FirstEnd - 1 : mem[i] \notin {"cr", "lf"}
  BY <1>2, FirstEndIs
<1>6. /\ inbuf' \in 1..inbuf' /\ inbuf' + next - 1 = inbuf /\ inbuf > 0
  BY <1>1, <1>3
<1>7. mem'[inbuf'] = mem[inbuf]
  BY <1>1, <1>6
<1> DEFINE n == inbuf' + 1
           i == inbuf' + 2 - next
<1>8. /\ n \in inbuf' + 1..Len(mem) /\ n > 0 /\ n \in 1..inbuf
      /\ n # inbuf /\ n >= next => i \in 1..inbuf' /\ i + next - 1 = n /\ i # inbuf'
      /\ FirstEnd \in Nat
  BY <1>1, <1>3
<1> HIDE DEF n, i
<1>9. ASSUME mem[inbuf] = "cr", mem'[n] \in {"lf", "?"}
      PROVE  \E at \in 1..inbuf' : at # inbuf' /\ mem'[at] = "lf"
  <2>1. /\ mem[n] \in {"lf", "?"}
        /\ n < FirstEnd \/ n >= next
    BY <1>1, <1>8, <1>9
  <2>2. mem[n] = "lf" /\ n # inbuf
    BY <1>4, <1>8, <1>9, <2>1
  <2>3. n >= next
    BY <1>5, <1>8, <2>1, <2>2
  <2>4. i \in 1..inbuf' /\ i + next - 1 = n /\ i # inbuf'
    BY <1>8, <2>2, <2>3
  <2>5. mem'[i] = "lf"
    BY <1>1, <2>2, <2>4
  <2> QED BY <2>4, <2>5
<1> QED BY <1>6, <1>7, <1>9 DEF n

\* What was cut stays cut.
LEMMA ParseCutKnown ==
    ASSUME ReaderTypeOK, InRoom, CutKnown, ParseLine
    PROVE  CutKnown'
<1> SUFFICES ASSUME inbuf' > 0, mem'[inbuf'] = "cr",
                    \/ net' # <<>> /\ net'[1] = "lf"
                    \/ LineEndsAt' = {inbuf'} /\ mem'[inbuf' + 1] \in {"lf", "?"}
             PROVE  "cut" \in accidents'
  BY DEF CutKnown
<1>1. inbuf > 0 /\ mem[inbuf] = "cr"
  BY ParseKeepsLast
<1>2. CASE net' # <<>> /\ net'[1] = "lf"
  <2>1. "cut" \in accidents
    BY <1>1, <1>2 DEF CutKnown, ParseLine, client
  <2> QED BY <2>1, HandleType DEF ParseLine
<1>3. CASE LineEndsAt' = {inbuf'} /\ mem'[inbuf' + 1] \in {"lf", "?"}
  <2>1. PICK i \in 1..inbuf' : i # inbuf' /\ mem'[i] = "lf"
    BY <1>1, <1>3, ParseKeepsLast
  <2>2. i \in LineEndsAt'
    BY <2>1 DEF LineEndsAt
  <2> QED BY <1>3, <2>1, <2>2
<1> QED BY <1>2, <1>3

\* It is known when it is read,
LEMMA ReadCutKnown ==
    ASSUME ReaderTypeOK, InRoom, ReadHead
    PROVE  CutKnown'
<1> SUFFICES ASSUME place' = "parse", msg_size' < 0, inbuf' > 0, mem'[inbuf'] = "cr",
                    \/ net' # <<>> /\ net'[1] = "lf"
                    \/ mem'[inbuf' + 1] \in {"lf", "?"}
             PROVE  "cut" \in accidents'
  BY DEF CutKnown
<1>1. PICK k \in 1..Len(net) :
          /\ inbuf + k <= Size
          /\ mem' = Store(k) /\ Consume(k) /\ inbuf' = inbuf + k
          /\ accidents' = IF net[k] = "cr" /\ LfMayFollow(k)
                          THEN accidents \cup {"cut"} ELSE accidents
  BY DEF ReadHead
<1>2. /\ inbuf \in 0..Len(mem) /\ Len(mem) = Size + 1 /\ Size \in Nat /\ Len(net) \in Nat
  BY ReaderAssumption, LenProperties DEF InRoom, ReadHead, ReaderTypeOK
<1>3. inbuf + k <= Len(mem)
  BY <1>1, <1>2
<1>4. /\ \A i \in 1..Len(mem) : mem'[i] =
                 IF i \in inbuf + 1..inbuf + k THEN net[i - inbuf] ELSE mem[i]
      /\ net' \in Seq(Readable) /\ Len(net') = Len(net) - k
      /\ \A i \in 1..Len(net) - k : net'[i] = net[k + i]
  BY <1>1, <1>2, <1>3, ReadStores DEF Consume
<1>5. net[k] = "cr"
  <2>1. inbuf' \in 1..Len(mem) /\ inbuf' \in inbuf + 1..inbuf + k /\ inbuf' - inbuf = k
    BY <1>1, <1>2, <1>3
  <2>2. mem'[inbuf'] = net[inbuf' - inbuf]
    BY <1>4, <2>1
  <2> QED BY <2>1, <2>2
<1>6. LfMayFollow(k)
  <2>1. CASE net' # <<>> /\ net'[1] = "lf"
    <3>1. Len(net') > 0
      BY <1>4, <2>1, EmptySeq
    <3>2. k < Len(net) /\ net[k + 1] = "lf"
      BY <1>2, <1>4, <2>1, <3>1
    <3> QED BY <3>2 DEF LfMayFollow
  <2>2. CASE mem'[inbuf' + 1] \in {"lf", "?"}
    <3>1. inbuf' + 1 \in 1..Len(mem) /\ ~(inbuf' + 1 \in inbuf + 1..inbuf + k)
      BY <1>1, <1>2
    <3>2. mem[inbuf' + 1] \in {"lf", "?"}
      BY <1>4, <2>2, <3>1
    <3> QED BY <1>1, <3>2 DEF LfMayFollow
  <2> QED BY <2>1, <2>2
<1> QED BY <1>1, <1>5, <1>6

\* No request is under construction, and no first line of one is to come.
NoLine(s) == \A i \in 1..Len(s) : s[i] # "line"
Quiet == msg = NoMsg /\ msg_size = -1 /\ NoLine(Stream)

\* The stream is what is valid in the buffer, then what is on the wire.
LEMMA StreamType ==
    ASSUME ReaderTypeOK, InRoom, ~Ended
    PROVE  /\ Stream \in Seq(Readable) /\ Len(Stream) = inbuf + Len(net)
           /\ inbuf \in Nat /\ Len(net) \in Nat /\ Len(Stream) \in Nat
           /\ \A i \in 1..inbuf : Stream[i] = mem[i]
           /\ \A i \in 1..Len(net) : Stream[inbuf + i] = net[i]
<1>1. inbuf \in Nat /\ net \in Seq(Readable) /\ Valid(mem, inbuf)
  BY LenProperties DEF ReaderTypeOK, InRoom, Ended, Valid
<1> QED BY <1>1, JoinedIs DEF Stream

\* Between requests no line is understood but a request's first.
LEMMA QuietRefuses ==
    ASSUME ReaderTypeOK, InRoom, place = "parse", LineEndsAt # {}, Quiet
    PROVE  ~Understood(FirstLine)
<1>1. msg.method = "none"
  BY DEF Quiet, NoMsg
<1>2. ASSUME RequestLine(FirstLine) PROVE FALSE
  <2>1. FirstLine \in Seq(Readable) /\ FirstLine # <<>> /\ FirstLine[Len(FirstLine)] = "line"
    BY <1>2, FirstEndIs DEF RequestLine, Last
  <2>2. Len(FirstLine) = FirstEnd - 1 /\ FirstEnd \in 1..inbuf /\ Len(FirstLine) \in Nat \ {0}
    BY <2>1, FirstEndIs, EmptySeq
  <2>3. FirstEnd - 1 \in 1..FirstEnd - 1 /\ FirstEnd - 1 \in 1..inbuf /\ ~Ended
    BY <2>2, StreamType DEF Ended
  <2>4. Stream[FirstEnd - 1] = "line" /\ FirstEnd - 1 \in 1..Len(Stream)
    BY <2>1, <2>2, <2>3, StreamType, FirstEndIs
  <2> QED BY <2>4 DEF Quiet, NoLine
<1> QED BY <1>1, <1>2 DEF Understood

-----------------------------------------------------------------------------
\* The sequence s after its first d elements is t.
After(s, d, t) == /\ Len(s) = d + Len(t)
                  /\ \A i \in 1..Len(t) : s[d + i] = t[i]
Follows(d, t) == After(Stream, d, t)

\* How much of the request r, whose lines end in e, is still to be handled:
\* all of it, behind what may be left of others;
BeforeLine(r, e) ==
    /\ msg = NoMsg /\ msg_size = -1
    /\ \E p \in 1..Len(Stream) :
         /\ Stream[p] = "line" /\ \A i \in 1..p - 1 : Stream[i] # "line"
         /\ Follows(p, e \o Rest(r, e)[1])
         /\ "left" \in accidents => p > 1
\* some header and what follows it, perhaps behind an LF that was cut off;
InHeaders(r, e) ==
    /\ msg.method # "none" /\ msg_size = -1
    /\ \E j \in 1..Len(r.headers) + 1 :
         /\ \/ Follows(0, Rest(r, e)[j])
            \/ "cut" \in accidents /\ Follows(1, Rest(r, e)[j]) /\ Stream[1] = "lf"
         /\ Len(msg.headers) < j
         /\ \/ Len(msg.headers) = j - 1
            \/ "headers" \in accidents /\ Len(msg.headers) = MaxHeaders
\* or, for ever, what headers are taken from when their length is below zero;
InLimbo(r) ==
    /\ msg.method # "none" /\ msg_size = -1 /\ NoLine(Stream)
    /\ r.length = -1 /\ Contains(msg.headers, "cl")
\* or its body, which is there or will not come.
InBody(r) ==
    /\ msg.method # "none" /\ msg_size >= 0 /\ NoLine(Stream)
    /\ accidents = {} =>
         /\ msg.headers = r.headers /\ msg_size = Len(r.body)
         /\ Follows(0, r.body) \/ Len(Stream) < msg_size

\* What is handled so far is the request's own, or known not to be a request.
OwnHeaders(r) == /\ Len(msg.headers) <= Len(r.headers)
                 /\ \A i \in 1..Len(msg.headers) : msg.headers[i] = r.headers[i]
                 /\ "left" \in accidents => msg.method \in {"none", "unknown"}
Framing == ~Ended =>
    /\ sent = NoRequest => Quiet
    /\ sent # NoRequest =>
         \/ InLimbo(sent)
         \/ /\ OwnHeaders(sent)
            /\ \/ \E e \in LineEnds : BeforeLine(sent, e) \/ InHeaders(sent, e)
               \/ InBody(sent)

\* Handling a line takes it from the stream.
LEMMA ParseShifts ==
    ASSUME ReaderTypeOK, InRoom, ParseLine, place' = "parse"
    PROVE  \E next \in NextLines :
             /\ inbuf' = inbuf - next + 1 /\ inbuf' >= 0
             /\ Len(Stream') = Len(Stream) - (next - 1)
             /\ \A i \in 1..Len(Stream') : Stream'[i] = Stream[i + (next - 1)]
<1>1. PICK next \in NextLines :
        /\ inbuf' = inbuf - next + 1
        /\ \A i \in 1..inbuf' : i + next - 1 \in 1..inbuf /\ mem'[i] = mem[i + next - 1]
  BY ParseMoves
<1>2. FirstEnd \in 1..inbuf /\ next \in {FirstEnd + 1, FirstEnd + 2}
  BY FirstEndIs, NextIs DEF ParseLine
<1>3. /\ ReaderTypeOK' /\ InRoom' /\ ~Ended' /\ ~Ended /\ net' = net
  BY ParseRoom DEF Ended, ParseLine, client
<1>4. /\ Len(Stream) = inbuf + Len(net) /\ inbuf \in Nat /\ Len(net) \in Nat
      /\ \A i \in 1..inbuf : Stream[i] = mem[i]
      /\ \A i \in 1..Len(net) : Stream[inbuf + i] = net[i]
  BY <1>3, StreamType
<1>5. inbuf' \in Nat /\ net' \in Seq(Readable)
  BY <1>3, LenProperties DEF ReaderTypeOK, InRoom, Ended
<1>6. PICK left \in Nat : left = inbuf'
  BY <1>5, Zenon
<1> DEFINE d == next - 1
<1>7. d \in Nat /\ inbuf = left + d /\ next = d + 1 /\ Len(net) \in Nat
  BY <1>1, <1>2, <1>4, <1>6
<1>8. /\ Len(Stream') = left + Len(net)
      /\ \A i \in 1..left : Stream'[i] = mem'[i]
      /\ \A i \in 1..Len(net) : Stream'[left + i] = net[i]
  <2>1. PICK m : m = mem'
    BY Zenon
  <2>2. Stream' = [i \in 1..left + Len(net) |-> IF i <= left THEN m[i] ELSE net[i - left]]
    BY <1>3, <1>6, <2>1 DEF Stream, Joined
  <2>3. PICK s : s = Stream'
    BY Zenon
  <2> HIDE DEF d
  <2>4. /\ Len(s) = left + Len(net)
        /\ \A i \in 1..left : s[i] = m[i]
        /\ \A i \in 1..Len(net) : s[left + i] = net[i]
    BY <1>7, <2>2, <2>3
  <2> QED BY <2>1, <2>3, <2>4
<1>9. Len(Stream') = Len(Stream) - d
  BY <1>4, <1>7, <1>8
<1>10. ASSUME NEW i \in 1..left + Len(net) PROVE Stream'[i] = Stream[i + d]
  <2>1. CASE i <= left
    <3>1. i \in 1..left /\ i + next - 1 = i + d /\ i + d \in 1..inbuf
      BY <1>4, <1>7, <2>1
    <3> HIDE DEF d
    <3> QED BY <1>1, <1>4, <1>6, <1>8, <3>1
  <2>2. CASE ~(i <= left)
    <3> DEFINE k == i - left
    <3>1. k \in 1..Len(net) /\ left + k = i /\ i + d = inbuf + k
      BY <1>7, <2>2
    <3> HIDE DEF k, d
    <3> QED BY <1>4, <1>8, <3>1
  <2> QED BY <2>1, <2>2
<1>11. inbuf' = inbuf - next + 1 /\ inbuf' >= 0
  BY <1>1, <1>5
<1> QED BY <1>8, <1>9, <1>10, <1>11

\* Behind the first part of what follows comes the second.
LEMMA AfterOn ==
    ASSUME NEW s, NEW d \in Nat, NEW a \in Seq(Readable), NEW t \in Seq(Readable),
           After(s, d, a \o t)
    PROVE  /\ Len(a) \in Nat /\ Len(t) \in Nat /\ d + Len(a) \in Nat
           /\ Len(s) = d + Len(a) + Len(t)
           /\ \A i \in 1..Len(a) : s[d + i] = a[i]
           /\ After(s, d + Len(a), t)
<1>1. /\ Len(a) \in Nat /\ Len(t) \in Nat /\ Len(a \o t) = Len(a) + Len(t)
      /\ \A i \in 1 .. Len(a) + Len(t) : (a \o t)[i] =
                     IF i <= Len(a) THEN a[i] ELSE t[i - Len(a)]
  BY LenProperties, ConcatProperties
<1>2. \A i \in 1..Len(a) : s[d + i] = a[i]
  BY <1>1 DEF After
<1>3. ASSUME NEW i \in 1..Len(t) PROVE s[d + Len(a) + i] = t[i]
  <2>1. /\ Len(a) + i \in 1..Len(a) + Len(t) /\ ~(Len(a) + i <= Len(a))
        /\ Len(a) + i - Len(a) = i /\ d + (Len(a) + i) = d + Len(a) + i
    BY <1>1
  <2> QED BY <1>1, <2>1 DEF After
<1>4. Len(s) = d + Len(a) + Len(t)
  BY <1>1 DEF After
<1> QED BY <1>1, <1>2, <1>3, <1>4 DEF After

\* When the first c elements go, d - c of the d are left.
LEMMA AfterShift ==
    ASSUME NEW s, NEW s1, NEW d \in Nat, NEW c \in 0..d, NEW t, Len(t) \in Nat, After(s, d, t),
           Len(s1) = Len(s) - c, \A i \in 1..Len(s1) : s1[i] = s[i + c]
    PROVE  After(s1, d - c, t)
<1>1. Len(s) = d + Len(t) /\ \A i \in 1..Len(t) : s[d + i] = t[i]
  BY DEF After
<1>2. Len(s1) = d - c + Len(t)
  BY <1>1
<1>3. ASSUME NEW i \in 1..Len(t) PROVE s1[d - c + i] = t[i]
  <2>1. d - c + i \in 1..Len(s1) /\ d - c + i + c = d + i
    BY <1>2
  <2> QED BY <1>1, <2>1
<1> QED BY <1>2, <1>3 DEF After

\* After the last header, what follows starts with a line end;
LEMMA BodyHead ==
    ASSUME NEW r \in Requests, NEW e \in LineEnds
    PROVE  /\ Rest(r, e)[Len(r.headers) + 1] = e \o r.body
           /\ Rest(r, e)[Len(r.headers) + 1][1] = e[1]
           /\ e \o r.body \in Seq(Readable) /\ Len(e \o r.body) \in Nat \ {0}
<1>1. Sendable \subseteq Readable
  BY DEF Readable
<1>2. /\ e \in Seq(Readable) /\ Len(e) \in Nat /\ Len(e) >= 1
      /\ r.body \in Seq(Readable)
  BY <1>1, EndTypes, RequestTypes, SeqMonotonic
<1>3. Rest(r, e)[Len(r.headers) + 1] = e \o r.body
  BY RestEquations
<1>4. /\ Len(e \o r.body) = Len(e) + Len(r.body) /\ Len(r.body) \in Nat
      /\ (e \o r.body)[1] = e[1] /\ e \o r.body \in Seq(Readable)
  BY <1>2, ConcatProperties, LenProperties
<1>5. Len(e \o r.body) \in Nat \ {0}
  BY <1>2, <1>4
<1> QED BY <1>3, <1>4, <1>5

\* before that, with a header.
LEMMA RestHead ==
    ASSUME NEW r \in Requests, NEW e \in LineEnds, NEW j \in 1..Len(r.headers) + 1
    PROVE  /\ Rest(r, e)[j] \in Seq(Readable) /\ Rest(r, e)[j] \in Seq(Sendable)
           /\ Len(Rest(r, e)[j]) \in Nat \ {0}
           /\ j <= Len(r.headers) =>
                 /\ Rest(r, e)[j][1] = r.headers[j] /\ r.headers[j] \in {"hdr", "cl", "long"}
                 /\ r.headers[j] # "long" =>
                      /\ Rest(r, e)[j] = Text(r.headers[j]) \o (e \o Rest(r, e)[j + 1])
                      /\ Text(r.headers[j]) \in Seq(Readable) /\ Len(Text(r.headers[j])) = 1
                 /\ Rest(r, e)[j + 1] \in Seq(Readable) /\ e \o Rest(r, e)[j + 1] \in Seq(Readable)
           /\ j = Len(r.headers) + 1 =>
                 Rest(r, e)[j] = e \o r.body /\ Rest(r, e)[j][1] = e[1]
<1>1. Len(r.headers) \in Nat \ {0} /\ Sendable \subseteq Readable
  BY RequestTypes DEF Readable
<1>2. Rest(r, e)[j] \in Seq(Readable) /\ Rest(r, e)[j] \in Seq(Sendable)
  BY <1>1, RestEquations, SeqMonotonic
<1>3. /\ e \in Seq(Readable) /\ Len(e) \in Nat /\ Len(e) >= 1
      /\ r.body \in Seq(Readable)
  BY <1>1, EndTypes, RequestTypes, SeqMonotonic
<1>4. CASE j = Len(r.headers) + 1
  <2>1. ~(j <= Len(r.headers))
    BY <1>1, <1>4
  <2>2. /\ Rest(r, e)[j] = e \o r.body /\ Rest(r, e)[j][1] = e[1]
        /\ Len(Rest(r, e)[j]) \in Nat \ {0}
    BY <1>4, BodyHead
  <2> QED BY <1>2, <2>1, <2>2, Zenon
<1>5. CASE j # Len(r.headers) + 1
  <2>1. j \in 1..Len(r.headers) /\ j + 1 \in 1..Len(r.headers) + 1
    BY <1>1, <1>5
  <2>2. PICK h \in {"hdr", "cl", "long"} : h = r.headers[j]
    <3>1. r.headers[j] \in {"hdr", "cl", "long"}
      BY <2>1, RequestTypes, ElementOfSeq
    <3> QED BY <3>1
  <2>3. PICK t \in Seq(Readable) : t = Rest(r, e)[j + 1]
    <3>1. Rest(r, e)[j + 1] \in Seq(Readable)
      BY <1>1, <2>1, RestEquations, SeqMonotonic
    <3> QED BY <3>1
  <2>4. PICK x \in Seq(Sendable) :
          x = Text(h) /\ Len(x) = (IF h = "long" THEN Size ELSE 1) /\ \A i \in 1..Len(x) : x[i] = h
    BY <2>2, TextType
  <2>5. x \in Seq(Readable) /\ Len(x) \in Nat \ {0} /\ x[1] = h
    <3>1. x \in Seq(Readable)
      BY <1>1, <2>4, SeqMonotonic
    <3>2. Len(x) \in Nat \ {0}
      BY <2>4, ReaderAssumption
    <3> QED BY <2>4, <3>1, <3>2
  <2>6. Rest(r, e)[j] = x \o e \o t
    BY <2>1, <2>2, <2>3, <2>4, RestEquations
  <2>7. e \o t \in Seq(Readable) /\ Len(e \o t) \in Nat
    BY <1>3, <2>3, ConcatProperties, LenProperties
  <2>8. x \o e \o t = x \o (e \o t)
    <3>1. x \in Seq(Readable) /\ e \in Seq(Readable) /\ t \in Seq(Readable)
      BY <1>3, <2>3, <2>5
    <3> QED BY <3>1, ConcatAssociative
  <2>9. PICK u \in Seq(Readable) : u = e \o t
    BY <2>7
  <2>10. /\ Len(x \o u) = Len(x) + Len(u)
         /\ (x \o u)[1] = x[1]
    BY <2>5, <2>9, ConcatProperties, LenProperties
  <2>11. Rest(r, e)[j][1] = h /\ Len(Rest(r, e)[j]) \in Nat \ {0}
    BY <2>5, <2>6, <2>7, <2>8, <2>9, <2>10
  <2>12. h # "long" => Len(x) = 1
    BY <2>4
  <2>13. j # Len(r.headers) + 1
    BY <1>5
  <2>14. h # "long" =>
           /\ Rest(r, e)[j] = Text(h) \o (e \o Rest(r, e)[j + 1])
           /\ Text(h) \in Seq(Readable) /\ Len(Text(h)) = 1
    BY <2>3, <2>4, <2>5, <2>6, <2>8, <2>12
  <2>15. Rest(r, e)[j + 1] \in Seq(Readable) /\ e \o Rest(r, e)[j + 1] \in Seq(Readable)
    BY <2>3, <2>7
  <2> QED BY <1>2, <2>2, <2>11, <2>13, <2>14, <2>15, Zenon
<1> QED BY <1>4, <1>5

\* What follows begins with the header whose turn it is.
LEMMA HeaderHead ==
    ASSUME NEW r \in Requests, NEW e \in LineEnds, NEW j, j \in 1..Len(r.headers)
    PROVE  /\ Rest(r, e)[j][1] = r.headers[j]
           /\ r.headers[j] \in {"hdr", "cl", "long"}
           /\ Rest(r, e)[j] \in Seq(Readable)
           /\ Len(Rest(r, e)[j]) \in Nat \ {0}
<1>1. PICK k \in 1..Len(r.headers) + 1 : k = j /\ k <= Len(r.headers)
  BY RequestTypes
<1>2. /\ Rest(r, e)[k] \in Seq(Readable) /\ Len(Rest(r, e)[k]) \in Nat \ {0}
      /\ Rest(r, e)[k][1] = r.headers[k] /\ r.headers[k] \in {"hdr", "cl", "long"}
  BY <1>1, RestHead
<1> QED BY <1>1, <1>2

\* The line handled was there up to its end e, and t follows: afterwards t is
\* what is left, unless an LF of the end was cut off, or a CR took an LF that t
\* starts with.
LEMMA LineGoes ==
    ASSUME ReaderTypeOK, InRoom, CutKnown, ParseLine, place' = "parse",
           NEW e \in LineEnds, NEW t \in Seq(Readable), NEW d \in Nat,
           Follows(d, e \o t), FirstEnd = d + 1
    PROVE  \/ After(Stream', 0, t)
           \/ "cut" \in accidents /\ After(Stream', 1, t) /\ Stream'[1] = "lf"
           \/ e = <<"cr">> /\ Len(t) > 0 /\ t[1] = "lf" /\ Len(Stream') < Len(t)
<1>1. /\ place = "parse" /\ LineEndsAt # {} /\ msg_size < 0 /\ Understood(FirstLine)
      /\ ~Ended
  BY DEF ParseLine, Ended
<1>2. PICK next \in NextLines :
             /\ inbuf' = inbuf - next + 1 /\ inbuf' >= 0
             /\ Len(Stream') = Len(Stream) - (next - 1)
             /\ \A i \in 1..Len(Stream') : Stream'[i] = Stream[i + (next - 1)]
  BY ParseShifts
<1>3. /\ FirstEnd \in 1..inbuf
      /\ next \in {FirstEnd + 1, FirstEnd + 2}
      /\ next = FirstEnd + 2 => mem[FirstEnd] = "cr" /\ mem[FirstEnd + 1] \in {"lf", "?"}
      /\ next = FirstEnd + 1 /\ mem[FirstEnd] = "cr" => mem[FirstEnd + 1] # "lf"
  BY <1>1, FirstEndIs, NextIs
<1>4. /\ Len(Stream) = inbuf + Len(net) /\ inbuf \in Nat /\ Len(net) \in Nat
      /\ \A i \in 1..inbuf : Stream[i] = mem[i]
      /\ \A i \in 1..Len(net) : Stream[inbuf + i] = net[i]
  BY <1>1, StreamType
<1>5. e \in Seq(Readable)
  BY EndTypes, SeqMonotonic DEF Readable
<1>6. /\ Len(e) \in Nat /\ Len(t) \in Nat
      /\ Len(Stream) = d + Len(e) + Len(t)
      /\ \A i \in 1..Len(e) : Stream[d + i] = e[i]
      /\ After(Stream, d + Len(e), t)
  BY <1>5, AfterOn DEF Follows
<1>7. PICK s1 : s1 = Stream'
  BY Zenon
<1>8. PICK c \in {d + 1, d + 2} : c = next - 1
  BY <1>3
<1>9. Len(s1) = Len(Stream) - c /\ \A i \in 1..Len(s1) : s1[i] = Stream[i + c]
  BY <1>2, <1>7, <1>8
<1>10. \A k \in {1, 2} : c <= d + k /\ Len(e) = k => After(s1, d + k - c, t)
  <2> SUFFICES ASSUME NEW k \in {1, 2}, c <= d + k, Len(e) = k PROVE After(s1, d + k - c, t)
    OBVIOUS
  <2>1. PICK n \in Nat : n = d + k /\ c \in 0..n /\ After(Stream, n, t)
    BY <1>6, <1>8
  <2>2. PICK s : s = Stream
    OBVIOUS
  <2>3. /\ n \in Nat /\ c \in 0..n /\ After(s, n, t) /\ Len(t) \in Nat
        /\ Len(s1) = Len(s) - c /\ \A i \in 1..Len(s1) : s1[i] = s[i + c]
    BY <1>6, <1>9, <2>1, <2>2
  <2>4. After(s1, n - c, t)
    BY <2>3, AfterShift
  <2> QED BY <2>1, <2>4
<1>11. CASE e = <<"lf">>
  <2>1. Len(e) = 1 /\ e[1] = "lf"
    BY <1>11
  <2>2. mem[FirstEnd] = "lf"
    BY <1>3, <1>4, <1>6, <2>1
  <2>3. c = d + 1 /\ d + 1 - c = 0 /\ c <= d + 1
    BY <1>3, <1>8, <2>2
  <2> QED BY <1>7, <1>10, <2>1, <2>3
<1>12. CASE e = <<"cr">>
  <2>1. Len(e) = 1
    BY <1>12
  <2>2. CASE c = d + 1
    <3>1. d + 1 - c = 0 /\ c <= d + 1
      BY <2>2
    <3> QED BY <1>7, <1>10, <2>1, <3>1
  <2>3. CASE c = d + 2
    <3>1. next = FirstEnd + 2 /\ FirstEnd + 1 \in 1..inbuf /\ FirstEnd + 1 = d + 1 + 1
      BY <1>2, <1>3, <1>4, <1>8, <2>3
    <3>2. mem[FirstEnd + 1] = "lf"
      BY <1>1, <1>3, <3>1 DEF InRoom, Readable, Sendable
    <3>3. Len(t) > 0 /\ Len(s1) < Len(t)
      BY <1>4, <1>6, <1>9, <2>1, <2>3, <3>1
    <3>4. Stream[d + 1 + 1] = t[1]
      BY <1>6, <2>1, <3>3 DEF After
    <3>5. t[1] = "lf"
      BY <1>4, <3>1, <3>2, <3>4
    <3> QED BY <1>7, <1>12, <3>3, <3>5
  <2> QED BY <1>8, <2>2, <2>3
<1>13. CASE e = <<"cr", "lf">>
  <2>1. Len(e) = 2 /\ e[1] = "cr" /\ e[2] = "lf"
    BY <1>13
  <2>2. CASE c = d + 2
    <3>1. d + 2 - c = 0 /\ c <= d + 2
      BY <2>2
    <3> QED BY <1>7, <1>10, <2>1, <3>1
  <2>3. CASE c = d + 1
    <3>1. d + 2 - c = 1 /\ c <= d + 2 /\ next = FirstEnd + 1
      BY <1>3, <1>8, <2>3
    <3>2. After(s1, 1, t)
      BY <1>10, <2>1, <3>1
    <3>3. Stream[d + 1] = "cr" /\ Stream[d + 2] = "lf" /\ Len(Stream) >= d + 2
      BY <1>6, <2>1
    <3>4. mem[FirstEnd] = "cr" /\ mem[FirstEnd + 1] # "lf"
      BY <1>3, <1>4, <3>1, <3>3
    <3>5. FirstEnd = inbuf /\ Len(net) > 0
      BY <1>3, <1>4, <3>3, <3>4
    <3>6. net[1] = "lf"
      BY <1>4, <3>3, <3>5
    <3>7. "cut" \in accidents
      <4>1. inbuf > 0 /\ net # <<>>
        BY <1>3, <1>4, <3>5
      <4> QED BY <1>1, <3>4, <3>5, <3>6, <4>1 DEF CutKnown
    <3>8. s1[1] = "lf"
      BY <1>6, <1>9, <2>1, <2>3, <3>3
    <3> QED BY <1>7, <3>2, <3>7, <3>8
  <2> QED BY <1>8, <2>2, <2>3
<1> QED BY <1>11, <1>12, <1>13, EndTypes

\* A line taken out adds no request line to the stream.
LEMMA ParseNoLine ==
    ASSUME ReaderTypeOK, InRoom, ParseLine, place' = "parse", NoLine(Stream)
    PROVE  NoLine(Stream')
<1>1. PICK next \in NextLines :
             /\ inbuf' = inbuf - next + 1 /\ inbuf' >= 0
             /\ Len(Stream') = Len(Stream) - (next - 1)
             /\ \A i \in 1..Len(Stream') : Stream'[i] = Stream[i + (next - 1)]
  BY ParseShifts
<1>2. place = "parse" /\ LineEndsAt # {} /\ ~Ended
  BY DEF ParseLine, Ended
<1>3. next \in {FirstEnd + 1, FirstEnd + 2} /\ FirstEnd \in Nat /\ Len(Stream) \in Nat
  BY <1>2, NextIs, FirstEndIs, StreamType
<1>4. PICK s1 : s1 = Stream'
  BY Zenon
<1>5. ASSUME NEW i \in 1..Len(s1) PROVE s1[i] # "line"
  <2>1. i + (next - 1) \in 1..Len(Stream) /\ s1[i] = Stream[i + (next - 1)]
    BY <1>1, <1>3, <1>4
  <2> QED BY <2>1 DEF NoLine
<1>6. NoLine(s1)
  BY <1>5 DEF NoLine
<1> QED BY <1>4, <1>6

\* Within a request's headers no other request's line follows.
LEMMA HeadersNoLine ==
    ASSUME ReaderTypeOK, InRoom, ~Ended, NEW r \in Requests, NEW e \in LineEnds, InHeaders(r, e)
    PROVE  NoLine(Stream)
<1>1. PICK j \in 1..Len(r.headers) + 1 :
         \/ After(Stream, 0, Rest(r, e)[j])
         \/ After(Stream, 1, Rest(r, e)[j]) /\ Stream[1] = "lf"
  BY DEF InHeaders, Follows
<1>2. PICK t \in Seq(Sendable) : t = Rest(r, e)[j]
  BY RestHead
<1>3. Len(t) \in Nat /\ \A i \in 1..Len(t) : t[i] # "line"
  BY <1>2, LenProperties, ElementOfSeq DEF Sendable
<1>4. CASE After(Stream, 0, t)
  <2>1. Len(Stream) = Len(t) /\ \A i \in 1..Len(t) : Stream[i] = t[i]
    BY <1>3, <1>4 DEF After
  <2> QED BY <1>3, <2>1 DEF NoLine
<1>5. CASE After(Stream, 1, t) /\ Stream[1] = "lf"
  <2>1. Len(Stream) = Len(t) + 1 /\ \A i \in 1..Len(t) : Stream[i + 1] = t[i]
    BY <1>3, <1>5 DEF After
  <2> SUFFICES ASSUME NEW i \in 1..Len(Stream), i # 1 PROVE Stream[i] # "line"
    BY <1>5 DEF NoLine
  <2>2. i - 1 \in 1..Len(t) /\ i - 1 + 1 = i
    BY <1>3, <2>1
  <2> QED BY <1>3, <2>1, <2>2
<1> QED BY <1>1, <1>2, <1>4, <1>5

\* The request line is handled when all of it is there, and nothing else.
LEMMA ParseBefore ==
    ASSUME ReaderTypeOK, InRoom, CutKnown, ParseLine, place' = "parse",
           NEW r \in Requests, NEW e \in LineEnds, BeforeLine(r, e)
    PROVE  InHeaders(r, e)' /\ OwnHeaders(r)'
<1>1. PICK p \in 1..Len(Stream) :
         /\ Stream[p] = "line" /\ \A i \in 1..p - 1 : Stream[i] # "line"
         /\ Follows(p, e \o Rest(r, e)[1])
         /\ "left" \in accidents => p > 1
  BY DEF BeforeLine
<1>2. /\ place = "parse" /\ LineEndsAt # {} /\ Understood(FirstLine) /\ HandleLine(FirstLine)
      /\ ~Ended /\ msg = NoMsg /\ msg_size = -1 /\ msg.method = "none"
  BY DEF ParseLine, Ended, BeforeLine, NoMsg
<1>3. /\ FirstEnd \in 1..inbuf
      /\ \A i \in 1..FirstEnd - 1 : mem[i] \notin {"cr", "lf"}
      /\ FirstLine \in Seq(Readable) /\ Len(FirstLine) = FirstEnd - 1
      /\ \A i \in 1..FirstEnd - 1 : FirstLine[i] = mem[i]
  BY <1>2, FirstEndIs
<1>4. /\ inbuf \in Nat /\ Len(Stream) = inbuf + Len(net) /\ Len(net) \in Nat
      /\ \A i \in 1..inbuf : Stream[i] = mem[i]
  BY <1>2, StreamType
<1>5. FirstLine # <<>> /\ FirstLine[FirstEnd - 1] = "line"
  BY <1>2, <1>3 DEF Understood, RequestLine, Last
<1>6. FirstEnd - 1 \in 1..inbuf /\ Stream[FirstEnd - 1] = "line"
  <2>1. Len(FirstLine) # 0
    BY <1>3, <1>5, EmptySeq
  <2>2. FirstEnd - 1 \in 1..inbuf /\ FirstEnd - 1 \in 1..FirstEnd - 1
    BY <1>3, <1>4, <2>1
  <2> QED BY <1>3, <1>4, <1>5, <2>2
<1>7. PICK t \in Seq(Readable) :
        /\ t = Rest(r, e)[1] /\ Len(t) \in Nat \ {0} /\ t[1] # "lf"
  <2>1. 1 \in 1..Len(r.headers) + 1 /\ 1 <= Len(r.headers) /\ Len(r.headers) \in Nat
    BY RequestTypes
  <2>2. PICK j \in 1..Len(r.headers) + 1 : j = 1 /\ j <= Len(r.headers)
    BY <2>1
  <2>3. /\ Rest(r, e)[j] \in Seq(Readable) /\ Len(Rest(r, e)[j]) \in Nat \ {0}
        /\ Rest(r, e)[j][1] = r.headers[j] /\ r.headers[j] \in {"hdr", "cl", "long"}
    BY <2>2, RestHead
  <2> QED BY <2>2, <2>3
<1>8. e \in Seq(Readable) /\ Len(e) \in {1, 2} /\ e[1] \in {"cr", "lf"}
  BY EndTypes, SeqMonotonic DEF Readable
<1>9. Stream[p + 1] \in {"cr", "lf"}
  <2>1. p \in Nat /\ After(Stream, p, e \o t)
    BY <1>1, <1>4, <1>7 DEF Follows
  <2>2. \A i \in 1..Len(e) : Stream[p + i] = e[i]
    BY <1>7, <1>8, <2>1, AfterOn
  <2> QED BY <1>8, <2>2
<1>10. FirstEnd = p + 1
  <2>1. ~(FirstEnd - 1 < p)
    BY <1>1, <1>3, <1>4, <1>6
  <2>2. ASSUME FirstEnd - 1 > p PROVE FALSE
    <3>1. p + 1 \in 1..FirstEnd - 1 /\ p + 1 \in 1..inbuf
      BY <1>1, <1>3, <1>4, <2>2
    <3> QED BY <1>3, <1>4, <1>9, <3>1
  <2> QED BY <1>1, <1>3, <1>4, <2>1, <2>2
<1>11. \/ After(Stream', 0, t)
       \/ "cut" \in accidents /\ After(Stream', 1, t) /\ Stream'[1] = "lf"
  <2>1. p \in Nat /\ Follows(p, e \o t)
    BY <1>1, <1>4, <1>7
  <2> QED BY <1>7, <1>10, <2>1, LineGoes
<1>12. /\ msg' = [msg EXCEPT !.method = Method(FirstLine)]
       /\ UNCHANGED <<msg_size, accidents>>
  BY <1>2 DEF HandleLine
<1>13. /\ msg'.method = Method(FirstLine) /\ msg'.headers = <<>> /\ Len(msg'.headers) = 0
       /\ msg'.method # "none"
  BY <1>2, <1>12 DEF NoMsg, Method
<1>14. InHeaders(r, e)'
  <2>1. 1 \in 1..Len(r.headers) + 1
    BY RequestTypes
  <2>2. /\ \/ After(Stream', 0, Rest(r, e)[1])
           \/ "cut" \in accidents' /\ After(Stream', 1, Rest(r, e)[1]) /\ Stream'[1] = "lf"
        /\ Len(msg'.headers) < 1 /\ Len(msg'.headers) = 1 - 1
    BY <1>7, <1>11, <1>12, <1>13
  <2> QED BY <1>2, <1>12, <1>13, <2>1, <2>2 DEF InHeaders, Follows
<1>15. OwnHeaders(r)'
  <2>1. "left" \in accidents' => msg'.method = "unknown"
    <3> SUFFICES ASSUME "left" \in accidents PROVE Method(FirstLine) = "unknown"
      BY <1>12, <1>13
    <3>1. Len(FirstLine) = p /\ p \in Nat /\ p > 1
      BY <1>1, <1>3, <1>4, <1>10
    <3>2. Len(<<"line">>) = 1
      OBVIOUS
    <3>3. Len(FirstLine) # 1
      BY <3>1
    <3>4. FirstLine # <<"line">>
      BY <3>2, <3>3, Zenon
    <3> QED BY <3>4 DEF Method
  <2>2. Len(r.headers) \in Nat
    BY RequestTypes
  <2> QED BY <1>13, <2>1, <2>2 DEF OwnHeaders
<1> QED BY <1>14, <1>15

\* The empty line after the last header ends the head.
LEMMA HeadEnds ==
    ASSUME ReaderTypeOK, InRoom, ParseLine, place' = "parse", FirstEnd = 1,
           NEW r \in Requests, r = sent, OwnHeaders(r), msg.method # "none", NoLine(Stream),
           \/ "cut" \in accidents
           \/ /\ Len(msg.headers) = Len(r.headers) \/ "headers" \in accidents
              /\ After(Stream', 0, r.body) \/ Len(Stream') < Len(r.body)
    PROVE  (InBody(r)' /\ OwnHeaders(r)') \/ InLimbo(r)'
<1>1. /\ place = "parse" /\ LineEndsAt # {} /\ HandleLine(FirstLine)
  BY DEF ParseLine
<1>2. FirstLine = <<>>
  <2>1. FirstLine \in Seq(Readable) /\ Len(FirstLine) = 0
    BY <1>1, FirstEndIs
  <2> QED BY <2>1, EmptySeq
<1>3. /\ msg_size' = Declared
      /\ accidents' = IF Declared = Len(sent.body) THEN accidents
                      ELSE accidents \cup {"length"}
      /\ UNCHANGED msg
  <2>1. ~RequestLine(FirstLine) /\ FirstLine \notin {<<"hdr">>, <<"cl">>}
    BY <1>2 DEF RequestLine
  <2> QED BY <1>1, <2>1 DEF HandleLine
<1>4. /\ r.body \in Seq(Sendable) /\ Len(r.body) \in Nat
      /\ r.headers \in Seq({"hdr", "cl", "long"}) /\ Len(r.headers) \in Nat
      /\ r.length \in Nat \cup {-1}
  BY RequestTypes, LenProperties
<1>5. /\ msg_size' \in Nat \cup {-1} /\ msg'.method # "none" /\ NoLine(Stream')
      /\ sent' = sent
  BY <1>3, <1>4, ParseNoLine DEF Declared, ParseLine, client
<1>6. ASSUME accidents' = {}
      PROVE  /\ msg'.headers = r.headers /\ msg_size' = Len(r.body)
             /\ After(Stream', 0, r.body) \/ Len(Stream') < msg_size'
  <2>1. accidents = {} /\ Declared = Len(r.body)
    BY <1>3, <1>6
  <2>2. Len(msg.headers) = Len(r.headers)
    BY <2>1
  <2>3. msg.headers = r.headers
    <3>1. msg.headers \in Seq({"hdr", "cl", "long"})
      BY SeqMonotonic DEF ReaderTypeOK
    <3>2. \A i \in 1..Len(msg.headers) : msg.headers[i] = r.headers[i]
      BY DEF OwnHeaders
    <3> QED BY <1>4, <2>2, <3>1, <3>2, SeqEqual
  <2> QED BY <1>3, <2>1, <2>3
<1>7. CASE msg_size' \in Nat
  <2>1. InBody(r)'
    BY <1>5, <1>6, <1>7 DEF InBody, Follows
  <2>2. OwnHeaders(r)'
    BY <1>3 DEF OwnHeaders
  <2> QED BY <2>1, <2>2
<1>8. CASE msg_size' = -1
  <2>1. r.length = -1 /\ Contains(msg.headers, "cl")
    BY <1>3, <1>8 DEF Declared
  <2>2. Contains(msg'.headers, "cl")
    BY <1>3, <2>1
  <2> QED BY <1>5, <1>8, <2>1, <2>2 DEF InLimbo
<1> QED BY <1>5, <1>7, <1>8

\* A header line is added to the message, if there is room.
LEMMA HeaderGoes ==
    ASSUME ReaderTypeOK, InRoom, CutKnown, ParseLine, place' = "parse",
           NEW r \in Requests, NEW e \in LineEnds, NEW j \in 1..Len(r.headers) + 1,
           OwnHeaders(r), msg.method # "none", msg_size = -1, j <= Len(r.headers),
           Follows(0, Rest(r, e)[j]),
           \/ Len(msg.headers) = j - 1
           \/ "headers" \in accidents /\ Len(msg.headers) = MaxHeaders,
           Len(msg.headers) < j
    PROVE  InHeaders(r, e)' /\ OwnHeaders(r)'
<1>1. /\ place = "parse" /\ LineEndsAt # {} /\ HandleLine(FirstLine) /\ ~Ended
      /\ Understood(FirstLine)
  BY DEF ParseLine, Ended
<1>2. /\ FirstEnd \in 1..inbuf /\ mem[FirstEnd] \in {"cr", "lf"}
      /\ FirstLine \in Seq(Readable) /\ Len(FirstLine) = FirstEnd - 1
      /\ \A i \in 1..FirstEnd - 1 : FirstLine[i] = mem[i]
  BY <1>1, FirstEndIs
<1>3. /\ inbuf \in Nat /\ Len(Stream) = inbuf + Len(net) /\ Len(net) \in Nat
      /\ \A i \in 1..inbuf : Stream[i] = mem[i]
  BY <1>1, StreamType
<1>4. /\ Rest(r, e)[j][1] = r.headers[j] /\ r.headers[j] \in {"hdr", "cl", "long"}
      /\ Len(Rest(r, e)[j]) \in Nat \ {0}
      /\ Len(r.headers) \in Nat
  <2>1. /\ Rest(r, e)[j][1] = r.headers[j] /\ r.headers[j] \in {"hdr", "cl", "long"}
        /\ Len(Rest(r, e)[j]) \in Nat \ {0}
    <3>1. j \in 1..Len(r.headers)
      BY RequestTypes
    <3> QED BY <3>1, HeaderHead
  <2>2. Len(r.headers) \in Nat
    BY RequestTypes
  <2> QED BY <2>1, <2>2
<1>5. PICK h : h = r.headers[j]
  OBVIOUS
<1>6. mem[1] = h
  <2>1. Stream[1] = Rest(r, e)[j][1]
    <3>1. PICK t : t = Rest(r, e)[j]
      OBVIOUS
    <3>2. Len(t) \in Nat \ {0} /\ \A i \in 1..Len(t) : Stream[0 + i] = t[i]
      BY <1>4, <3>1 DEF Follows, After
    <3>3. Stream[0 + 1] = t[1]
      BY <3>2
    <3> QED BY <3>1, <3>3
  <2>2. 1 \in 1..inbuf
    BY <1>2, <1>3
  <2> QED BY <1>3, <1>4, <1>5, <2>1, <2>2
<1>7. FirstLine = <<h>> /\ FirstEnd = 2 /\ h \in {"hdr", "cl"}
  <2>1. FirstEnd - 1 \in Nat /\ FirstEnd - 1 # 0
    BY <1>2, <1>3, <1>4, <1>5, <1>6
  <2>2. FirstLine # <<>>
    <3>1. Len(<<>>) = 0
      OBVIOUS
    <3> QED BY <1>2, <2>1, <3>1
  <2>3. FirstLine \in {<<"hdr">>, <<"cl">>}
    BY <1>1, <2>2 DEF Understood
  <2>4. FirstLine[1] = h
    BY <1>2, <1>3, <1>6, <2>1
  <2>5. /\ FirstLine = <<"hdr">> => FirstLine[1] = "hdr" /\ Len(FirstLine) = 1
        /\ FirstLine = <<"cl">> => FirstLine[1] = "cl" /\ Len(FirstLine) = 1
    OBVIOUS
  <2>6. FirstLine = <<h>> /\ h \in {"hdr", "cl"} /\ Len(FirstLine) = 1
    BY <2>3, <2>4, <2>5, Zenon
  <2>7. FirstEnd = 2
    BY <1>2, <1>3, <2>6
  <2> QED BY <2>6, <2>7
<1>8. /\ msg' = AddHeader(h)
      /\ accidents' = IF Len(msg.headers) < MaxHeaders THEN accidents
                      ELSE accidents \cup {"headers"}
      /\ UNCHANGED msg_size
  <2>1. FirstLine # <<>> /\ Head(FirstLine) = h
    BY <1>7
  <2> QED BY <1>1, <2>1 DEF HandleLine
<1>9. PICK t \in Seq(Readable) :
        /\ t = Rest(r, e)[j + 1] /\ Len(t) \in Nat \ {0} /\ (t[1] # "lf" \/ t[1] = e[1])
  <2>1. PICK k \in 1..Len(r.headers) + 1 : k = j + 1
    BY <1>4
  <2>2. Rest(r, e)[k] \in Seq(Readable) /\ Len(Rest(r, e)[k]) \in Nat \ {0}
    BY RestHead
  <2>3. Rest(r, e)[k][1] # "lf" \/ Rest(r, e)[k][1] = e[1]
    <3>1. CASE k <= Len(r.headers)
      <4>1. k \in 1..Len(r.headers)
        BY <1>4, <3>1
      <4>2. Rest(r, e)[k][1] = r.headers[k] /\ r.headers[k] \in {"hdr", "cl", "long"}
        BY <4>1, HeaderHead
      <4> QED BY <4>2
    <3>2. CASE k = Len(r.headers) + 1
      BY <3>2, BodyHead
    <3> QED BY <1>4, <3>1, <3>2
  <2> QED BY <2>1, <2>2, <2>3
<1>10. \/ After(Stream', 0, t)
       \/ "cut" \in accidents /\ After(Stream', 1, t) /\ Stream'[1] = "lf"
  <2>1. PICK x \in Seq(Readable) : Len(x) = 1 /\ Rest(r, e)[j] = x \o (e \o t)
    <3>1. h # "long" /\ h = r.headers[j]
      BY <1>5, <1>7
    <3>2. /\ Rest(r, e)[j] = Text(h) \o (e \o Rest(r, e)[j + 1])
          /\ Text(h) \in Seq(Readable) /\ Len(Text(h)) = 1
      BY <3>1, RestHead
    <3> QED BY <1>9, <3>2
  <2>2. e \o t \in Seq(Readable)
    <3>1. e \in Seq(Readable)
      BY EndTypes, SeqMonotonic DEF Readable
    <3> QED BY <1>9, <3>1, ConcatProperties
  <2>3. After(Stream, 0, x \o (e \o t))
    BY <2>1 DEF Follows
  <2>4. PICK n \in Nat : n = 0
    OBVIOUS
  <2>5. PICK u \in Seq(Readable) : u = e \o t
    BY <2>2
  <2>6. After(Stream, n, x \o u)
    BY <2>3, <2>4, <2>5
  <2>7. After(Stream, n + Len(x), u)
    BY <2>6, AfterOn
  <2>8. PICK d \in Nat : d = 1
    OBVIOUS
  <2>9. Follows(d, e \o t) /\ FirstEnd = d + 1
    BY <1>7, <2>1, <2>4, <2>5, <2>7, <2>8 DEF Follows
  <2>10. e = <<"cr">> => e[1] # "lf"
    OBVIOUS
  <2> QED BY <1>9, <2>9, <2>10, LineGoes
<1>11. PICK hs \in Seq({"hdr", "cl"}) : hs = msg.headers /\ Len(hs) \in Nat
  BY LenProperties DEF ReaderTypeOK
<1>12. MaxHeaders \in Nat /\ Len(hs) <= MaxHeaders
  BY <1>11, ReaderAssumption DEF InRoom
<1>13. CASE Len(hs) < MaxHeaders
  <2>1. msg' = [msg EXCEPT !.headers = Append(hs, h)] /\ accidents' = accidents
    BY <1>8, <1>11, <1>13 DEF AddHeader, ReaderTypeOK
  <2>2. /\ msg'.headers = Append(hs, h) /\ msg'.method = msg.method
    BY <2>1 DEF ReaderTypeOK
  <2>3. /\ Len(Append(hs, h)) = Len(hs) + 1 /\ Append(hs, h)[Len(hs) + 1] = h
        /\ \A i \in 1..Len(hs) : Append(hs, h)[i] = hs[i]
    BY <1>7, <1>11, AppendProperties
  <2>4. Len(hs) = j - 1
    BY <1>11, <1>12, <1>13
  <2>5. InHeaders(r, e)'
    <3>1. j + 1 \in 1..Len(r.headers) + 1
      BY <1>4
    <3>2. /\ \/ After(Stream', 0, Rest(r, e)[j + 1])
             \/ /\ "cut" \in accidents' /\ After(Stream', 1, Rest(r, e)[j + 1])
                /\ Stream'[1] = "lf"
          /\ Len(msg'.headers) < j + 1
          /\ Len(msg'.headers) = (j + 1) - 1
      BY <1>9, <1>10, <2>1, <2>2, <2>3, <2>4
    <3> QED BY <1>8, <2>2, <3>1, <3>2 DEF InHeaders, Follows
  <2>6. OwnHeaders(r)'
    <3>1. Len(msg'.headers) <= Len(r.headers)
      BY <1>4, <2>2, <2>3, <2>4
    <3>2. ASSUME NEW i \in 1..j PROVE Append(hs, h)[i] = r.headers[i]
      <4>1. CASE i = j
        <5>1. j = Len(hs) + 1
          BY <2>4
        <5> QED BY <1>5, <2>3, <4>1, <5>1
      <4>2. CASE i # j
        <5>1. i \in 1..Len(hs)
          BY <2>4, <4>2
        <5> QED BY <1>11, <2>3, <5>1 DEF OwnHeaders
      <4> QED BY <4>1, <4>2
    <3>3. Len(msg'.headers) = j
      BY <2>2, <2>3, <2>4
    <3>4. \A i \in 1..Len(msg'.headers) : msg'.headers[i] = r.headers[i]
      BY <2>2, <3>2, <3>3
    <3> QED BY <2>1, <2>2, <3>1, <3>4 DEF OwnHeaders
  <2> QED BY <2>5, <2>6
<1>14. CASE ~(Len(hs) < MaxHeaders)
  <2>1. msg' = msg /\ accidents' = accidents \cup {"headers"}
    BY <1>8, <1>11, <1>14 DEF AddHeader, ReaderTypeOK
  <2>2. Len(hs) = MaxHeaders /\ Len(hs) < j + 1
    BY <1>11, <1>12, <1>14
  <2>3. InHeaders(r, e)'
    <3>1. j + 1 \in 1..Len(r.headers) + 1
      BY <1>4
    <3>2. /\ \/ After(Stream', 0, Rest(r, e)[j + 1])
             \/ /\ "cut" \in accidents' /\ After(Stream', 1, Rest(r, e)[j + 1])
                /\ Stream'[1] = "lf"
          /\ Len(msg'.headers) < j + 1
          /\ "headers" \in accidents' /\ Len(msg'.headers) = MaxHeaders
      BY <1>9, <1>10, <1>11, <2>1, <2>2
    <3> QED BY <1>8, <2>1, <3>1, <3>2 DEF InHeaders, Follows
  <2>4. OwnHeaders(r)'
    BY <2>1 DEF OwnHeaders
  <2> QED BY <2>3, <2>4
<1> QED BY <1>11, <1>13, <1>14

\* An LF that was cut off, or the empty line, ends the head.
LEMMA HeadersGo ==
    ASSUME ReaderTypeOK, InRoom, CutKnown, ParseLine, place' = "parse",
           NEW r \in Requests, r = sent, NEW e \in LineEnds, InHeaders(r, e), OwnHeaders(r)
    PROVE  ((InHeaders(r, e)' \/ InBody(r)') /\ OwnHeaders(r)') \/ InLimbo(r)'
<1>1. PICK j \in 1..Len(r.headers) + 1 :
        /\ \/ Follows(0, Rest(r, e)[j])
           \/ "cut" \in accidents /\ Follows(1, Rest(r, e)[j]) /\ Stream[1] = "lf"
        /\ Len(msg.headers) < j
        /\ \/ Len(msg.headers) = j - 1
           \/ "headers" \in accidents /\ Len(msg.headers) = MaxHeaders
  BY DEF InHeaders
<1>2. msg.method # "none" /\ msg_size = -1
  BY DEF InHeaders
<1>3. /\ place = "parse" /\ LineEndsAt # {} /\ ~Ended
  BY DEF ParseLine, Ended
<1>4. NoLine(Stream)
  BY <1>3, HeadersNoLine
<1>5. /\ FirstEnd \in 1..inbuf
      /\ \A i \in 1..FirstEnd - 1 : mem[i] \notin {"cr", "lf"}
      /\ inbuf \in Nat
      /\ \A i \in 1..inbuf : Stream[i] = mem[i]
  BY <1>3, FirstEndIs, StreamType
<1>6. ASSUME Stream[1] \in {"cr", "lf"} PROVE FirstEnd = 1
  <2> SUFFICES ASSUME FirstEnd # 1 PROVE FALSE
    OBVIOUS
  <2>1. 1 \in 1..FirstEnd - 1 /\ 1 \in 1..inbuf
    BY <1>5
  <2> QED BY <1>5, <1>6, <2>1
<1>7. CASE "cut" \in accidents /\ Stream[1] = "lf"
  <2>1. FirstEnd = 1
    BY <1>6, <1>7
  <2> QED BY <1>2, <1>4, <1>7, <2>1, HeadEnds
<1>8. CASE Follows(0, Rest(r, e)[j]) /\ j <= Len(r.headers)
  BY <1>1, <1>2, <1>8, HeaderGoes
<1>9. CASE Follows(0, Rest(r, e)[j]) /\ ~(j <= Len(r.headers))
  <2>1. Len(r.headers) \in Nat /\ j = Len(r.headers) + 1
    BY <1>9, RequestTypes
  <2>2. PICK u \in Seq(Readable) :
          u = e \o r.body /\ u = Rest(r, e)[j] /\ u[1] \in {"cr", "lf"} /\ Len(u) \in Nat \ {0}
    <3>1. /\ Rest(r, e)[j] = e \o r.body /\ Rest(r, e)[j][1] = e[1]
          /\ e \o r.body \in Seq(Readable) /\ Len(e \o r.body) \in Nat \ {0}
      BY <2>1, BodyHead
    <3>2. e[1] \in {"cr", "lf"}
      BY EndTypes
    <3> QED BY <3>1, <3>2, Zenon
  <2>3. Len(Stream) = 0 + Len(u) /\ \A i \in 1..Len(u) : Stream[0 + i] = u[i]
    BY <1>9, <2>2 DEF Follows, After
  <2>4. Stream[0 + 1] = u[1]
    BY <2>2, <2>3
  <2>5. FirstEnd = 1
    BY <1>6, <2>2, <2>4
  <2>6. PICK t \in Seq(Readable) : t = r.body
    BY RequestTypes, SeqMonotonic DEF Readable
  <2>7. PICK d \in Nat : d = 0
    OBVIOUS
  <2>8. Follows(d, e \o t) /\ FirstEnd = d + 1
    <3>1. e \o t = Rest(r, e)[j]
      BY <2>2, <2>6, Zenon
    <3>2. FirstEnd = d + 1
      BY <2>5, <2>7
    <3> QED BY <1>9, <2>7, <3>1, <3>2, Zenon
  <2>9. \/ After(Stream', 0, t) \/ Len(Stream') < Len(t)
        \/ "cut" \in accidents
    BY <2>8, LineGoes
  <2>10. Len(msg.headers) = Len(r.headers) \/ "headers" \in accidents
    BY <1>1, <2>1
  <2> QED BY <1>2, <1>4, <2>5, <2>6, <2>9, <2>10, HeadEnds
<1> QED BY <1>1, <1>7, <1>8, <1>9

\* Whatever is taken for a header changes nothing about a length below zero.
LEMMA LimboGoes ==
    ASSUME ReaderTypeOK, InRoom, ParseLine, place' = "parse",
           NEW r \in Requests, r = sent, InLimbo(r)
    PROVE  InLimbo(r)'
<1>1. /\ msg.method # "none" /\ msg_size = -1 /\ NoLine(Stream)
      /\ r.length = -1 /\ Contains(msg.headers, "cl")
  BY DEF InLimbo
<1>2. NoLine(Stream')
  BY <1>1, ParseNoLine
<1>3. \/ /\ msg_size' = msg_size
         /\ \E h \in {"hdr", "cl"} : msg' = AddHeader(h)
      \/ msg_size' = Declared /\ msg' = msg
  BY <1>1 DEF ParseLine, HandleLine
<1>4. CASE msg_size' = Declared /\ msg' = msg
  BY <1>1, <1>2, <1>4 DEF InLimbo, Declared
<1>5. CASE /\ msg_size' = msg_size
           /\ \E h \in {"hdr", "cl"} : msg' = AddHeader(h)
  <2>1. PICK h \in {"hdr", "cl"} : msg' = AddHeader(h)
    BY <1>5
  <2>2. PICK hs \in Seq({"hdr", "cl"}) : hs = msg.headers
    BY DEF ReaderTypeOK
  <2>3. PICK i \in 1..Len(hs) : hs[i] = "cl"
    BY <1>1, <2>2 DEF Contains
  <2>4. msg'.method = msg.method /\ msg'.headers \in {hs, Append(hs, h)}
    BY <2>1, <2>2 DEF AddHeader, ReaderTypeOK
  <2>5. /\ Append(hs, h)[i] = "cl" /\ Len(hs) \in Nat
        /\ Len(Append(hs, h)) = Len(hs) + 1
    BY <2>2, <2>3, LenProperties
  <2>6. Contains(hs, "cl") /\ Contains(Append(hs, h), "cl")
    BY <2>3, <2>5 DEF Contains
  <2>7. Contains(msg'.headers, "cl")
    BY <2>4, <2>6
  <2> QED BY <1>1, <1>2, <1>5, <2>4, <2>7 DEF InLimbo
<1> QED BY <1>3, <1>4, <1>5

\* The line taken out is the one whose turn it was.
LEMMA ParseFraming ==
    ASSUME ReaderTypeOK, InRoom, CutKnown, Framing, ParseLine
    PROVE  Framing' /\ sent # NoRequest
<1>1. /\ place = "parse" /\ LineEndsAt # {} /\ ~Ended /\ Understood(FirstLine)
      /\ place' \in {"parse", "crash"} /\ sent' = sent /\ msg_size < 0
  BY DEF ParseLine, Ended, client
<1>2. sent # NoRequest
  BY <1>1, QuietRefuses DEF Framing
<1>3. CASE place' = "crash"
  BY <1>2, <1>3 DEF Framing, Ended
<1>4. CASE place' = "parse"
  <2>1. PICK r \in Requests : r = sent
    BY <1>2 DEF ReaderTypeOK
  <2>2. sent' = r
    BY <1>1, <2>1
  <2>3. CASE InLimbo(r)
    <3>1. InLimbo(r)'
      BY <1>4, <2>1, <2>3, LimboGoes
    <3> QED BY <1>2, <2>1, <2>2, <3>1 DEF Framing
  <2>4. CASE ~InLimbo(r)
    <3>1. OwnHeaders(r) /\ ((\E e \in LineEnds : BeforeLine(r, e) \/ InHeaders(r, e)) \/ InBody(r))
      BY <1>1, <1>2, <2>1, <2>4 DEF Framing
    <3>2. ~InBody(r)
      BY <1>1 DEF InBody, ReaderTypeOK
    <3>3. PICK e \in LineEnds : BeforeLine(r, e) \/ InHeaders(r, e)
      BY <3>1, <3>2
    <3>4. (OwnHeaders(r)' /\ (InHeaders(r, e)' \/ InBody(r)')) \/ InLimbo(r)'
      <4>1. CASE BeforeLine(r, e)
        BY <1>4, <4>1, ParseBefore
      <4>2. CASE InHeaders(r, e)
        BY <1>4, <2>1, <3>1, <4>2, HeadersGo
      <4> QED BY <3>3, <4>1, <4>2
    <3> QED BY <1>2, <2>1, <2>2, <3>4 DEF Framing
  <2> QED BY <2>3, <2>4
<1> QED BY <1>1, <1>2, <1>3, <1>4

-----------------------------------------------------------------------------
\* The other steps leave the stream as it is, lose some of it in the body,
\* forget what is in the buffer, or add a request to it.
LEMMA SameFraming ==
    ASSUME ReaderTypeOK, Framing, UNCHANGED <<sent, msg, msg_size>>, ~Ended' => ~Ended,
           ~Ended' => Stream' = Stream,
           accidents \subseteq accidents', "left" \in accidents' => "left" \in accidents
    PROVE  Framing'
<1> SUFFICES ASSUME ~Ended' PROVE Framing'
  BY DEF Framing
<1>1. ~Ended /\ Stream' = Stream
  OBVIOUS
<1>2. CASE sent = NoRequest
  <2>1. Quiet
    BY <1>1, <1>2 DEF Framing
  <2>2. Quiet'
    BY <1>1, <2>1 DEF Quiet, NoLine
  <2> QED BY <1>2, <2>2 DEF Framing
<1>3. CASE sent # NoRequest
  <2>1. PICK r \in Requests : r = sent
    BY <1>3 DEF ReaderTypeOK
  <2>2. \/ InLimbo(r)
        \/ OwnHeaders(r) /\ ((\E e \in LineEnds : BeforeLine(r, e) \/ InHeaders(r, e)) \/ InBody(r))
    BY <1>1, <1>3, <2>1 DEF Framing
  <2>3. ASSUME OwnHeaders(r) PROVE OwnHeaders(r)'
    BY <2>3 DEF OwnHeaders
  <2>8. ASSUME InLimbo(r) PROVE InLimbo(r)'
    BY <1>1, <2>8 DEF InLimbo, NoLine
  <2>4. ASSUME NEW e \in LineEnds, BeforeLine(r, e) PROVE BeforeLine(r, e)'
    BY <1>1, <2>4 DEF BeforeLine, Follows
  <2>5. ASSUME NEW e \in LineEnds, InHeaders(r, e) PROVE InHeaders(r, e)'
    BY <1>1, <2>5 DEF InHeaders, Follows
  <2>6. ASSUME InBody(r) PROVE InBody(r)'
    BY <1>1, <2>6 DEF InBody, Follows, NoLine
  <2>7. \/ InLimbo(r)'
        \/ /\ OwnHeaders(r)'
           /\ (\E e \in LineEnds : BeforeLine(r, e)' \/ InHeaders(r, e)') \/ InBody(r)'
    BY <2>2, <2>3, <2>4, <2>5, <2>6, <2>8
  <2> QED BY <1>3, <2>1, <2>7 DEF Framing
<1> QED BY <1>2, <1>3

\* A read moves bytes from the wire into the buffer: the stream is the same.
LEMMA ReadStream ==
    ASSUME ReaderTypeOK, InRoom, ~Ended, NEW k \in 1..Len(net), inbuf + k <= Len(mem),
           mem' = Store(k), Consume(k), inbuf' = inbuf + k
    PROVE  Stream' = Stream
<1>1. /\ inbuf \in 0..Len(mem) /\ inbuf \in Nat /\ Len(mem) \in Nat /\ Len(net) \in Nat
  BY LenProperties DEF ReaderTypeOK, InRoom, Ended
<1>2. PICK m1, n1, k1 : m1 = mem' /\ n1 = net' /\ k1 = inbuf'
  BY Zenon
<1>3. /\ \A i \in 1..Len(mem) : m1[i] =
                 IF i \in inbuf + 1..inbuf + k THEN net[i - inbuf] ELSE mem[i]
      /\ Len(n1) = Len(net) - k
      /\ \A i \in 1..Len(net) - k : n1[i] = net[k + i]
  BY <1>1, <1>2, ReadStores DEF Consume
<1>4. k1 = inbuf + k /\ k1 \in Nat /\ k1 - inbuf = k /\ inbuf <= k1
  BY <1>1, <1>2
<1>5. ASSUME NEW i \in 1..inbuf + Len(net)
      PROVE  (IF i <= k1 THEN m1[i] ELSE n1[i - k1]) = (IF i <= inbuf THEN mem[i] ELSE net[i - inbuf])
  <2>1. CASE i <= k1
    <3>1. i \in 1..Len(mem)
      BY <1>1, <1>4, <2>1
    <3> QED BY <1>1, <1>3, <1>4, <2>1, <3>1
  <2>2. CASE ~(i <= k1)
    <3>1. i - k1 \in 1..Len(net) - k /\ k + (i - k1) = i - inbuf /\ ~(i <= inbuf)
      BY <1>1, <1>4, <2>2
    <3> QED BY <1>3, <2>2, <3>1
  <2> QED BY <2>1, <2>2
<1>6. k1 + Len(n1) = inbuf + Len(net)
  BY <1>1, <1>3, <1>4
<1>7. Joined(m1, k1, n1) = Joined(mem, inbuf, net)
  BY <1>5, <1>6 DEF Joined
<1> QED BY <1>2, <1>7 DEF Stream

\* So it keeps the place in the request; a body's bytes leave the stream.
LEMMA ReadFraming ==
    ASSUME ReaderTypeOK, InRoom, Framing, ReadHead \/ ReadBody
    PROVE  Framing'
<1>1. CASE ReadHead
  <2>1. PICK k \in 1..Len(net) :
          /\ inbuf + k <= Size
          /\ mem' = Store(k) /\ Consume(k) /\ inbuf' = inbuf + k
          /\ accidents' = IF net[k] = "cr" /\ LfMayFollow(k)
                          THEN accidents \cup {"cut"} ELSE accidents
    BY <1>1 DEF ReadHead
  <2>2. /\ UNCHANGED <<sent, msg, msg_size>> /\ ~Ended /\ Len(mem) = Size + 1
        /\ accidents' \in {accidents, accidents \cup {"cut"}}
    BY <1>1, <2>1 DEF ReadHead, Ended, InRoom
  <2>3. inbuf + k <= Len(mem)
    BY <1>1, <2>1, <2>2, ReaderAssumption DEF ReaderTypeOK
  <2>4. Stream' = Stream
    BY <2>1, <2>2, <2>3, ReadStream
  <2> QED BY <2>2, <2>4, SameFraming
<1>2. CASE ReadBody
  <2>1. PICK k \in 1..Len(net) :
        /\ inbuf + k <= msg_size
        /\ Consume(k)
        /\ IF Keeps(k)
           THEN mem' = Store(k) /\ inbuf' = inbuf + k /\ UNCHANGED accidents
           ELSE accidents' = accidents \cup {"four"} /\ UNCHANGED <<mem, inbuf>>
    BY <1>2 DEF ReadBody
  <2>2. /\ UNCHANGED <<sent, msg, msg_size>> /\ ~Ended /\ ~Ended' /\ msg_size \in 0..Len(mem)
        /\ inbuf \in 0..Len(mem) /\ Len(mem) \in Nat
    BY <1>2, LenProperties DEF ReadBody, Ended, InRoom, ReaderTypeOK
  <2>3. CASE Keeps(k)
    <3>1. inbuf + k <= Len(mem)
      BY <2>1, <2>2
    <3>2. Stream' = Stream
      BY <2>1, <2>2, <2>3, <3>1, ReadStream
    <3> QED BY <2>1, <2>2, <2>3, <3>2, SameFraming
  <2>4. CASE ~Keeps(k)
    <3>1. accidents' = accidents \cup {"four"} /\ mem' = mem /\ inbuf' = inbuf
      BY <2>1, <2>4
    <3>2. sent # NoRequest
      BY <2>2 DEF Framing, Quiet
    <3>3. PICK r \in Requests : r = sent
      BY <3>2 DEF ReaderTypeOK
    <3>4. OwnHeaders(r) /\ InBody(r)
      BY <2>2, <3>2, <3>3 DEF Framing, BeforeLine, InHeaders, InLimbo
    <3>5. NoLine(Stream')
      <4>1. /\ Len(Stream) = inbuf + Len(net) /\ inbuf \in Nat /\ Len(net) \in Nat
            /\ \A i \in 1..inbuf : Stream[i] = mem[i]
            /\ \A i \in 1..Len(net) : Stream[inbuf + i] = net[i]
        BY <2>2, StreamType
      <4>2. PICK n1 : n1 = net'
        BY Zenon
      <4>3. /\ Len(n1) = Len(net) - k
            /\ \A i \in 1..Len(net) - k : n1[i] = net[k + i]
        BY <2>1, <2>2, <4>2, ReadStores DEF Consume
      <4>4. Stream' = [i \in 1..inbuf + Len(n1) |-> IF i <= inbuf THEN mem[i] ELSE n1[i - inbuf]]
        BY <3>1, <4>2 DEF Stream, Joined
      <4>5. PICK s : s = Stream'
        BY Zenon
      <4>6. ASSUME NEW i \in 1..inbuf + Len(n1) PROVE s[i] # "line"
        <5>1. CASE i <= inbuf
          <6>1. i \in 1..Len(Stream) /\ Stream[i] = mem[i] /\ s[i] = mem[i]
            BY <4>1, <4>3, <4>4, <4>5, <5>1
          <6> QED BY <3>4, <6>1 DEF InBody, NoLine
        <5>2. CASE ~(i <= inbuf)
          <6>1. i - inbuf \in 1..Len(net) - k
            BY <4>1, <4>3, <5>2
          <6>2. k + (i - inbuf) \in 1..Len(net) /\ inbuf + (k + (i - inbuf)) \in 1..Len(Stream)
            BY <4>1, <6>1
          <6>3. s[i] = n1[i - inbuf]
            BY <4>4, <4>5, <5>2
          <6>4. s[i] = Stream[inbuf + (k + (i - inbuf))]
            BY <4>1, <4>3, <6>1, <6>2, <6>3
          <6> QED BY <3>4, <6>2, <6>4 DEF InBody, NoLine
        <5> QED BY <5>1, <5>2
      <4>7. Len(s) = inbuf + Len(n1)
        BY <4>1, <4>3, <4>4, <4>5
      <4>8. NoLine(s)
        BY <4>6, <4>7 DEF NoLine
      <4> QED BY <4>5, <4>8
    <3>6. InBody(r)'
      BY <2>2, <3>1, <3>4, <3>5 DEF InBody
    <3>7. OwnHeaders(r)'
      BY <2>2, <3>1, <3>4 DEF OwnHeaders
    <3> QED BY <2>2, <3>2, <3>3, <3>6, <3>7 DEF Framing
  <2> QED BY <2>3, <2>4
<1> QED BY <1>1, <1>2

\* After the response nobody reads what is left as a request.
LEMMA RespondFraming ==
    ASSUME ReaderTypeOK, InRoom, Framing, Respond
    PROVE  Framing'
<1>1. /\ ~Ended /\ msg_size >= 0 /\ msg_size # -1
      /\ sent' = NoRequest /\ net' = net /\ mem' = Fresh /\ inbuf' = 0
      /\ msg' = NoMsg /\ msg_size' = -1
  BY DEF Respond, Ended, InRoom
<1>2. NoLine(Stream)
  BY <1>1 DEF Framing, Quiet, BeforeLine, InHeaders, InLimbo, InBody
<1>3. /\ Len(Stream) = inbuf + Len(net) /\ inbuf \in Nat /\ Len(net) \in Nat
      /\ \A i \in 1..Len(net) : Stream[inbuf + i] = net[i]
  BY <1>1, StreamType
<1>4. Stream' = [i \in 1..0 + Len(net) |-> IF i <= 0 THEN Fresh[i] ELSE net[i - 0]]
  BY <1>1 DEF Stream, Joined
<1>5. PICK s : s = Stream'
  BY Zenon
<1>6. ASSUME NEW i \in 1..Len(net) PROVE s[i] # "line"
  <2>1. s[i] = net[i]
    BY <1>3, <1>4, <1>5
  <2>2. inbuf + i \in 1..Len(Stream)
    BY <1>3
  <2> QED BY <1>2, <1>3, <2>1, <2>2 DEF NoLine
<1>7. Len(s) = Len(net)
  BY <1>3, <1>4, <1>5
<1>8. NoLine(s)
  BY <1>6, <1>7 DEF NoLine
<1> QED BY <1>1, <1>5, <1>8 DEF Framing, Quiet

\* A request is sent behind what is left of others.
LEMMA SendFraming ==
    ASSUME ReaderTypeOK, InRoom, Framing, Send
    PROVE  Framing'
<1> SUFFICES ASSUME ~Ended PROVE Framing'
  BY DEF Framing, Send, Ended
<1>1. PICK r \in Requests, e \in LineEnds :
             /\ sent' = r
             /\ net' = net \o (<<"line">> \o (e \o Rest(r, e)[1]))
             /\ <<"line">> \o (e \o Rest(r, e)[1]) \in Seq(Readable)
  BY SendNet
<1>2. /\ mem' = mem /\ inbuf' = inbuf /\ msg' = msg /\ msg_size' = msg_size
      /\ accidents' = IF net = <<>> THEN {} ELSE {"left"}
  BY DEF Send, buffer
<1>3. Quiet
  BY DEF Send, Framing
<1>4. /\ Len(Stream) = inbuf + Len(net) /\ inbuf \in Nat /\ Len(net) \in Nat
      /\ \A i \in 1..inbuf : Stream[i] = mem[i]
      /\ \A i \in 1..Len(net) : Stream[inbuf + i] = net[i]
  BY StreamType
<1>5. PICK u \in Seq(Readable) : u = e \o Rest(r, e)[1]
  <2>1. e \o Rest(r, e)[1] \in Seq(Sendable)
    BY SentType
  <2> QED BY <2>1, SeqMonotonic DEF Readable
<1>6. PICK v \in Seq(Readable) : v = <<"line">> \o u
  BY <1>1, <1>5
<1>7. /\ Len(u) \in Nat /\ Len(v) = 1 + Len(u) /\ v[1] = "line"
      /\ \A i \in 1..Len(u) : v[1 + i] = u[i]
  BY <1>5, <1>6
<1>8. PICK n1 : n1 = net' /\ n1 = net \o v
  BY <1>1, <1>5, <1>6
<1>9. /\ Len(n1) = Len(net) + Len(v)
      /\ \A i \in 1..Len(net) : n1[i] = net[i]
      /\ \A i \in 1..Len(v) : n1[Len(net) + i] = v[i]
  BY <1>4, <1>6, <1>7, <1>8 DEF ReaderTypeOK
<1>10. PICK s : s = Stream'
  BY Zenon
<1>11. s = [i \in 1..inbuf + Len(n1) |-> IF i <= inbuf THEN mem[i] ELSE n1[i - inbuf]]
  BY <1>2, <1>8, <1>10 DEF Stream, Joined
<1>12. PICK p \in Nat : p = Len(Stream) + 1
  BY <1>4
<1>13. Len(s) = p + Len(u)
  BY <1>4, <1>7, <1>9, <1>11, <1>12
<1>14. ASSUME NEW i \in 1..p - 1 PROVE s[i] # "line"
  <2>1. i \in 1..Len(Stream) /\ i \in 1..inbuf + Len(n1)
    BY <1>4, <1>7, <1>9, <1>12
  <2>2. s[i] = Stream[i]
    <3>1. CASE i <= inbuf
      BY <1>4, <1>11, <2>1, <3>1
    <3>2. CASE ~(i <= inbuf)
      <4>1. i - inbuf \in 1..Len(net) /\ inbuf + (i - inbuf) = i
        BY <1>4, <2>1, <3>2
      <4>2. s[i] = n1[i - inbuf]
        BY <1>11, <2>1, <3>2
      <4> QED BY <1>4, <1>9, <4>1, <4>2
    <3> QED BY <3>1, <3>2
  <2> QED BY <1>3, <2>1, <2>2 DEF Quiet, NoLine
<1>15. ASSUME NEW i \in 1..Len(v) PROVE s[p + i - 1] = v[i]
  <2>1. PICK q \in 1..inbuf + Len(n1) :
          q = p + i - 1 /\ ~(q <= inbuf) /\ q - inbuf = Len(net) + i
    BY <1>4, <1>7, <1>9, <1>12
  <2>2. s[q] = n1[q - inbuf]
    BY <1>11, <2>1
  <2> QED BY <1>9, <2>1, <2>2
<1>16. s[p] = "line" /\ p \in 1..Len(s)
  <2>1. 1 \in 1..Len(v) /\ p + 1 - 1 = p /\ p \in 1..Len(s)
    BY <1>4, <1>7, <1>12, <1>13
  <2>2. s[p + 1 - 1] = v[1]
    BY <1>15, <2>1
  <2> QED BY <1>7, <2>1, <2>2
<1>17. After(s, p, u)
  <2>1. ASSUME NEW i \in 1..Len(u) PROVE s[p + i] = u[i]
    <3>1. PICK j \in 1..Len(v) : j = 1 + i /\ p + j - 1 = p + i
      BY <1>7, <1>12
    <3>2. s[p + j - 1] = v[j]
      BY <1>15
    <3> QED BY <1>7, <3>1, <3>2
  <2> QED BY <1>13, <2>1 DEF After
<1>18. "left" \in accidents' => p > 1
  <2> SUFFICES ASSUME net # <<>> PROVE p > 1
    BY <1>2
  <2>1. Len(net) # 0
    BY EmptySeq DEF ReaderTypeOK
  <2> QED BY <1>4, <1>12, <2>1
<1>19. BeforeLine(r, e)'
  <2>1. /\ p \in 1..Len(Stream') /\ Stream'[p] = "line"
        /\ \A i \in 1..p - 1 : Stream'[i] # "line"
        /\ After(Stream', p, e \o Rest(r, e)[1])
    BY <1>5, <1>10, <1>14, <1>16, <1>17
  <2>2. msg' = NoMsg /\ msg_size' = -1
    BY <1>2, <1>3 DEF Quiet
  <2> QED BY <1>18, <2>1, <2>2 DEF BeforeLine, Follows
<1>20. OwnHeaders(r)'
  <2>1. msg'.headers = <<>> /\ msg'.method = "none" /\ Len(<<>>) = 0 /\ Len(r.headers) \in Nat
    BY <1>2, <1>3, RequestTypes DEF Quiet, NoMsg
  <2> QED BY <2>1 DEF OwnHeaders
<1>21. sent' # NoRequest
  BY <1>1, RequestTypes
<1> QED BY <1>1, <1>19, <1>20, <1>21 DEF Framing

\* Every step keeps the place in the request.
LEMMA FramingStep ==
    ASSUME ReaderTypeOK, InRoom, CutKnown, Framing, [Next]_vars
    PROVE  Framing'
<1>1. CASE EndHead
  <2>1. /\ UNCHANGED <<net, inbuf, sent, msg, msg_size, accidents>> /\ ~Ended /\ ~Ended'
    BY <1>1 DEF EndHead, client, Ended
  <2>2. \A i \in 1..inbuf : mem'[i] = mem[i]
    BY <1>1, EndHeadRoom
  <2>3. Len(net) \in Nat /\ inbuf \in Nat
    BY <2>1, StreamType
  <2>4. PICK m : m = mem'
    BY Zenon
  <2>5. Joined(m, inbuf, net) = Joined(mem, inbuf, net)
    BY <2>2, <2>3, <2>4 DEF Joined
  <2>6. Stream' = Stream
    BY <2>1, <2>4, <2>5 DEF Stream
  <2> QED BY <2>1, <2>6, SameFraming
<1>2. CASE HangUp \/ Ask \/ UNCHANGED vars
  <2>1. UNCHANGED <<net, inbuf, mem, sent, msg, msg_size, accidents, place>>
    BY <1>2 DEF HangUp, Ask, vars, client, buffer
  <2>2. Stream' = Stream /\ Ended' = Ended
    BY <2>1 DEF Stream, Ended
  <2> QED BY <2>1, <2>2, SameFraming
<1>3. CASE Test \/ ReadNothing \/ Interrupt \/ NoHeader \/ TooMuchContent \/ NeedMore \/ Deliver
  <2>1. UNCHANGED <<net, inbuf, mem, sent, msg, msg_size, accidents>> /\ ~Ended
    BY <1>3 DEF Test, ReadNothing, Interrupt, NoHeader, TooMuchContent, NeedMore, Deliver, client, buffer, Ended
  <2>2. Stream' = Stream
    BY <2>1 DEF Stream
  <2> QED BY <2>1, <2>2, SameFraming
<1>4. CASE ParseLine
  BY <1>4, ParseFraming
<1>5. CASE ReadHead \/ ReadBody
  BY <1>5, ReadFraming
<1>6. CASE Respond
  BY <1>6, RespondFraming
<1>7. CASE Send
  BY <1>7, SendFraming
<1> QED BY <1>1, <1>2, <1>3, <1>4, <1>5, <1>6, <1>7 DEF Next, Read

\* Every step keeps what is known of a cut line end,
LEMMA CutStep ==
    ASSUME ReaderTypeOK, InRoom, CutKnown, Framing, [Next]_vars
    PROVE  CutKnown'
<1>1. CASE ParseLine
  BY <1>1, ParseCutKnown
<1>2. CASE ReadHead
  BY <1>2, ReadCutKnown
<1>3. CASE HangUp \/ Ask \/ UNCHANGED vars
  BY <1>3 DEF HangUp, Ask, vars, client, buffer, CutKnown, Understood, FirstLine, FirstEnd,
              LineEndsAt, RequestLine
<1>4. CASE Send
  <2> SUFFICES ASSUME place = "parse", msg_size < 0, inbuf > 0, mem[inbuf] = "cr",
                      Understood(FirstLine)
               PROVE  FALSE
    BY <1>4 DEF Send, buffer, CutKnown, Understood, FirstLine, FirstEnd, LineEndsAt, RequestLine
  <2>1. Quiet
    BY <1>4 DEF Framing, Send, Ended
  <2>2. LineEndsAt # {}
    <3>1. inbuf \in LineEndsAt
      BY DEF LineEndsAt, ReaderTypeOK
    <3> QED BY <3>1
  <2> QED BY <2>1, <2>2, QuietRefuses
<1>5. CASE Test \/ ReadNothing \/ Interrupt \/ NoHeader \/ TooMuchContent \/ NeedMore \/ Deliver \/ EndHead
           \/ ReadBody \/ Respond
  <2>1. place' # "parse"
    BY <1>5 DEF Test, ReadNothing, Interrupt, NoHeader, TooMuchContent, NeedMore, Deliver, EndHead, ReadBody,
                Respond
  <2> QED BY <2>1 DEF CutKnown
<1> QED BY <1>1, <1>2, <1>3, <1>4, <1>5 DEF Next, Read

\* and of a length below zero.
LEMMA CrashStep ==
    ASSUME ReaderTypeOK, InRoom, CutKnown, Framing, CrashKnown, [Next]_vars
    PROVE  CrashKnown'
<1>1. CASE ParseLine
  <2> SUFFICES ASSUME place' = "crash" PROVE "cut" \in accidents' /\ sent' # NoRequest
    BY DEF CrashKnown
  <2>1. inbuf' < 0
    BY <1>1 DEF ParseLine
  <2>2. "cut" \in accidents /\ sent # NoRequest
    BY <1>1, <2>1, ParseCuts, ParseFraming
  <2>3. accidents \subseteq accidents' /\ sent' = sent
    BY <1>1, HandleType DEF ParseLine, client
  <2> QED BY <2>2, <2>3
<1>2. CASE HangUp \/ Ask \/ UNCHANGED vars
  BY <1>2 DEF HangUp, Ask, vars, client, CrashKnown
<1>3. CASE Send
  BY <1>3 DEF Send, CrashKnown
<1>4. CASE Test \/ ReadNothing \/ Interrupt \/ NoHeader \/ TooMuchContent \/ NeedMore \/ Deliver \/ EndHead
           \/ ReadHead \/ ReadBody \/ Respond
  <2>1. place' # "crash"
    BY <1>4 DEF Test, ReadNothing, Interrupt, NoHeader, TooMuchContent, NeedMore, Deliver, EndHead, ReadHead,
                ReadBody, Respond
  <2> QED BY <2>1 DEF CrashKnown
<1> QED BY <1>1, <1>2, <1>3, <1>4 DEF Next, Read

\* The reader's inductive invariant.
ReaderInv == ReaderTypeOK /\ InRoom /\ CutKnown /\ CrashKnown /\ Framing

\* Nothing has been sent at the start.
LEMMA InitReader == Init => ReaderInv
<1> SUFFICES ASSUME Init PROVE ReaderInv
  OBVIOUS
<1>1. ReaderTypeOK /\ InRoom
  BY InitRoom
<1>2. Len(Stream) = 0
  BY DEF Init, Stream, Joined
<1>3. Framing
  BY <1>2 DEF Init, Framing, Quiet, NoLine
<1> QED BY <1>1, <1>3 DEF Init, CutKnown, CrashKnown, ReaderInv

\* At every step of the reader the buffer, the message and the bytes still to
\* be read are the parts of one request that rtsp.c 257-323 makes of it.
THEOREM ReaderFrames == Spec => []ReaderInv
<1>1. ReaderInv /\ [Next]_vars => ReaderInv'
  BY RoomStep, CutStep, CrashStep, FramingStep DEF ReaderInv
<1> QED BY <1>1, InitReader, PTL DEF Spec

\* No line end is looked for beyond what was read unless an LF was cut off; no
\* read writes past the buffer, and no message takes more headers than fit
\* (rtsp.c 124-166, 278-319).
THEOREM RoomForAll == Spec => []StaysInRoom
<1>1. ReaderInv => StaysInRoom
  BY DEF ReaderInv, InRoom, CrashKnown, StaysInRoom
<1> QED BY <1>1, ReaderFrames, PTL

\* What is handled has a known length, so it is of a request that was sent.
LEMMA HandledInBody ==
    ASSUME ReaderInv, place = "handle"
    PROVE  sent # NoRequest /\ OwnHeaders(sent) /\ InBody(sent) /\ sent \in Requests
BY DEF ReaderInv, ReaderTypeOK, InRoom, Framing, Quiet, BeforeLine, InHeaders, InLimbo, Ended

\* The headers handled are those of one request, whatever happened to it
\* (rtsp.c 155-166, 203-240).
THEOREM HeadersBelong == Spec => []HeadersOfOneRequest
<1>1. ASSUME ReaderInv, place = "handle" PROVE IsPrefix(msg.headers, sent.headers)
  <2>1. OwnHeaders(sent) /\ sent \in Requests
    BY <1>1, HandledInBody
  <2> DEFINE T == {"hdr", "cl", "long"}
  <2>2. PICK a \in Seq(T) : a = msg.headers
    BY <1>1, SeqMonotonic DEF ReaderInv, ReaderTypeOK
  <2>3. PICK b \in Seq(T) : b = sent.headers
    BY <2>1, RequestTypes
  <2>4. /\ Len(a) \in Nat /\ Len(b) \in Nat /\ Len(a) <= Len(b)
        /\ \A i \in 1..Len(a) : a[i] = b[i]
    BY <2>1, <2>2, <2>3, LenProperties DEF OwnHeaders
  <2> HIDE DEF T
  <2>5. SubSeq(a, 1, Len(a)) = SubSeq(b, 1, Len(a))
    BY <2>2, <2>3, <2>4
  <2> QED BY <2>2, <2>3, <2>4, <2>5 DEF IsPrefix
<1>2. ReaderInv => HeadersOfOneRequest
  BY <1>1 DEF HeadersOfOneRequest
<1> QED BY <1>2, ReaderFrames, PTL

\* Once bytes of one request are left for the next, no method is known any
\* more (rtsp.c 206-226, 805-811).
THEOREM NothingOutOfStep == Spec => []NothingHandledOutOfStep
<1>1. ReaderInv => NothingHandledOutOfStep
  BY HandledInBody DEF NothingHandledOutOfStep, OwnHeaders, InBody, ReaderInv, ReaderTypeOK
<1> QED BY <1>1, ReaderFrames, PTL

\* When nothing happens to a request on its way and the length it gives is its
\* body's, what is handled is what was sent (rtsp.c 257-323).
THEOREM Frames == Spec => []FramedAsSent
<1>1. ASSUME ReaderInv, place = "handle", accidents = {}
      PROVE  msg.headers = sent.headers /\ Content = sent.body
  <2>1. PICK r \in Requests : r = sent /\ InBody(r)
    BY <1>1, HandledInBody
  <2>2. /\ msg.headers = r.headers /\ msg_size = Len(r.body)
        /\ Follows(0, r.body) \/ Len(Stream) < msg_size
    BY <1>1, <2>1 DEF InBody
  <2>3. /\ Len(Stream) = inbuf + Len(net) /\ inbuf \in Nat /\ Len(net) \in Nat
        /\ \A i \in 1..inbuf : Stream[i] = mem[i]
    BY <1>1, StreamType DEF ReaderInv, Ended
  <2>4. inbuf >= msg_size /\ mem \in Seq(Bytes) /\ inbuf \in 0..Len(mem)
    BY <1>1 DEF ReaderInv, InRoom, ReaderTypeOK
  <2>5. PICK b \in Seq(Bytes) : b = r.body /\ Len(b) \in Nat
    BY <2>1, RequestTypes, SeqMonotonic, LenProperties DEF Bytes, Readable
  <2>6. After(Stream, 0, b)
    BY <2>2, <2>3, <2>4, <2>5 DEF Follows
  <2>7. Len(Stream) = 0 + Len(b) /\ \A i \in 1..Len(b) : Stream[0 + i] = b[i]
    BY <2>6 DEF After
  <2>8. inbuf = Len(b) /\ \A i \in 1..inbuf : mem[i] = b[i]
    BY <2>2, <2>3, <2>4, <2>5, <2>7
  <2>9. SubSeq(mem, 1, inbuf) = b
    BY <2>4, <2>5, <2>8
  <2> QED BY <2>1, <2>2, <2>5, <2>9 DEF Content
<1>2. ReaderInv => FramedAsSent
  BY <1>1 DEF FramedAsSent
<1> QED BY <1>2, ReaderFrames, PTL
====
