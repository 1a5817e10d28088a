------------------------------ MODULE Mdnsd_proofs ------------------------------
(***************************************************************************)
(* Theorems about Mdnsd, for all interfaces, packets and bounds: types;    *)
(* that mdnsd_stop frees nothing the responder still uses, with every      *)
(* service taken back by then (StopInv ties the responder's place to       *)
(* stop_flag, and nothing is registered once it is set); that replies are  *)
(* whole (ReplyInv: what a record that has had its turn leads to is added  *)
(* or still to be looked up); and that queries are answered exactly        *)
(* (AnswerInv: a question is still to be looked up or fully answered).     *)
(*                                                                         *)
(* And about DnsReply: what a reply says survives its bytes, for all       *)
(* records (RepliesSurvive).  Loops are unfolded first: UpTo, Recursion    *)
(* and, for each loop, what its function's values are.  Then what lies in  *)
(* a packet (Holds) is followed: a name is spelled where a walk from there *)
(* leads over its labels (Spelled), a name that is written is spelled      *)
(* there as long as those known before are (CompIs, NameWritten), a record *)
(* is read where it was written (RecordRead), and so is each of a reply's  *)
(* (RecordsRead).  Last, a name is cut from its text where its labels end  *)
(* (CutRead).                                                              *)
(***************************************************************************)
EXTENDS Mdnsd, DnsReply, SequenceTheorems, FiniteSetTheorems, TLAPS

StopInv ==
    /\ place \in {"test", "select", "blocked", "receiving", "build", "send",
                  "announce", "goodbye", "close", "ended", "stuck", "aborted"}
    /\ stop_flag # 0 => main \in {"running", "stopping", "waiting", "freed", "aborted"}
    /\ place \in {"goodbye", "close", "ended"} => stop_flag # 0
    /\ place = "ended" <=> stop_flag = 2
    /\ place \in {"close", "ended"} => Range(services) \subseteq goodbye
    /\ main = "freed" => stop_flag = 2

\* The initial state satisfies the invariant.
LEMMA StopInit == Init => StopInv
BY DEF Init, StopInv

\* The registering thread's steps keep it.
LEMMA CallerKeeps == StopInv /\ (Register \/ Unregister \/ Stop \/ StopInResponder)
                         => StopInv'
<1> USE DEF StopInv, lists, pipe, build
<1>1. StopInv /\ NoInterface => StopInv'
    BY DEF NoInterface
<1>2. StopInv /\ SetHostname => StopInv'
    BY DEF SetHostname
<1>3. StopInv /\ AddRR => StopInv'
    BY DEF AddRR
<1>4. StopInv /\ RegisterService => StopInv'
    BY DEF RegisterService
<1>5. StopInv /\ Notify => StopInv'
    BY DEF Notify
<1>6. StopInv /\ Stop => StopInv'
    BY DEF Stop
<1>7. StopInv /\ Wake => StopInv'
    BY DEF Wake
<1>8. StopInv /\ Free => StopInv'
    BY DEF Free
<1>9. StopInv /\ StopInResponder => StopInv'
    BY DEF StopInResponder
<1> QED
    BY <1>1, <1>2, <1>3, <1>4, <1>5, <1>6, <1>7, <1>8, <1>9
       DEF Register, Unregister

\* So do the responder's.
LEMMA ResponderKeeps == StopInv /\ Respond => StopInv'
<1> USE DEF StopInv, lists, pipe, build
<1>1. StopInv /\ Test => StopInv'
    BY DEF Test
<1>2. StopInv /\ ReadNotify => StopInv'
    BY DEF ReadNotify
<1>3. StopInv /\ (Receive \/ AssertName) => StopInv'
    BY DEF Receive, AssertName, Readable
<1>4. StopInv /\ (Populate \/ Suppress \/ NextRelated) => StopInv'
    BY DEF Populate, Suppress, NextRelated
<1>5. StopInv /\ EndOfList => StopInv'
    BY DEF EndOfList
<1>6. StopInv /\ Send => StopInv'
    BY DEF Send
<1>7. StopInv /\ (Announce \/ NothingToAnnounce) => StopInv'
    BY DEF Announce, NothingToAnnounce
<1>8. StopInv /\ SayGoodbye => StopInv'
    BY DEF SayGoodbye, Goodbyes
<1>9. StopInv /\ Close => StopInv'
    BY DEF Close
<1> QED
    BY <1>1, <1>2, <1>3, <1>4, <1>5, <1>6, <1>7, <1>8, <1>9 DEF Respond

\* The invariant is inductive.
LEMMA StopStep == StopInv /\ [Next]_vars => StopInv'
<1>1. StopInv /\ (Arrive \/ Interrupt) => StopInv'
    BY DEF Arrive, Interrupt, StopInv, lists, pipe, build
<1>2. StopInv /\ UNCHANGED vars => StopInv'
    BY DEF vars, StopInv, lists, pipe, build
<1> QED
    BY <1>1, <1>2, CallerKeeps, ResponderKeeps DEF Next

\* Whatever arrives, and whenever the stop comes: when mdnsd_stop frees the
\* lists the responder has ended, and its goodbye named every service.
THEOREM GoodbyeFirst == Spec => []GoodbyeBeforeFree
<1>1. StopInv => GoodbyeBeforeFree
    BY DEF StopInv, GoodbyeBeforeFree
<1> QED
    BY <1>1, StopInit, StopStep, PTL DEF Spec
-----------------------------------------------------------------------------
\* The registering thread's steps keep places and flags well formed.
LEMMA CallerTyped == TypeOK /\ (Register \/ Unregister \/ Stop \/ StopInResponder)
                         => TypeOK'
<1> USE DEF TypeOK, lists, pipe, build
<1>1. TypeOK /\ (NoInterface \/ SetHostname \/ AddRR \/ RegisterService) => TypeOK'
    BY DEF NoInterface, SetHostname, AddRR, RegisterService
<1>2. TypeOK /\ (Notify \/ Wake) => TypeOK'
    BY DEF Notify, Wake
<1>3. TypeOK /\ (Stop \/ StopInResponder \/ Free) => TypeOK'
    BY DEF Stop, StopInResponder, Free
<1> QED
    BY <1>1, <1>2, <1>3 DEF Register, Unregister

\* So do the responder's.
LEMMA ResponderTyped == TypeOK /\ Respond => TypeOK'
<1> USE DEF TypeOK, lists, pipe, build
<1>1. TypeOK /\ (Test \/ Receive \/ AssertName) => TypeOK'
    BY DEF Test, Receive, AssertName
<1>2. TypeOK /\ ReadNotify => TypeOK'
    BY DEF ReadNotify, Flush
<1>3. TypeOK /\ (Populate \/ Suppress \/ NextRelated) => TypeOK'
    BY DEF Populate, Suppress, NextRelated
<1>4. TypeOK /\ (EndOfList \/ Send) => TypeOK'
    BY DEF EndOfList, Send
<1>5. TypeOK /\ (Announce \/ NothingToAnnounce) => TypeOK'
    BY DEF Announce, NothingToAnnounce
<1>6. TypeOK /\ (SayGoodbye \/ Close) => TypeOK'
    BY DEF SayGoodbye, Close
<1> QED
    BY <1>1, <1>2, <1>3, <1>4, <1>5, <1>6 DEF Respond

\* The places, the flag and the count of the bytes in notify_pipe stay among
\* the values the code gives them (tinysvcmdns.c 1391-1490, 1650-1676).
THEOREM MdnsdTypeCorrect == Spec => []TypeOK
<1>1. Init => TypeOK
    BY MdnsdAssumption DEF Init, TypeOK
<1>2. TypeOK /\ [Next]_vars => TypeOK'
  <2>1. TypeOK /\ (Arrive \/ Interrupt) => TypeOK'
      BY MdnsdAssumption DEF Arrive, Interrupt, TypeOK, lists, pipe, build
  <2>2. TypeOK /\ UNCHANGED vars => TypeOK'
      BY DEF vars, TypeOK, lists, pipe, build
  <2> QED
      BY <2>1, <2>2, CallerTyped, ResponderTyped DEF Next
<1> QED
    BY <1>1, <1>2, PTL DEF Spec

-----------------------------------------------------------------------------
\* Every non-empty set of natural numbers has a least element.
LEMMA Least == ASSUME NEW T, T \subseteq Nat, T # {}
               PROVE  \E x \in T : \A y \in T : x <= y
<1> DEFINE F == {0..n : n \in T}
<1>1. F \subseteq FiniteSubsetsOf(Nat) /\ F # {}
  <2>1. \A n \in T : 0..n \in FiniteSubsetsOf(Nat)
    BY FS_Interval DEF FiniteSubsetsOf
  <2> QED BY <2>1
<1>2. IsWellFoundedOn(StrictSubsetOrdering(Nat), FiniteSubsetsOf(Nat))
  BY FS_StrictSubsetOrderingWellFounded
<1>3. \E x \in F : \A y \in F : ~ (<<y, x>> \in StrictSubsetOrdering(Nat))
  <2> HIDE DEF F
  <2> QED BY <1>1, <1>2, WFMin
<1>4. PICK m \in T : \A n \in T : ~ (<<0..n, 0..m>> \in StrictSubsetOrdering(Nat))
  BY <1>3
<1>5. ASSUME NEW n \in T, n < m PROVE FALSE
  <2>1. 0..n \subseteq 0..m /\ 0..n # 0..m
    <3>1. m \in 0..m /\ m \notin 0..n
      BY <1>5
    <3> QED BY <1>5, <3>1
  <2>2. <<0..n, 0..m>> \in StrictSubsetOrdering(Nat)
    BY <2>1 DEF StrictSubsetOrdering
  <2> QED BY <1>4, <2>2
<1> QED BY <1>5


\* The equation of Filter's walk, at its i-th step.
FilterAt(s, keep, f, i) ==
    IF i = 0 THEN <<>> ELSE IF s[i] \in keep THEN Append(f[i - 1], s[i]) ELSE f[i - 1]

\* A function that satisfies the equation exists, so Filter's CHOOSE is one.
LEMMA FilterExists ==
    ASSUME NEW S, NEW s \in Seq(S), NEW keep
    PROVE  \E f : f = [i \in 0..Len(s) |-> FilterAt(s, keep, f, i)]
<1> DEFINE n == Len(s)
           Filled(f, t) == \A i \in 0..t : f[i] = FilterAt(s, keep, f, i)
           Missing == {t \in 0..n : ~ \E f \in [0..n -> Seq(S)] : Filled(f, t)}
<1>1. n \in Nat /\ \A i \in 1..n : s[i] \in S
  BY LenProperties, ElementOfSeq
<1>2. 0 \notin Missing
  <2> DEFINE f == [i \in 0..n |-> <<>>]
  <2>1. f \in [0..n -> Seq(S)]
    OBVIOUS
  <2>2. Filled(f, 0)
    BY <1>1 DEF FilterAt
  <2> HIDE DEF f
  <2> QED BY <2>1, <2>2
<1>3. ASSUME NEW t \in 1..n, t \in Missing, t - 1 \notin Missing PROVE FALSE
  <2>1. t - 1 \in 0..n
    BY <1>1
  <2>2. PICK g \in [0..n -> Seq(S)] : Filled(g, t - 1)
    BY <1>3, <2>1
  <2> DEFINE f == [g EXCEPT ![t] = FilterAt(s, keep, g, t)]
  <2>3. f \in [0..n -> Seq(S)]
    <3>1. FilterAt(s, keep, g, t) \in Seq(S)
      BY <1>1, <2>1 DEF FilterAt
    <3> QED BY <3>1
  <2>4. \A i \in 0..t - 1 : f[i] = g[i]
    BY <1>1
  <2>5. \A i \in 0..t : FilterAt(s, keep, f, i) = FilterAt(s, keep, g, i)
    BY <1>1, <2>4 DEF FilterAt
  <2>6. f[t] = FilterAt(s, keep, g, t)
    BY <1>1
  <2>7. Filled(f, t)
    <3> HIDE DEF f
    <3> SUFFICES ASSUME NEW i \in 0..t PROVE f[i] = FilterAt(s, keep, f, i)
      OBVIOUS
    <3>1. CASE i = t
      BY <2>5, <2>6, <3>1
    <3>2. CASE i # t
      BY <2>2, <2>4, <2>5, <3>2
    <3> QED BY <3>1, <3>2
  <2> QED BY <1>3, <2>3, <2>7
<1>4. Missing = {}
  <2> SUFFICES ASSUME Missing # {} PROVE FALSE
    OBVIOUS
  <2>1. PICK t \in Missing : \A u \in Missing : t <= u
    <3>1. Missing \subseteq Nat
      BY <1>1
    <3> HIDE DEF Missing
    <3> QED BY <3>1, Least
  <2>2. t \in 1..n /\ t - 1 \notin Missing
    <3>1. t \in 0..n /\ t # 0
      BY <1>2
    <3>2. t - 1 \notin Missing
      <4> HIDE DEF Missing
      <4> QED BY <1>1, <2>1, <3>1
    <3> QED BY <1>1, <3>1, <3>2
  <2> QED BY <1>3, <2>2
<1>5. PICK f \in [0..n -> Seq(S)] : Filled(f, n)
  BY <1>1, <1>4
<1>6. f = [i \in 0..n |-> f[i]]
  OBVIOUS
<1>7. f = [i \in 0..n |-> FilterAt(s, keep, f, i)]
  BY <1>5, <1>6
<1> QED BY <1>7

\* Filter keeps what is to be kept of a list, and nothing else.
LEMMA FilterIs ==
    ASSUME NEW S, NEW s \in Seq(S), NEW keep
    PROVE  Filter(s, keep) \in Seq(S) /\ Range(Filter(s, keep)) = Range(s) \cap keep
<1> DEFINE n == Len(s)
           Eq(f) == f = [i \in 0..n |-> FilterAt(s, keep, f, i)]
           kept == CHOOSE f : Eq(f)
           Upto(i) == {s[j] : j \in 1..i} \cap keep
           Good(i) == kept[i] \in Seq(S) /\ Range(kept[i]) = Upto(i)
           Bad == {i \in 0..n : ~Good(i)}
<1>1. n \in Nat /\ \A i \in 1..n : s[i] \in S
  BY LenProperties, ElementOfSeq
<1>2. Filter(s, keep) = kept[n]
  BY DEF Filter, FilterAt
<1>3. Eq(kept)
  <2>1. \E f : Eq(f)
    BY FilterExists
  <2> HIDE DEF Eq
  <2> QED BY <2>1
<1>4. \A i \in 0..n : kept[i] = FilterAt(s, keep, kept, i)
  BY <1>3
<1> HIDE DEF kept, Eq
<1>5. Bad = {}
  <2> SUFFICES ASSUME Bad # {} PROVE FALSE
    OBVIOUS
  <2>1. PICK i \in Bad : \A j \in Bad : i <= j
    <3>1. Bad \subseteq Nat
      BY <1>1
    <3> HIDE DEF Bad
    <3> QED BY <3>1, Least
  <2>2. i \in 0..n /\ ~Good(i) /\ (i # 0 => Good(i - 1))
    <3>1. i \in 0..n /\ ~Good(i)
      OBVIOUS
    <3>2. i # 0 => i - 1 \in 0..n /\ i - 1 \notin Bad
      <4> HIDE DEF Bad
      <4> QED BY <1>1, <2>1, <3>1
    <3> QED BY <3>1, <3>2
  <2>3. CASE i = 0
    <3>1. kept[0] = <<>>
      BY <1>1, <1>4 DEF FilterAt
    <3>2. Range(<<>>) = {} /\ <<>> \in Seq(S)
      BY DEF Range
    <3>3. Upto(0) = {}
      OBVIOUS
    <3> QED BY <2>2, <2>3, <3>1, <3>2, <3>3
  <2>4. CASE i # 0
    <3>1. PICK k \in Seq(S) : k = kept[i - 1] /\ Range(k) = Upto(i - 1)
      BY <2>2, <2>4
    <3>2. i \in 1..n /\ s[i] \in S
      BY <1>1, <2>2, <2>4
    <3>3. Upto(i) = Upto(i - 1) \cup ({s[i]} \cap keep)
      BY <3>2
    <3>4. CASE s[i] \in keep
      <4>1. kept[i] = Append(k, s[i])
        <5>1. kept[i] = FilterAt(s, keep, kept, i)
          BY <1>4, <2>2
        <5>2. FilterAt(s, keep, kept, i) = Append(kept[i - 1], s[i])
          BY <2>4, <3>4 DEF FilterAt
        <5> QED BY <3>1, <5>1, <5>2
      <4>2. /\ Append(k, s[i]) \in Seq(S) /\ Len(k) \in Nat
            /\ Len(Append(k, s[i])) = Len(k) + 1
            /\ \A j \in 1..Len(k) + 1 : Append(k, s[i])[j] = IF j = Len(k) + 1 THEN s[i] ELSE k[j]
        BY <3>2
      <4>3. Range(k) = {k[j] : j \in 1..Len(k)}
        BY RangeEquality
      <4>4. Range(Append(k, s[i])) = {Append(k, s[i])[j] : j \in 1..Len(k) + 1}
        BY <4>2, RangeEquality
      <4>5. Range(Append(k, s[i])) = Range(k) \cup {s[i]}
        BY <4>2, <4>3, <4>4
      <4> QED BY <2>2, <3>1, <3>3, <3>4, <4>1, <4>2, <4>5
    <3>5. CASE s[i] \notin keep
      <4>1. kept[i] = k
        BY <1>4, <3>1, <3>2, <3>5 DEF FilterAt
      <4> QED BY <2>2, <3>1, <3>3, <3>5, <4>1
    <3> QED BY <3>4, <3>5
  <2> QED BY <2>3, <2>4
<1>6. Good(n)
  <2>1. n \in 0..n /\ n \notin Bad
    BY <1>1, <1>5
  <2> HIDE DEF Good
  <2> QED BY <2>1
<1>7. Range(s) = {s[j] : j \in 1..n}
  BY RangeEquality
<1> QED BY <1>2, <1>6, <1>7

-----------------------------------------------------------------------------
\* Lists, whatever is in them, and what their helpers make of them.
IsList(s) == \E S : s \in Seq(S)

\* A list has a length, and its range is what is at its places.
LEMMA ListItems ==
    ASSUME NEW s, IsList(s)
    PROVE  Len(s) \in Nat /\ Range(s) = {s[i] : i \in 1..Len(s)}
<1>1. PICK S : s \in Seq(S)
  BY DEF IsList
<1> QED BY <1>1, RangeEquality, LenProperties

\* Concatenation keeps the places of the first list and has what both have.
LEMMA ListCat ==
    ASSUME NEW s, NEW t, IsList(s), IsList(t)
    PROVE  /\ IsList(s \o t) /\ Range(s \o t) = Range(s) \cup Range(t)
           /\ Len(s) <= Len(s \o t) /\ \A i \in 1..Len(s) : (s \o t)[i] = s[i]
<1>1. PICK S, T : s \in Seq(S) /\ t \in Seq(T)
  BY DEF IsList
<1>2. PICK U : U = S \cup T
  OBVIOUS
<1>3. s \in Seq(U) /\ t \in Seq(U)
  BY <1>1, <1>2, SeqMonotonic
<1>4. s \o t \in Seq(U) /\ Range(s \o t) = Range(s) \cup Range(t)
  BY <1>3, ConcatProperties, RangeConcatenation
<1>5. Len(s) <= Len(s \o t) /\ \A i \in 1..Len(s) : (s \o t)[i] = s[i]
  BY <1>3, ConcatProperties, LenProperties
<1> QED BY <1>4, <1>5 DEF IsList

\* A list has its head and what its tail has.
LEMMA ListTail ==
    ASSUME NEW s, IsList(s), s # <<>>
    PROVE  IsList(Tail(s)) /\ Range(s) = {Head(s)} \cup Range(Tail(s))
<1>1. PICK S : s \in Seq(S)
  BY DEF IsList
<1>2. Tail(s) \in Seq(S) /\ Head(s) \in S
  BY <1>1, HeadTailProperties
<1>3. PICK h, t : h = Head(s) /\ t = Tail(s) /\ t \in Seq(S)
  BY <1>2
<1>4. Len(s) \in Nat \ {0} /\ s[1] = h /\ Len(t) = Len(s) - 1
      /\ \A i \in 1..Len(t) : t[i] = s[i + 1]
  BY <1>1, <1>3, HeadTailProperties, LenProperties, EmptySeq
<1>5. /\ Range(s) = {s[i] : i \in 1..Len(s)}
      /\ Range(t) = {t[i] : i \in 1..Len(t)}
  <2>1. IsList(t)
    BY <1>3 DEF IsList
  <2> QED BY <2>1, ListItems
<1>6. {s[i] : i \in 1..Len(s)} = {h} \cup {t[i] : i \in 1..Len(t)}
  <2>1. PICK n : n = Len(s) /\ Len(t) = n - 1 /\ n \in Nat \ {0}
    BY <1>4
  <2>2. \A i \in 1..n - 1 : t[i] = s[i + 1]
    BY <1>4, <2>1
  <2>3. ASSUME NEW i \in 1..n, i # 1 PROVE \E j \in 1..n - 1 : s[i] = t[j]
    <3>1. i - 1 \in 1..n - 1 /\ i - 1 + 1 = i
      BY <2>1, <2>3
    <3>2. t[i - 1] = s[i]
      BY <2>2, <3>1
    <3> QED BY <3>1, <3>2
  <2>4. ASSUME NEW j \in 1..n - 1 PROVE \E i \in 1..n : s[i] = t[j]
    <3>1. j + 1 \in 1..n
      BY <2>1
    <3> QED BY <2>2, <3>1
  <2>5. 1 \in 1..n
    BY <2>1
  <2>6. {s[i] : i \in 1..n} = {h} \cup {t[i] : i \in 1..n - 1}
    BY <1>4, <2>3, <2>4, <2>5
  <2> QED BY <2>1, <2>6
<1>7. Range(s) = {h} \cup Range(t)
  BY <1>5, <1>6
<1> QED BY <1>2, <1>3, <1>7 DEF IsList

\* Filter, on lists of anything.
LEMMA ListFilter ==
    ASSUME NEW s, IsList(s), NEW keep
    PROVE  IsList(Filter(s, keep)) /\ Range(Filter(s, keep)) = Range(s) \cap keep
<1>1. PICK S : s \in Seq(S)
  BY DEF IsList
<1>2. Filter(s, keep) \in Seq(S) /\ Range(Filter(s, keep)) = Range(s) \cap keep
  BY <1>1, FilterIs
<1> QED BY <1>2 DEF IsList

\* The empty list has nothing.
LEMMA EmptyList == IsList(<<>>) /\ Range(<<>>) = {} /\ Len(<<>>) = 0
<1>1. <<>> \in Seq({})
  OBVIOUS
<1> QED BY <1>1 DEF IsList, Range

\* A list of one has it,
LEMMA ListOne == ASSUME NEW a PROVE IsList(<<a>>) /\ Range(<<a>>) = {a}
<1>1. PICK s : s = <<a>>
  OBVIOUS
<1>2. s \in Seq({a}) /\ Len(s) = 1 /\ s[1] = a
  BY <1>1
<1>3. Range(s) = {s[i] : i \in 1..Len(s)}
  BY <1>2, RangeEquality
<1> QED BY <1>1, <1>2, <1>3 DEF IsList

\* a list of two both,
LEMMA ListTwo == ASSUME NEW a, NEW b PROVE IsList(<<a, b>>) /\ Range(<<a, b>>) = {a, b}
<1>1. PICK s : s = <<a, b>>
  OBVIOUS
<1>2. s \in Seq({a, b}) /\ Len(s) = 2 /\ s[1] = a /\ s[2] = b
  BY <1>1
<1>3. Range(s) = {s[i] : i \in 1..2}
  BY <1>2, RangeEquality
<1>4. Range(s) = {a, b}
  BY <1>2, <1>3
<1> QED BY <1>1, <1>2, <1>4 DEF IsList

\* and a list of four all four.
LEMMA ListFour ==
    ASSUME NEW a, NEW b, NEW c, NEW d
    PROVE  IsList(<<a, b, c, d>>) /\ Range(<<a, b, c, d>>) = {a, b, c, d}
<1>1. PICK s : s = <<a, b, c, d>>
  OBVIOUS
<1>2. s \in Seq({a, b, c, d}) /\ Len(s) = 4 /\ s[1] = a /\ s[2] = b /\ s[3] = c /\ s[4] = d
  BY <1>1
<1>3. Range(s) = {s[i] : i \in 1..4}
  BY <1>2, RangeEquality
<1>4. Range(s) = {a, b, c, d}
  BY <1>2, <1>3
<1> QED BY <1>1, <1>2, <1>4 DEF IsList

\* An appended item is had in addition.
LEMMA ListAppend ==
    ASSUME NEW s, IsList(s), NEW a
    PROVE  IsList(Append(s, a)) /\ Range(Append(s, a)) = Range(s) \cup {a}
<1>1. PICK S : s \in Seq(S)
  BY DEF IsList
<1>2. PICK U : U = S \cup {a}
  OBVIOUS
<1>3. s \in Seq(U) /\ a \in U /\ <<a>> \in Seq(U)
  BY <1>1, <1>2, SeqMonotonic
<1>4. Append(s, a) = s \o <<a>>
  BY <1>3, AppendIsConcat
<1> QED BY <1>4, ListOne, ListCat
-----------------------------------------------------------------------------
IsHost(r) == r.type \in {"A", "AAAA"}
FromHost(records) == {r \in records : IsHost(r)}

\* Records are in lists, and so are questions, interfaces and packets.
ListsTyped ==
    /\ left \in Seq(Interface) /\ net \in Seq(Packets)
    /\ IsList(group) /\ IsList(asks) /\ IsList(reply.ans) /\ IsList(reply.add)
    /\ reply = [ans |-> reply.ans, add |-> reply.add,
                num_ans |-> reply.num_ans, num_add |-> reply.num_add]
    /\ pkt \in Packets \cup {NoPacket}
    /\ phase \in {"ask", "ans", "add"} /\ cursor \in Nat

\* Records are only added: addresses are the host's, a service comes whole,
\* and what a reply has or missed is there.
GroupInv ==
    /\ main \in {"start", "failed"} => group = <<>>
    /\ \A r \in Range(group) : IsHost(r) => r.name = "host"
    /\ PTR \in Range(group) => {SRV, TXT} \subseteq Range(group)
    /\ there \cup Range(reply.ans) \cup Range(reply.add) \subseteq Range(group)

\* What a record leads to is still to be looked up, or has been added.
Followed(r, asked, added, hosts) ==
    /\ r = PTR => Ask("inst", "ANY") \in Range(asked) \/ {SRV, TXT} \subseteq Range(added)
    /\ r = SRV => Ask("host", "ANY") \in Range(asked) \/ hosts \subseteq Range(added)
FollowedAll(records) == \A r \in records : Followed(r, asks, reply.add, FromHost(there))
FollowedTo(list) ==
    cursor <= Len(list)
    /\ \A i \in 1..cursor : Followed(list[i], asks, reply.add, FromHost(there))

\* So it is for the records that have had their turn.
BuildInv ==
    /\ place = "build" /\ phase = "ans" => FollowedTo(reply.ans)
    /\ place = "build" /\ phase = "add" => FollowedAll(Range(reply.ans))
                                           /\ FollowedTo(reply.add)
    /\ place = "send" => asks = <<>> /\ FollowedAll(Range(reply.ans))
                                     /\ FollowedAll(Range(reply.add))

ReplyInv == ListsTyped /\ GroupInv /\ BuildInv

\* At the start there is nothing to say and nothing to follow.
LEMMA ReplyInit == Init => ReplyInv
<1> SUFFICES ASSUME Init PROVE ReplyInv
  OBVIOUS
<1>1. ListsTyped
  BY EmptyList DEF Init, ListsTyped, NoReply
<1>2. GroupInv
  BY EmptyList DEF Init, GroupInv, NoReply
<1>3. BuildInv
  BY DEF Init, BuildInv
<1> QED BY <1>1, <1>2, <1>3 DEF ReplyInv

\* A step that leaves the lists and the reply alone, and starts none, keeps it.
LEMMA QuietKeeps ==
    ReplyInv /\ UNCHANGED <<left, net, group, build>>
             /\ (place' = place \/ place' \notin {"build", "send"})
             /\ (main' \in {"start", "failed"} => main \in {"start", "failed"})
        => ReplyInv'
<1> SUFFICES ASSUME ReplyInv, UNCHANGED <<left, net, group, build>>,
                    place' = place \/ place' \notin {"build", "send"},
                    main' \in {"start", "failed"} => main \in {"start", "failed"}
             PROVE  ReplyInv'
  OBVIOUS
<1>1. ListsTyped'
  BY DEF ReplyInv, ListsTyped, build
<1>2. GroupInv'
  BY DEF ReplyInv, GroupInv, build
<1>3. BuildInv'
  BY DEF ReplyInv, BuildInv, build, FollowedAll, FollowedTo
<1> QED BY <1>1, <1>2, <1>3 DEF ReplyInv

\* A step that adds whole services and addresses of the host keeps it.
LEMMA MoreKeeps ==
    ASSUME ReplyInv, UNCHANGED <<net, place, build>>,
           left' \in Seq(Interface), IsList(group'),
           Range(group) \subseteq Range(group'), main' \notin {"start", "failed"},
           \A r \in Range(group') : IsHost(r) => r.name = "host",
           PTR \in Range(group') => {SRV, TXT} \subseteq Range(group')
    PROVE  ReplyInv'
<1>1. ListsTyped'
  BY DEF ReplyInv, ListsTyped, build
<1>2. GroupInv'
  BY DEF ReplyInv, GroupInv, build
<1>3. BuildInv'
  BY DEF ReplyInv, BuildInv, build, FollowedAll, FollowedTo
<1> QED BY <1>1, <1>2, <1>3 DEF ReplyInv

\* The host with its first interface.
LEMMA SetHostnameReply == ReplyInv /\ SetHostname => ReplyInv'
<1> SUFFICES ASSUME ReplyInv, SetHostname PROVE ReplyInv'
  OBVIOUS
<1>1. PICK list \in Interfaces \ {<<>>} :
        /\ group' = <<Host(Head(list)), Record("host", "NSEC", Head(list).type)>>
        /\ left' = Tail(list)
  BY DEF SetHostname
<1>2. list \in Seq(Interface) /\ list # <<>>
  BY <1>1, MdnsdAssumption
<1>3. Tail(list) \in Seq(Interface) /\ Head(list) \in Interface
  BY <1>2, HeadTailProperties
<1>4. IsList(group') /\ Range(group') = {Host(Head(list)), Record("host", "NSEC", Head(list).type)}
  BY <1>1, ListTwo
<1>5. Range(group) = {}
  BY EmptyList DEF ReplyInv, GroupInv, SetHostname
<1>6. \A r \in Range(group') : r.name = "host"
  BY <1>4 DEF Host, Record
<1>7. PTR \notin Range(group')
  BY <1>6 DEF PTR, Record
<1>8. UNCHANGED <<net, place, build>> /\ main' = "add"
  BY DEF SetHostname
<1> QED BY <1>1, <1>3, <1>4, <1>5, <1>6, <1>7, <1>8, MoreKeeps

\* One more interface.
LEMMA AddRRReply == ReplyInv /\ AddRR => ReplyInv'
<1> SUFFICES ASSUME ReplyInv, AddRR PROVE ReplyInv'
  OBVIOUS
<1>1. left \in Seq(Interface) /\ left # <<>> /\ IsList(group)
  BY DEF ReplyInv, ListsTyped, AddRR
<1>2. Tail(left) \in Seq(Interface) /\ Head(left) \in Interface
  BY <1>1, HeadTailProperties
<1>3. group' = Append(group, Host(Head(left))) /\ left' = Tail(left)
  BY DEF AddRR
<1>4. IsList(group') /\ Range(group') = Range(group) \cup {Host(Head(left))}
  BY <1>1, <1>3, ListAppend
<1>5. Host(Head(left)).name = "host"
  BY DEF Host, Record
<1>6. Host(Head(left)) # PTR
  BY <1>5 DEF PTR, Record
<1>7. UNCHANGED <<net, place, build>> /\ main' = "add"
  BY DEF AddRR
<1>8. /\ \A r \in Range(group') : IsHost(r) => r.name = "host"
      /\ PTR \in Range(group') => {SRV, TXT} \subseteq Range(group')
  BY <1>4, <1>5, <1>6 DEF ReplyInv, GroupInv
<1> QED BY <1>2, <1>3, <1>4, <1>7, <1>8, MoreKeeps

\* A service, whole.
LEMMA RegisterServiceReply == ReplyInv /\ RegisterService => ReplyInv'
<1> SUFFICES ASSUME ReplyInv, RegisterService PROVE ReplyInv'
  OBVIOUS
<1>1. IsList(group) /\ left \in Seq(Interface)
  BY DEF ReplyInv, ListsTyped
<1>2. group' = group \o <<TXT, SRV, PTR, BPTR>>
  BY DEF RegisterService
<1>3. IsList(group') /\ Range(group') = Range(group) \cup {TXT, SRV, PTR, BPTR}
  <2>1. IsList(<<TXT, SRV, PTR, BPTR>>) /\ Range(<<TXT, SRV, PTR, BPTR>>) = {TXT, SRV, PTR, BPTR}
    BY ListFour
  <2> QED BY <1>1, <1>2, <2>1, ListCat
<1>4. \A r \in {TXT, SRV, PTR, BPTR} : ~IsHost(r)
  BY DEF TXT, SRV, PTR, BPTR, Record, IsHost
<1>5. UNCHANGED <<left, net, place, build>> /\ main' = "notify"
  BY DEF RegisterService
<1>6. /\ \A r \in Range(group') : IsHost(r) => r.name = "host"
      /\ PTR \in Range(group') => {SRV, TXT} \subseteq Range(group')
  BY <1>3, <1>4 DEF ReplyInv, GroupInv
<1> QED BY <1>1, <1>3, <1>5, <1>6, MoreKeeps

\* The questions of a packet are a list of its own that are not unicast.
LEMMA QuestionsOf ==
    ASSUME NEW p \in Packets \cup {NoPacket}
    PROVE  /\ IsList(Questions(p)) /\ IsList(p.qn) /\ IsList(p.ans)
           /\ Range(Questions(p)) = {q \in Range(p.qn) : ~q.unicast_query}
<1>1. IsList(p.qn) /\ IsList(p.ans)
  <2>1. CASE p \in Packets
    BY <2>1, MdnsdAssumption DEF IsList
  <2>2. CASE p = NoPacket
    BY <2>2, EmptyList DEF NoPacket
  <2> QED BY <2>1, <2>2
<1>2. /\ IsList(Questions(p))
      /\ Range(Questions(p)) = Range(p.qn) \cap {q \in Range(p.qn) : ~q.unicast_query}
  BY <1>1, ListFilter DEF Questions
<1> QED BY <1>1, <1>2

\* A packet is taken up, with an empty reply.
LEMMA ReceiveReply == ReplyInv /\ Receive => ReplyInv'
<1> SUFFICES ASSUME ReplyInv, Receive PROVE ReplyInv'
  OBVIOUS
<1> USE DEF Receive, Readable
<1>1. net \in Seq(Packets) /\ net # <<>> /\ ListsTyped
  BY DEF ReplyInv, ListsTyped
<1>2. Head(net) \in Packets /\ net' \in Seq(Packets)
  BY <1>1, HeadTailProperties
<1>3. PICK p : p = Head(net)
  OBVIOUS
<1>4. /\ pkt' \in Packets \cup {NoPacket}
      /\ asks' = IF p.kind = "query" THEN Questions(p) ELSE <<>>
  BY <1>2, <1>3
<1>5. IsList(asks')
  BY <1>2, <1>3, <1>4, QuestionsOf, EmptyList
<1>6. /\ phase' = "ask" /\ cursor' = 0 /\ reply' = NoReply /\ there' = Range(group)
      /\ UNCHANGED <<main, left, group>>
  BY DEF lists
<1>7. ListsTyped'
  BY <1>1, <1>2, <1>3, <1>4, <1>5, <1>6, EmptyList DEF ListsTyped, NoReply
<1>8. GroupInv'
  BY <1>6, EmptyList DEF ReplyInv, GroupInv, NoReply
<1>9. BuildInv'
  BY <1>3, <1>6 DEF BuildInv
<1> QED BY <1>7, <1>8, <1>9 DEF ReplyInv

\* A truncated query ends everything.
LEMMA AssertNameReply == ReplyInv /\ AssertName => ReplyInv'
<1> SUFFICES ASSUME ReplyInv, AssertName PROVE ReplyInv'
  OBVIOUS
<1>1. /\ UNCHANGED <<left, group, build>> /\ net' = Tail(net) /\ net # <<>>
      /\ main' = "aborted" /\ place' = "aborted"
  BY DEF AssertName, Readable, lists
<1>2. ListsTyped'
  <2>1. net' \in Seq(Packets)
    BY <1>1, HeadTailProperties DEF ReplyInv, ListsTyped
  <2> QED BY <1>1, <2>1 DEF ReplyInv, ListsTyped, build
<1>3. GroupInv'
  BY <1>1 DEF ReplyInv, GroupInv, build
<1>4. BuildInv'
  BY <1>1 DEF BuildInv
<1> QED BY <1>2, <1>3, <1>4 DEF ReplyInv

\* So is a service to announce.
LEMMA AnnounceReply == ReplyInv /\ Announce => ReplyInv'
<1> SUFFICES ASSUME ReplyInv, Announce PROVE ReplyInv'
  OBVIOUS
<1> USE DEF Announce
<1>1. IsList(asks')
  BY ListTwo
<1>2. /\ phase' = "ask" /\ cursor' = 0 /\ reply' = NoReply /\ there' = Range(group)
      /\ UNCHANGED <<main, left, net, group>>
      /\ pkt' = NoPacket /\ place' = "build"
  OBVIOUS
<1>3. ListsTyped'
  BY <1>1, <1>2, EmptyList DEF ReplyInv, ListsTyped, NoReply
<1>4. GroupInv'
  BY <1>2, EmptyList DEF ReplyInv, GroupInv, NoReply
<1>5. BuildInv'
  BY <1>2 DEF BuildInv
<1> QED BY <1>3, <1>4, <1>5 DEF ReplyInv

\* A look-up finds the records that match, and none twice.
LEMMA LookUp ==
    ASSUME IsList(group), NEW ask, NEW list, IsList(list)
    PROVE  LET longer == list \o NewIn(list, Found(ask))
           IN /\ IsList(longer) /\ Len(list) <= Len(longer)
              /\ \A i \in 1..Len(list) : longer[i] = list[i]
              /\ Range(longer) = Range(list) \cup {r \in Range(group) : Matches(r, ask)}
<1>1. PICK found : found = Found(ask)
  OBVIOUS
<1>2. IsList(found) /\ Range(found) = {r \in Range(group) : Matches(r, ask)}
  <2>1. /\ IsList(found)
        /\ Range(found) = Range(group) \cap {r \in Range(group) : Matches(r, ask)}
    BY <1>1, ListFilter DEF Found
  <2> QED BY <2>1
<1>3. PICK new : new = NewIn(list, found)
  OBVIOUS
<1>4. IsList(new) /\ Range(new) = Range(found) \ Range(list)
  <2>1. IsList(new) /\ Range(new) = Range(found) \cap (Range(found) \ Range(list))
    BY <1>2, <1>3, ListFilter DEF NewIn
  <2> QED BY <2>1
<1>5. /\ IsList(list \o new) /\ Range(list \o new) = Range(list) \cup Range(new)
      /\ Len(list) <= Len(list \o new)
      /\ \A i \in 1..Len(list) : (list \o new)[i] = list[i]
  BY <1>4, ListCat
<1> QED BY <1>1, <1>2, <1>3, <1>4, <1>5

\* What is followed stays so as records are added, and once it is looked up
\* it has been added.
LEMMA FollowedLooked ==
    ASSUME NEW r, NEW asked, NEW added, NEW hosts, Followed(r, asked, added, hosts),
           NEW next, NEW more, IsList(asked), asked # <<>>, next = Tail(asked),
           IsList(group), GroupInv, hosts = FromHost(there), r \in Range(group),
           Range(more) = Range(added) \cup {x \in Range(group) : Matches(x, Head(asked))}
    PROVE  Followed(r, next, more, hosts)
<1>1. Range(asked) = {Head(asked)} \cup Range(next)
  BY ListTail
<1>2. ASSUME r = PTR PROVE Ask("inst", "ANY") \in Range(next) \/ {SRV, TXT} \subseteq Range(more)
  <2>1. {SRV, TXT} \subseteq Range(group)
    BY <1>2 DEF GroupInv
  <2>2. Matches(SRV, Ask("inst", "ANY")) /\ Matches(TXT, Ask("inst", "ANY"))
    BY DEF Matches, Ask, SRV, TXT, Record
  <2>3. Ask("inst", "ANY") \in Range(asked) \/ {SRV, TXT} \subseteq Range(added)
    BY <1>2 DEF Followed
  <2> QED BY <1>1, <2>1, <2>2, <2>3
<1>3. ASSUME r = SRV PROVE Ask("host", "ANY") \in Range(next) \/ hosts \subseteq Range(more)
  <2>1. \A x \in hosts : x \in Range(group) /\ Matches(x, Ask("host", "ANY"))
    BY DEF GroupInv, FromHost, IsHost, Matches, Ask
  <2>2. Ask("host", "ANY") \in Range(asked) \/ hosts \subseteq Range(added)
    BY <1>3 DEF Followed
  <2> QED BY <1>1, <2>1, <2>2
<1> QED BY <1>2, <1>3 DEF Followed

\* A look-up for the answers.
LEMMA PopulateAnswers == ReplyInv /\ Populate /\ phase = "ask" => ReplyInv'
<1> SUFFICES ASSUME ReplyInv, Populate, phase = "ask" PROVE ReplyInv'
  OBVIOUS
<1>1. /\ IsList(group) /\ IsList(asks) /\ asks # <<>> /\ asks' = Tail(asks)
      /\ IsList(reply.ans) /\ IsList(reply.add)
  BY DEF ReplyInv, ListsTyped, Populate
<1>2. PICK num, more : more = reply.ans \o NewIn(reply.ans, Found(Head(asks)))
        /\ reply' = [ans |-> more, add |-> reply.add, num_ans |-> num, num_add |-> reply.num_add]
  BY DEF Populate, ReplyInv, ListsTyped
<1>3. /\ IsList(more)
      /\ Range(more) = Range(reply.ans) \cup {r \in Range(group) : Matches(r, Head(asks))}
  BY <1>1, <1>2, LookUp
<1>4. UNCHANGED <<main, left, group, net, pkt, place, phase, cursor, there>>
  BY DEF Populate, lists
<1>5. IsList(asks')
  BY <1>1, ListTail
<1>6. ListsTyped'
  BY <1>1, <1>2, <1>3, <1>4, <1>5 DEF ReplyInv, ListsTyped
<1>7. GroupInv'
  BY <1>2, <1>3, <1>4 DEF ReplyInv, GroupInv
<1>8. place = "build"
  BY DEF Populate
<1>9. BuildInv'
  BY <1>4, <1>8 DEF BuildInv
<1> QED BY <1>6, <1>7, <1>9 DEF ReplyInv

\* A look-up for what they lead to.
LEMMA PopulateRelated == ReplyInv /\ Populate /\ phase # "ask" => ReplyInv'
<1> SUFFICES ASSUME ReplyInv, Populate, phase # "ask" PROVE ReplyInv'
  OBVIOUS
<1>1. /\ IsList(group) /\ IsList(asks) /\ asks # <<>> /\ asks' = Tail(asks)
      /\ IsList(reply.ans) /\ IsList(reply.add) /\ place = "build"
  BY DEF ReplyInv, ListsTyped, Populate
<1>2. PICK num, more : more = reply.add \o NewIn(reply.add, Found(Head(asks)))
        /\ reply' = [ans |-> reply.ans, add |-> more, num_ans |-> reply.num_ans, num_add |-> num]
  BY DEF Populate, ReplyInv, ListsTyped
<1>3. /\ IsList(more) /\ Len(reply.add) <= Len(more)
      /\ \A i \in 1..Len(reply.add) : more[i] = reply.add[i]
      /\ Range(more) = Range(reply.add) \cup {r \in Range(group) : Matches(r, Head(asks))}
  <2>1. PICK list, ask : list = reply.add /\ ask = Head(asks)
    OBVIOUS
  <2>2. more = list \o NewIn(list, Found(ask)) /\ IsList(list)
    BY <1>1, <1>2, <2>1
  <2>3. /\ IsList(more) /\ Len(list) <= Len(more)
        /\ \A i \in 1..Len(list) : more[i] = list[i]
        /\ Range(more) = Range(list) \cup {r \in Range(group) : Matches(r, ask)}
    BY <1>1, <2>2, LookUp
  <2> QED BY <2>1, <2>3
<1>4. UNCHANGED <<main, left, group, net, pkt, place, phase, cursor, there>>
  BY DEF Populate, lists
<1>5. IsList(asks')
  BY <1>1, ListTail
<1>6. ListsTyped'
  BY <1>1, <1>2, <1>3, <1>4, <1>5 DEF ReplyInv, ListsTyped
<1>7. GroupInv'
  BY <1>2, <1>3, <1>4 DEF ReplyInv, GroupInv
<1>8. ASSUME NEW r \in Range(group), Followed(r, asks, reply.add, FromHost(there))
      PROVE  Followed(r, asks', more, FromHost(there))
  <2>1. GroupInv
    BY DEF ReplyInv
  <2> QED BY <1>1, <1>3, <1>8, <2>1, FollowedLooked
<1>9. BuildInv'
  <2>1. Range(reply.ans) \subseteq Range(group) /\ Range(reply.add) \subseteq Range(group)
    BY DEF ReplyInv, GroupInv
  <2>2. /\ Range(reply.ans) = {reply.ans[i] : i \in 1..Len(reply.ans)}
        /\ Range(reply.add) = {reply.add[i] : i \in 1..Len(reply.add)}
        /\ Len(reply.ans) \in Nat /\ Len(reply.add) \in Nat /\ Len(more) \in Nat
        /\ cursor \in Nat
    BY <1>1, <1>3, ListItems DEF ReplyInv, ListsTyped
  <2>3. phase = "ans" => FollowedTo(reply.ans)'
    <3> SUFFICES ASSUME phase = "ans" PROVE FollowedTo(reply.ans)'
      OBVIOUS
    <3>1. cursor <= Len(reply.ans)
          /\ \A i \in 1..cursor : Followed(reply.ans[i], asks, reply.add, FromHost(there))
      BY <1>1 DEF ReplyInv, BuildInv, FollowedTo
    <3>2. \A i \in 1..cursor : reply.ans[i] \in Range(group)
      BY <2>1, <2>2, <3>1
    <3>3. \A i \in 1..cursor : Followed(reply.ans[i], asks', more, FromHost(there))
      BY <1>8, <3>1, <3>2
    <3> QED BY <1>2, <1>4, <3>1, <3>3 DEF FollowedTo
  <2>4. phase = "add" => FollowedAll(Range(reply.ans))' /\ FollowedTo(reply.add)'
    <3> SUFFICES ASSUME phase = "add"
                 PROVE  FollowedAll(Range(reply.ans))' /\ FollowedTo(reply.add)'
      OBVIOUS
    <3>1. /\ cursor <= Len(reply.add)
          /\ \A i \in 1..cursor : Followed(reply.add[i], asks, reply.add, FromHost(there))
          /\ \A r \in Range(reply.ans) : Followed(r, asks, reply.add, FromHost(there))
      BY <1>1 DEF ReplyInv, BuildInv, FollowedTo, FollowedAll
    <3>2. \A i \in 1..cursor : reply.add[i] \in Range(group) /\ more[i] = reply.add[i]
      BY <1>3, <2>1, <2>2, <3>1
    <3>3. \A i \in 1..cursor : Followed(more[i], asks', more, FromHost(there))
      BY <1>8, <3>1, <3>2
    <3>4. \A r \in Range(reply.ans) : Followed(r, asks', more, FromHost(there))
      BY <1>8, <2>1, <3>1
    <3>5. cursor <= Len(more)
      BY <1>3, <2>2, <3>1
    <3> QED BY <1>2, <1>4, <3>3, <3>4, <3>5 DEF FollowedTo, FollowedAll
  <2> QED BY <1>1, <1>2, <1>4, <2>3, <2>4 DEF BuildInv
<1> QED BY <1>6, <1>7, <1>9 DEF ReplyInv

\* What the querier knows is dropped.
LEMMA SuppressReply == ReplyInv /\ Suppress => ReplyInv'
<1> SUFFICES ASSUME ReplyInv, Suppress PROVE ReplyInv'
  OBVIOUS
<1>1. IsList(reply.ans) /\ asks = <<>>
  BY DEF ReplyInv, ListsTyped, Suppress
<1>2. PICK num, kept :
        /\ kept = Filter(reply.ans, {r \in Range(reply.ans) : ~Suppressed(r)})
        /\ reply' = [ans |-> kept, add |-> reply.add, num_ans |-> num, num_add |-> reply.num_add]
  BY DEF Suppress, ReplyInv, ListsTyped
<1>3. IsList(kept) /\ Range(kept) \subseteq Range(reply.ans)
  BY <1>1, <1>2, ListFilter
<1>4. UNCHANGED <<main, left, group, net, pkt, place, asks, there>>
      /\ phase' = "ans" /\ cursor' = 0 /\ place = "build"
  BY DEF Suppress, lists
<1>5. ListsTyped'
  BY <1>2, <1>3, <1>4 DEF ReplyInv, ListsTyped
<1>6. GroupInv'
  BY <1>2, <1>3, <1>4 DEF ReplyInv, GroupInv
<1>7. BuildInv'
  <2>1. Len(kept) \in Nat
    BY <1>3, ListItems
  <2>2. FollowedTo(reply.ans)'
    BY <1>2, <1>4, <2>1 DEF FollowedTo
  <2> QED BY <1>4, <2>2 DEF BuildInv
<1> QED BY <1>5, <1>6, <1>7 DEF ReplyInv

\* What a record leads to is a list of look-ups, and follows it.
LEMMA RelatedFollows ==
    ASSUME NEW r, NEW added, NEW hosts
    PROVE  IsList(Related(r)) /\ Followed(r, Related(r), added, hosts)
<1>1. CASE r.type = "PTR"
  <2>1. Related(r) = <<Ask(r.target, "ANY")>>
    BY <1>1 DEF Related
  <2>2. IsList(Related(r)) /\ Range(Related(r)) = {Ask(r.target, "ANY")}
    BY <2>1, ListOne
  <2>3. r # SRV
    BY <1>1 DEF SRV, Record
  <2>4. r = PTR => r.target = "inst"
    BY DEF PTR, Record
  <2> QED BY <2>2, <2>3, <2>4 DEF Followed
<1>2. CASE r.type = "SRV"
  <2>1. Related(r) = <<Ask(r.target, "ANY"), Ask(r.name, "TXT")>>
    BY <1>2 DEF Related
  <2>2. /\ IsList(Related(r))
        /\ Range(Related(r)) = {Ask(r.target, "ANY"), Ask(r.name, "TXT")}
    BY <2>1, ListTwo
  <2>3. r # PTR
    BY <1>2 DEF PTR, Record
  <2>4. r = SRV => r.target = "host"
    BY DEF SRV, Record
  <2> QED BY <2>2, <2>3, <2>4 DEF Followed
<1>3. CASE r.type \notin {"PTR", "SRV"}
  <2>1. Related(r) = IF r.type \in {"A", "AAAA"} THEN <<Ask(r.name, "NSEC")>> ELSE <<>>
    BY <1>3 DEF Related
  <2>2. IsList(Related(r))
    BY <2>1, ListOne, EmptyList
  <2>3. r # PTR /\ r # SRV
    BY <1>3 DEF PTR, SRV, Record
  <2> QED BY <2>2, <2>3 DEF Followed
<1> QED BY <1>1, <1>2, <1>3

\* The next record of the list has its turn.
LEMMA NextRelatedReply == ReplyInv /\ NextRelated => ReplyInv'
<1> SUFFICES ASSUME ReplyInv, NextRelated PROVE ReplyInv'
  OBVIOUS
<1>1. PICK r : r = Current[cursor + 1]
  OBVIOUS
<1>2. /\ asks' = Related(r) /\ cursor' = cursor + 1 /\ cursor \in Nat
      /\ asks = <<>> /\ cursor < Len(Current) /\ place = "build" /\ phase \in {"ans", "add"}
      /\ Len(reply.ans) \in Nat /\ Len(reply.add) \in Nat
      /\ UNCHANGED <<main, left, group, net, pkt, place, phase, reply, there>>
  BY <1>1, ListItems DEF NextRelated, lists, ReplyInv, ListsTyped
<1>3. PICK hosts : hosts = FromHost(there)
  OBVIOUS
<1>4. IsList(asks') /\ Followed(r, asks', reply.add, hosts)
  BY <1>2, RelatedFollows
<1>5. \A x : Followed(x, asks, reply.add, hosts) => Followed(x, asks', reply.add, hosts)
  BY <1>2, EmptyList DEF Followed
<1>6. ListsTyped'
  BY <1>2, <1>4 DEF ReplyInv, ListsTyped
<1>7. GroupInv'
  BY <1>2 DEF ReplyInv, GroupInv
<1>8. ASSUME NEW list, FollowedTo(list), cursor < Len(list), r = list[cursor + 1],
             Len(list) \in Nat
      PROVE  /\ cursor' <= Len(list)
             /\ \A i \in 1..cursor' : Followed(list[i], asks', reply.add, hosts)
  <2>1. \A i \in 1..cursor : Followed(list[i], asks', reply.add, hosts)
    BY <1>3, <1>5, <1>8 DEF FollowedTo
  <2>2. \A i \in 1..cursor' : i \in 1..cursor \/ i = cursor + 1
    BY <1>2
  <2>3. cursor' <= Len(list)
    BY <1>2, <1>8
  <2> QED BY <1>4, <1>8, <2>1, <2>2, <2>3
<1>9. BuildInv'
  <2>1. CASE phase = "ans"
    <3>1. FollowedTo(reply.ans) /\ cursor < Len(reply.ans) /\ r = reply.ans[cursor + 1]
      BY <1>1, <1>2, <2>1 DEF ReplyInv, BuildInv, Current
    <3>2. /\ cursor' <= Len(reply.ans)
          /\ \A i \in 1..cursor' : Followed(reply.ans[i], asks', reply.add, hosts)
      BY <1>2, <1>8, <3>1
    <3>3. FollowedTo(reply.ans)'
      BY <1>2, <1>3, <3>2 DEF FollowedTo
    <3> QED BY <1>2, <2>1, <3>3 DEF BuildInv
  <2>2. CASE phase = "add"
    <3>1. /\ FollowedTo(reply.add) /\ cursor < Len(reply.add) /\ r = reply.add[cursor + 1]
          /\ FollowedAll(Range(reply.ans))
      BY <1>1, <1>2, <2>2 DEF ReplyInv, BuildInv, Current
    <3>2. /\ cursor' <= Len(reply.add)
          /\ \A i \in 1..cursor' : Followed(reply.add[i], asks', reply.add, hosts)
      BY <1>2, <1>8, <3>1
    <3>3. FollowedTo(reply.add)' /\ FollowedAll(Range(reply.ans))'
      BY <1>2, <1>3, <1>5, <3>1, <3>2 DEF FollowedTo, FollowedAll
    <3> QED BY <1>2, <2>2, <3>3 DEF BuildInv
  <2> QED BY <1>2, <2>1, <2>2
<1> QED BY <1>6, <1>7, <1>9 DEF ReplyInv

\* The list has ended: every record of it has had its turn.
LEMMA EndOfListReply == ReplyInv /\ EndOfList => ReplyInv'
<1> SUFFICES ASSUME ReplyInv, EndOfList PROVE ReplyInv'
  OBVIOUS
<1>1. /\ asks = <<>> /\ cursor = Len(Current) /\ cursor' = 0 /\ cursor \in Nat
      /\ place = "build" /\ phase \in {"ans", "add"}
      /\ UNCHANGED <<main, left, group, net, pkt, asks, reply, there>>
  BY DEF EndOfList, lists, ReplyInv, ListsTyped
<1>2. phase' \in {"ans", "add"}
  BY DEF EndOfList, ReplyInv, ListsTyped
<1>3. ListsTyped'
  BY <1>1, <1>2 DEF ReplyInv, ListsTyped
<1>4. GroupInv'
  BY <1>1 DEF ReplyInv, GroupInv
<1>5. ASSUME NEW list, IsList(list), FollowedTo(list), cursor = Len(list)
      PROVE  FollowedAll(Range(list))
  <2>1. Range(list) = {list[i] : i \in 1..cursor}
    BY <1>5, ListItems
  <2> QED BY <1>5, <2>1 DEF FollowedTo, FollowedAll
<1>6. IsList(reply.ans) /\ IsList(reply.add) /\ Len(reply.add) \in Nat
  BY ListItems DEF ReplyInv, ListsTyped
<1>7. BuildInv'
  <2>1. CASE phase = "ans"
    <3>1. place' = "build" /\ phase' = "add"
      BY <1>1, <2>1 DEF EndOfList
    <3>2. FollowedTo(reply.ans) /\ cursor = Len(reply.ans)
      BY <1>1, <2>1 DEF ReplyInv, BuildInv, Current
    <3>3. FollowedAll(Range(reply.ans))
      BY <1>5, <1>6, <3>2
    <3>4. FollowedAll(Range(reply.ans))'
      BY <1>1, <3>3 DEF FollowedAll
    <3>5. FollowedTo(reply.add)'
      BY <1>1, <1>6 DEF FollowedTo
    <3> QED BY <3>1, <3>4, <3>5 DEF BuildInv
  <2>2. CASE phase = "add"
    <3>1. place' = "send"
      BY <1>1, <2>2 DEF EndOfList
    <3>2. FollowedTo(reply.add) /\ cursor = Len(reply.add) /\ FollowedAll(Range(reply.ans))
      BY <1>1, <2>2 DEF ReplyInv, BuildInv, Current
    <3>3. FollowedAll(Range(reply.add))
      BY <1>5, <1>6, <3>2
    <3>4. FollowedAll(Range(reply.ans))' /\ FollowedAll(Range(reply.add))'
      BY <1>1, <3>2, <3>3 DEF FollowedAll
    <3> QED BY <1>1, <3>1, <3>4 DEF BuildInv
  <2> QED BY <1>1, <2>1, <2>2
<1> QED BY <1>3, <1>4, <1>7 DEF ReplyInv

\* The reply goes out.
LEMMA SendReply == ReplyInv /\ Send => ReplyInv'
<1> SUFFICES ASSUME ReplyInv, Send PROVE ReplyInv'
  OBVIOUS
<1>1. /\ place' = "announce"
      /\ UNCHANGED <<main, left, group, net, pkt, asks, phase, cursor, reply, there>>
  BY DEF Send, lists, build
<1>2. ListsTyped'
  BY <1>1 DEF ReplyInv, ListsTyped
<1>3. GroupInv'
  BY <1>1 DEF ReplyInv, GroupInv
<1>4. BuildInv'
  BY <1>1 DEF BuildInv
<1> QED BY <1>2, <1>3, <1>4 DEF ReplyInv

\* The registering thread and those who stop the responder.
LEMMA CallerReply ==
    ReplyInv /\ (Register \/ Unregister \/ Stop \/ StopInResponder) => ReplyInv'
<1>1. ReplyInv /\ (NoInterface \/ Notify \/ Wake \/ Free \/ Stop \/ StopInResponder)
        => ReplyInv'
  <2> SUFFICES ASSUME ReplyInv,
                      NoInterface \/ Notify \/ Wake \/ Free \/ Stop \/ StopInResponder
               PROVE  ReplyInv'
    OBVIOUS
  <2>1. /\ UNCHANGED <<left, net, group, build>>
        /\ place' = place \/ place' \notin {"build", "send"}
        /\ main' \in {"start", "failed"} => main \in {"start", "failed"}
    BY DEF NoInterface, Notify, Wake, Free, Stop, StopInResponder, lists
  <2> QED BY <2>1, QuietKeeps
<1> QED BY <1>1, SetHostnameReply, AddRRReply, RegisterServiceReply
        DEF Register, Unregister

\* The responder.
LEMMA ResponderReply == ReplyInv /\ Respond => ReplyInv'
<1>1. ReplyInv /\ (Test \/ ReadNotify \/ NothingToAnnounce \/ SayGoodbye \/ Close)
        => ReplyInv'
  <2> SUFFICES ASSUME ReplyInv,
                      Test \/ ReadNotify \/ NothingToAnnounce \/ SayGoodbye \/ Close
               PROVE  ReplyInv'
    OBVIOUS
  <2>1. /\ UNCHANGED <<left, net, group, build, main>>
        /\ place' \notin {"build", "send"}
    BY DEF Test, ReadNotify, NothingToAnnounce, SayGoodbye, Close, lists
  <2> QED BY <2>1, QuietKeeps
<1> QED BY <1>1, AssertNameReply, ReceiveReply, AnnounceReply, PopulateAnswers, PopulateRelated,
           SuppressReply, NextRelatedReply, EndOfListReply, SendReply DEF Respond

\* Every step keeps the invariant.
LEMMA ReplyStep == ReplyInv /\ [Next]_vars => ReplyInv'
<1>1. ReplyInv /\ Interrupt => ReplyInv'
  <2> SUFFICES ASSUME ReplyInv, Interrupt PROVE ReplyInv'
    OBVIOUS
  <2>1. UNCHANGED <<left, net, group, build, main>> /\ place' \notin {"build", "send"}
    BY DEF Interrupt, lists
  <2> QED BY <2>1, QuietKeeps
<1>2. ReplyInv /\ UNCHANGED vars => ReplyInv'
  <2> SUFFICES ASSUME ReplyInv, UNCHANGED vars PROVE ReplyInv'
    OBVIOUS
  <2>1. UNCHANGED <<left, net, group, build, main, place>>
    BY DEF vars, lists
  <2> QED BY <2>1, QuietKeeps
<1>3. ReplyInv /\ Arrive => ReplyInv'
  <2> SUFFICES ASSUME ReplyInv, Arrive PROVE ReplyInv'
    OBVIOUS
  <2>1. UNCHANGED <<main, left, group, place, build>>
    BY DEF Arrive, lists
  <2>2. PICK p \in Packets : net' = Append(net, p)
    BY DEF Arrive
  <2>3. net' \in Seq(Packets)
    BY <2>2 DEF ReplyInv, ListsTyped
  <2>4. ListsTyped' /\ GroupInv'
    BY <2>1, <2>3 DEF ReplyInv, ListsTyped, GroupInv, build
  <2>5. BuildInv'
    BY <2>1 DEF ReplyInv, BuildInv, FollowedAll, FollowedTo, build
  <2> QED BY <2>4, <2>5 DEF ReplyInv
<1> QED BY <1>1, <1>2, <1>3, CallerReply, ResponderReply DEF Next

\* Whatever the responder is asked, and whatever is registered while it looks
\* records up one by one: a reply with the service's PTR has its SRV and TXT,
\* and one with the SRV every address the host had when the query came.
THEOREM RepliesWhole == Spec => []ReplyComplete
<1>1. ReplyInv => ReplyComplete
  <2> SUFFICES ASSUME ReplyInv, place = "send"
               PROVE  /\ Names(PTR) => Names(SRV) /\ Names(TXT)
                      /\ Names(SRV) => \A r \in there : r.type \in {"A", "AAAA"} => Names(r)
    BY DEF ReplyComplete
  <2>1. \A r : Names(r) => Followed(r, <<>>, reply.add, FromHost(there))
    BY DEF ReplyInv, BuildInv, FollowedAll, Names
  <2>2. Range(<<>>) = {}
    BY EmptyList
  <2>3. Names(PTR) => {SRV, TXT} \subseteq Range(reply.add)
    BY <2>1, <2>2 DEF Followed
  <2>4. Names(SRV) => FromHost(there) \subseteq Range(reply.add)
    BY <2>1, <2>2 DEF Followed
  <2> QED BY <2>3, <2>4 DEF Names, FromHost, IsHost
<1> QED BY <1>1, ReplyInit, ReplyStep, PTL DEF Spec
-----------------------------------------------------------------------------
ToAnswer(p) == {q \in Range(p.qn) : ~q.unicast_query}
Asked(r) == \E q \in ToAnswer(pkt) : Matches(r, q)

\* While the questions are looked up, the answers are to those of them that
\* have been; after that, less what the querier knows.
AnswerInv ==
    /\ place = "build" /\ phase = "ask" /\ pkt.kind = "query" =>
        /\ Range(asks) \subseteq ToAnswer(pkt)
        /\ \A r \in Range(reply.ans) : Asked(r)
        /\ \A q \in ToAnswer(pkt) :
            q \in Range(asks) \/ \A r \in there : Matches(r, q) => r \in Range(reply.ans)
    /\ place = "send" \/ (place = "build" /\ phase # "ask") =>
        (pkt.kind = "query" =>
            /\ \A r \in Range(reply.ans) : Asked(r) /\ ~Suppressed(r)
            /\ \A r \in there : Asked(r) /\ ~Suppressed(r) => r \in Range(reply.ans))

\* No query is at work at the start.
LEMMA AnswerInit == Init => AnswerInv
BY DEF Init, AnswerInv

\* A step that leaves the reply alone and starts none keeps it.
LEMMA QuietAnswers ==
    ASSUME AnswerInv, UNCHANGED build, place' = place \/ place' \notin {"build", "send"}
    PROVE  AnswerInv'
BY DEF AnswerInv, build, Asked, ToAnswer, Suppressed, Knows

\* So does one that looks up related records.
LEMMA RelatedAnswers ==
    ASSUME AnswerInv, place = "build", phase # "ask", phase' # "ask",
           UNCHANGED <<pkt, there>>, reply'.ans = reply.ans
    PROVE  AnswerInv'
BY DEF AnswerInv, Asked, ToAnswer, Suppressed, Knows

\* A query is taken up: all of its questions are to be looked up.
LEMMA ReceiveAnswers == ReplyInv /\ AnswerInv /\ Receive => AnswerInv'
<1> SUFFICES ASSUME ReplyInv, Receive PROVE AnswerInv'
  OBVIOUS
<1> USE DEF Receive, Readable
<1>1. net \in Seq(Packets) /\ net # <<>> /\ ListsTyped
  BY DEF ReplyInv, ListsTyped
<1>2. Head(net) \in Packets
  BY <1>1, HeadTailProperties
<1>3. PICK p : p = Head(net)
  OBVIOUS
<1>4. /\ p \in Packets
      /\ pkt' = IF p.kind = "query" THEN p ELSE NoPacket
      /\ asks' = IF p.kind = "query" THEN Questions(p) ELSE <<>>
      /\ NoPacket.kind # "query"
  BY <1>2, <1>3 DEF NoPacket
<1>5. Range(Questions(p)) = ToAnswer(p)
  BY <1>4, QuestionsOf DEF ToAnswer
<1>6. Range(reply'.ans) = {}
  BY EmptyList DEF NoReply
<1>7. phase' = "ask"
  OBVIOUS
<1> QED BY <1>4, <1>5, <1>6, <1>7 DEF AnswerInv, Asked

\* A question is looked up: every record it asks for that was there is found.
LEMMA PopulateKeepsAnswers == ReplyInv /\ AnswerInv /\ Populate => AnswerInv'
<1> SUFFICES ASSUME ReplyInv, AnswerInv, Populate PROVE AnswerInv'
  OBVIOUS
<1>1. CASE phase # "ask"
  <2>1. reply'.ans = reply.ans
    BY <1>1 DEF Populate, ReplyInv, ListsTyped
  <2>2. UNCHANGED <<pkt, there, phase>> /\ place = "build"
    BY DEF Populate
  <2> QED BY <1>1, <2>1, <2>2, RelatedAnswers
<1>2. CASE phase = "ask"
  <2>1. PICK ask : ask = Head(asks)
    OBVIOUS
  <2>2. /\ IsList(group) /\ IsList(asks) /\ asks # <<>> /\ asks' = Tail(asks)
        /\ IsList(reply.ans)
    BY DEF ReplyInv, ListsTyped, Populate
  <2>3. PICK more : more = reply.ans \o NewIn(reply.ans, Found(ask)) /\ reply'.ans = more
    BY <1>2, <2>1 DEF Populate, ReplyInv, ListsTyped
  <2>4. Range(more) = Range(reply.ans) \cup {r \in Range(group) : Matches(r, ask)}
    BY <2>2, <2>3, LookUp
  <2>5. Range(asks) = {ask} \cup Range(asks')
    BY <2>1, <2>2, ListTail
  <2>6. UNCHANGED <<pkt, there, phase, place>> /\ place = "build"
    BY DEF Populate
  <2>7. there \subseteq Range(group)
    BY DEF ReplyInv, GroupInv
  <2>8. SUFFICES ASSUME pkt.kind = "query"
                 PROVE  /\ Range(asks') \subseteq ToAnswer(pkt)
                        /\ \A r \in Range(more) : Asked(r)
                        /\ \A q \in ToAnswer(pkt) :
                            q \in Range(asks')
                            \/ \A r \in there : Matches(r, q) => r \in Range(more)
    BY <1>2, <2>3, <2>6 DEF AnswerInv, Asked, ToAnswer
  <2>9. /\ Range(asks) \subseteq ToAnswer(pkt)
        /\ \A r \in Range(reply.ans) : Asked(r)
        /\ \A q \in ToAnswer(pkt) :
            q \in Range(asks) \/ \A r \in there : Matches(r, q) => r \in Range(reply.ans)
    BY <1>2, <2>6, <2>8 DEF AnswerInv
  <2>10. \A r \in Range(more) : Asked(r)
    BY <2>4, <2>5, <2>9 DEF Asked
  <2>11. ASSUME NEW q \in ToAnswer(pkt), q \notin Range(asks'), NEW r \in there, Matches(r, q)
         PROVE  r \in Range(more)
    BY <2>4, <2>5, <2>7, <2>9, <2>11
  <2> QED BY <2>5, <2>9, <2>10, <2>11
<1> QED BY <1>1, <1>2

\* All have been: what the querier knows is dropped.
LEMMA SuppressKeepsAnswers == ReplyInv /\ AnswerInv /\ Suppress => AnswerInv'
<1> SUFFICES ASSUME ReplyInv, AnswerInv, Suppress PROVE AnswerInv'
  OBVIOUS
<1>1. IsList(reply.ans) /\ asks = <<>>
  BY DEF ReplyInv, ListsTyped, Suppress
<1>2. PICK kept :
        /\ kept = Filter(reply.ans, {r \in Range(reply.ans) : ~Suppressed(r)})
        /\ reply'.ans = kept
  BY DEF Suppress, ReplyInv, ListsTyped
<1>3. Range(kept) = {r \in Range(reply.ans) : ~Suppressed(r)}
  <2>1. Range(kept) = Range(reply.ans) \cap {r \in Range(reply.ans) : ~Suppressed(r)}
    BY <1>1, <1>2, ListFilter
  <2> QED BY <2>1
<1>4. UNCHANGED <<pkt, there, place>> /\ phase' # "ask" /\ phase = "ask" /\ place = "build"
  BY DEF Suppress
<1>5. SUFFICES ASSUME pkt.kind = "query"
               PROVE  /\ \A r \in Range(kept) : Asked(r) /\ ~Suppressed(r)
                      /\ \A r \in there : Asked(r) /\ ~Suppressed(r) => r \in Range(kept)
  BY <1>2, <1>4 DEF AnswerInv, Asked, ToAnswer, Suppressed, Knows
<1>6. /\ \A r \in Range(reply.ans) : Asked(r)
      /\ \A q \in ToAnswer(pkt) :
          \A r \in there : Matches(r, q) => r \in Range(reply.ans)
  BY <1>1, <1>4, <1>5, EmptyList DEF AnswerInv
<1>7. \A r \in there : Asked(r) => r \in Range(reply.ans)
  BY <1>6 DEF Asked
<1> QED BY <1>3, <1>6, <1>7

\* Every step keeps it.
LEMMA AnswerStep == ReplyInv /\ AnswerInv /\ [Next]_vars => AnswerInv'
<1> SUFFICES ASSUME ReplyInv, AnswerInv, [Next]_vars PROVE AnswerInv'
  OBVIOUS
<1>1. CASE Register \/ Unregister \/ Stop \/ StopInResponder \/ Arrive \/ Interrupt
           \/ UNCHANGED vars
  <2>1. UNCHANGED build /\ (place' = place \/ place' \notin {"build", "send"})
    BY <1>1 DEF Register, Unregister, NoInterface, SetHostname, AddRR, RegisterService,
                Notify, Wake, Free, Stop, StopInResponder, Arrive, Interrupt, vars
  <2> QED BY <2>1, QuietAnswers
<1>2. CASE Test \/ ReadNotify \/ AssertName \/ NothingToAnnounce \/ SayGoodbye \/ Close
  <2>1. UNCHANGED build /\ place' \notin {"build", "send"}
    BY <1>2 DEF Test, ReadNotify, AssertName, NothingToAnnounce, SayGoodbye, Close
  <2> QED BY <2>1, QuietAnswers
<1>3. CASE NextRelated \/ EndOfList
  <2>1. UNCHANGED <<pkt, there, reply>> /\ place = "build" /\ phase # "ask" /\ phase' # "ask"
    BY <1>3 DEF NextRelated, EndOfList
  <2> QED BY <2>1, RelatedAnswers
<1>4. CASE Send
  <2>1. place' = "announce"
    BY <1>4 DEF Send
  <2> QED BY <2>1 DEF AnswerInv
<1>5. CASE Announce
  <2>1. pkt'.kind = "other"
    BY <1>5 DEF Announce, NoPacket
  <2> QED BY <2>1 DEF AnswerInv
<1> QED BY <1>1, <1>2, <1>3, <1>4, <1>5, ReceiveAnswers, PopulateKeepsAnswers,
           SuppressKeepsAnswers DEF Next, Respond

\* Of the known answers of a packet those that stand for the same record have
\* times to live on the same side of the half: the code looks at the first.
KnownAlike ==
    \A p \in Packets : \A k, l \in Range(p.ans) :
        SameRR(k, l) => (2 * k.ttl >= DEFAULT_TTL <=> 2 * l.ttl >= DEFAULT_TTL)

\* A record is dropped if and only if the querier knows it.
LEMMA SuppressedKnown ==
    ASSUME KnownAlike, ListsTyped, pkt.kind = "query", NEW r
    PROVE  Suppressed(r) <=>
               \E k \in Range(pkt.ans) : SameRR(k, r) /\ 2 * k.ttl >= DEFAULT_TTL
<1>1. pkt \in Packets /\ IsList(pkt.ans)
  BY QuestionsOf DEF ListsTyped, NoPacket
<1>2. pkt.ans \in Seq(KnownAnswer)
  BY <1>1, MdnsdAssumption
<1>3. \A k \in Range(pkt.ans) : k.ttl \in Nat
  <2>1. \A i \in 1..Len(pkt.ans) : pkt.ans[i] \in KnownAnswer
    BY <1>2, ElementOfSeq
  <2>2. Range(pkt.ans) = {pkt.ans[i] : i \in 1..Len(pkt.ans)}
    BY <1>1, ListItems
  <2>3. \A k \in KnownAnswer : k.ttl \in Nat
    BY DEF KnownAnswer
  <2> QED BY <2>1, <2>2, <2>3
<1>4. PICK knows : knows = Knows(r)
  OBVIOUS
<1>5. IsList(knows) /\ Range(knows) = {k \in Range(pkt.ans) : SameRR(k, r)}
  <2>1. IsList(knows)
        /\ Range(knows) = Range(pkt.ans) \cap {k \in Range(pkt.ans) : SameRR(k, r)}
    BY <1>1, <1>4, ListFilter DEF Knows
  <2> QED BY <2>1
<1>6. knows # <<>> => Head(knows) \in Range(knows)
  BY <1>5, ListTail
<1>7. knows = <<>> => Range(knows) = {}
  BY EmptyList
<1>8. \A n \in Nat : n >= DEFAULT_TTL \div 2 <=> 2 * n >= DEFAULT_TTL
  BY DEF DEFAULT_TTL
<1>9. Suppressed(r) <=> knows # <<>> /\ 2 * Head(knows).ttl >= DEFAULT_TTL
  BY <1>3, <1>4, <1>5, <1>6, <1>8 DEF Suppressed
<1>10. ASSUME NEW k \in Range(pkt.ans), SameRR(k, r), 2 * k.ttl >= DEFAULT_TTL
       PROVE  Suppressed(r)
  <2>1. k \in Range(knows) /\ knows # <<>>
    BY <1>5, <1>7, <1>10
  <2>2. Head(knows) \in Range(pkt.ans) /\ SameRR(Head(knows), r)
    BY <1>5, <1>6, <2>1
  <2>3. 2 * Head(knows).ttl >= DEFAULT_TTL
    BY <1>1, <1>10, <2>2 DEF KnownAlike, SameRR
  <2> QED BY <1>9, <2>1, <2>3
<1>11. ASSUME Suppressed(r)
       PROVE  \E k \in Range(pkt.ans) : SameRR(k, r) /\ 2 * k.ttl >= DEFAULT_TTL
  BY <1>5, <1>6, <1>9, <1>11
<1> QED BY <1>10, <1>11

\* Whatever is registered while a query is at work: it is answered with every
\* record it asked for that was there, and no other, less those it knows with
\* half of their time left, if it does not contradict itself about them.
THEOREM QueriesAnswered == ASSUME KnownAlike PROVE Spec => []AnsweredExactly
<1>1. ReplyInv /\ AnswerInv => AnsweredExactly
  <2> SUFFICES ASSUME ReplyInv, AnswerInv, place = "send", pkt.kind = "query"
               PROVE  AnsweredExactly
    BY DEF AnsweredExactly
  <2> DEFINE asked(r) == \E i \in 1..Len(pkt.qn) :
                             ~pkt.qn[i].unicast_query /\ Matches(r, pkt.qn[i])
             known(r) == \E i \in 1..Len(pkt.ans) :
                 /\ pkt.ans[i].name = r.name /\ pkt.ans[i].type = r.type
                 /\ r.type = "PTR" => pkt.ans[i].target = r.target
                 /\ 2 * pkt.ans[i].ttl >= DEFAULT_TTL
  <2>1. pkt \in Packets \cup {NoPacket} /\ ListsTyped
    BY DEF ReplyInv, ListsTyped
  <2>2. /\ Range(pkt.qn) = {pkt.qn[i] : i \in 1..Len(pkt.qn)}
        /\ Range(pkt.ans) = {pkt.ans[i] : i \in 1..Len(pkt.ans)}
    BY <2>1, QuestionsOf, ListItems
  <2>3. \A r : asked(r) <=> Asked(r)
    BY <2>2 DEF Asked, ToAnswer
  <2>4. \A r : known(r) <=> Suppressed(r)
    <3>1. ASSUME NEW r PROVE known(r) <=> \E k \in Range(pkt.ans) :
                                 SameRR(k, r) /\ 2 * k.ttl >= DEFAULT_TTL
      BY <2>2 DEF SameRR
    <3> QED BY <2>1, <3>1, SuppressedKnown
  <2>5. /\ \A r \in Range(reply.ans) : Asked(r) /\ ~Suppressed(r)
        /\ \A r \in there : Asked(r) /\ ~Suppressed(r) => r \in Range(reply.ans)
    BY DEF AnswerInv
  <2>6. /\ \A r \in Range(reply.ans) : asked(r) /\ ~known(r)
        /\ \A r \in there : asked(r) /\ ~known(r) => r \in Range(reply.ans)
    <3> HIDE DEF asked, known
    <3> QED BY <2>3, <2>4, <2>5
  <2> QED BY <2>6 DEF AnsweredExactly
<1>2. Init => ReplyInv /\ AnswerInv
  BY ReplyInit, AnswerInit
<1>3. ReplyInv /\ AnswerInv /\ [Next]_vars => ReplyInv' /\ AnswerInv'
  BY ReplyStep, AnswerStep
<1> QED BY <1>1, <1>2, <1>3, PTL DEF Spec

-----------------------------------------------------------------------------
\* Induction up to n, for a set in place of a predicate.
LEMMA UpTo == ASSUME NEW n \in Nat, NEW S, 0 \in S,
                     \A j \in 1..n : j - 1 \in S => j \in S
              PROVE  0..n \subseteq S
<1> DEFINE T == {j \in 0..n : j \notin S}
<1>1. CASE T = {}
    BY <1>1
<1>2. CASE T # {}
  <2>1. T \subseteq Nat
      OBVIOUS
  <2>2. PICK x \in T : \A y \in T : x <= y
    <3> HIDE DEF T
    <3> QED BY <1>2, <2>1, Least
  <2>3. x \in 1..n /\ x - 1 \in 0..n /\ x - 1 \notin T
      BY <2>2
  <2> QED BY <2>2, <2>3
<1> QED BY <1>1, <1>2

\* What the turns of a loop lead to.
Turns(f, n, base, step) == f[0] = base /\ \A j \in 1..n : f[j] = step[j][f[j - 1]]

\* The loops' recursive functions exist.
LEMMA Recursion ==
    ASSUME NEW n \in Nat, NEW T, NEW base \in T, NEW step \in [1..n -> [T -> T]]
    PROVE  \E f \in [0..n -> T] : Turns(f, n, base, step)
<1> DEFINE Good(f, k) == f[0] = base /\ \A j \in 1..k : f[j] = step[j][f[j - 1]]
           S == {k \in 0..n : \E f \in [0..k -> T] : Good(f, k)}
<1>1. 0 \in S
  <2>1. [i \in 0..0 |-> base] \in [0..0 -> T] /\ Good([i \in 0..0 |-> base], 0)
      OBVIOUS
  <2>2. \E f \in [0..0 -> T] : Good(f, 0)
    <3> HIDE DEF Good
    <3> QED BY <2>1
  <2> QED BY <2>2
<1>2. ASSUME NEW k \in 1..n, k - 1 \in S PROVE k \in S
  <2>1. PICK f \in [0..k - 1 -> T] : Good(f, k - 1)
      BY <1>2
  <2> DEFINE g == [i \in 0..k |-> IF i = k THEN step[k][f[k - 1]] ELSE f[i]]
  <2>2. step[k][f[k - 1]] \in T
      OBVIOUS
  <2>3. g \in [0..k -> T]
      BY <2>2
  <2>4. Good(g, k)
    <3>1. g[0] = base
        BY <2>1
    <3>2. \A j \in 1..k : g[j] = step[j][g[j - 1]]
      <4> TAKE j \in 1..k
      <4>1. CASE j = k
          BY <4>1
      <4>2. CASE j # k
          BY <4>2, <2>1
      <4> QED BY <4>1, <4>2
    <3> QED BY <3>1, <3>2
  <2>5. \E h \in [0..k -> T] : Good(h, k)
    <3> HIDE DEF Good, g
    <3> QED BY <2>3, <2>4
  <2>6. k \in 0..n
      OBVIOUS
  <2> HIDE DEF Good, g
  <2> QED BY <2>5, <2>6
<1>3. 0..n \subseteq S
  <2> HIDE DEF S
  <2> QED BY <1>1, <1>2, UpTo
<1>4. n \in S
    BY <1>3
<1> QED BY <1>4 DEF Turns
-----------------------------------------------------------------------------
\* The packet's bytes from offset o on.
Holds(P, o, bytes) ==
    /\ o + Len(bytes) <= Len(P)
    /\ \A i \in 1..Len(bytes) : P[o + i] = bytes[i]

\* Joined sequences, and their lengths.
LEMMA Cat ==
    ASSUME NEW T, NEW a \in Seq(T), NEW b \in Seq(T)
    PROVE  /\ a \o b \in Seq(T) /\ Len(a \o b) = Len(a) + Len(b)
           /\ Len(a) \in Nat /\ Len(b) \in Nat
OBVIOUS

\* Two runs of bytes, one behind the other.
LEMMA HoldsCat ==
    ASSUME NEW P \in Seq(Octet), NEW o \in Nat, NEW a \in Seq(Octet), NEW b \in Seq(Octet)
    PROVE  /\ a \o b \in Seq(Octet) /\ Len(a \o b) = Len(a) + Len(b)
           /\ Holds(P, o, a \o b) => Holds(P, o, a) /\ Holds(P, o + Len(a), b)
<1>1. /\ a \o b \in Seq(Octet) /\ Len(a \o b) = Len(a) + Len(b)
      /\ Len(a) \in Nat /\ Len(b) \in Nat
      /\ \A i \in 1..Len(a) : (a \o b)[i] = a[i]
      /\ \A i \in 1..Len(b) : (a \o b)[Len(a) + i] = b[i]
    OBVIOUS
<1> DEFINE c == a \o b
<1> HIDE DEF c
<1>2. ASSUME Holds(P, o, c), c = a \o b PROVE Holds(P, o, a) /\ Holds(P, o + Len(a), b)
  <2>1. \A i \in 1..Len(a) : i \in 1..Len(c) /\ c[i] = a[i]
      BY <1>1, <1>2
  <2>2. \A i \in 1..Len(b) : Len(a) + i \in 1..Len(c) /\ c[Len(a) + i] = b[i]
      BY <1>1, <1>2
  <2>3. \A i \in 1..Len(b) : o + (Len(a) + i) = o + Len(a) + i
      BY <1>1
  <2>4. Len(c) = Len(a) + Len(b) /\ Len(P) \in Nat
      BY <1>1, <1>2
  <2>5. \A i \in 1..Len(a) : P[o + i] = a[i]
      BY <2>1, <1>2 DEF Holds
  <2>6. \A i \in 1..Len(b) : P[o + Len(a) + i] = b[i]
      BY <2>2, <2>3, <1>2 DEF Holds
  <2> QED BY <2>4, <2>5, <2>6, <1>1, <1>2 DEF Holds
<1> QED BY <1>1, <1>2 DEF c

\* What packed strings are: each one's length and characters, one by one.
LEMMA StringsAre ==
    ASSUME NEW list \in Seq(Seq(Octet)), \A j \in 1..Len(list) : Len(list[j]) < 256
    PROVE  LET s == Strings(list)
           IN /\ s \in [0..Len(list) -> Seq(Octet)]
              /\ s[0] = <<>>
              /\ \A j \in 1..Len(list) : /\ s[j] = s[j - 1] \o <<Len(list[j])>> \o list[j]
                                         /\ Len(s[j]) = Len(s[j - 1]) + 1 + Len(list[j])
<1> DEFINE n == Len(list)
           F(f) == [j \in 0..n |-> IF j = 0 THEN <<>>
                                   ELSE f[j - 1] \o <<Len(list[j])>> \o list[j]]
           step == [j \in 1..n |-> [b \in Seq(Octet) |-> b \o <<Len(list[j])>> \o list[j]]]
<1> HIDE DEF F, step
<1>0. n \in Nat
    OBVIOUS
<1>1. \A j \in 1..n : list[j] \in Seq(Octet) /\ <<Len(list[j])>> \in Seq(Octet)
  <2> TAKE j \in 1..n
  <2>1. list[j] \in Seq(Octet)
      OBVIOUS
  <2>2. Len(list[j]) \in Nat /\ Len(list[j]) < 256
      BY <2>1
  <2>3. Len(list[j]) \in Octet
    <3>1. \A k \in Nat : k < 256 => k \in Octet
        BY DEF Octet
    <3> QED BY <2>2, <3>1
  <2> QED BY <2>1, <2>3
<1>2. \A j \in 1..n : \A b \in Seq(Octet) :
          /\ b \o <<Len(list[j])>> \o list[j] \in Seq(Octet)
          /\ Len(b \o <<Len(list[j])>> \o list[j]) = Len(b) + 1 + Len(list[j])
  <2> TAKE j \in 1..n
  <2> TAKE b \in Seq(Octet)
  <2> DEFINE a == <<Len(list[j])>>  l == list[j]
  <2>1. a \in Seq(Octet) /\ l \in Seq(Octet) /\ Len(a) = 1
      BY <1>1
  <2> HIDE DEF a, l
  <2>2. b \o a \in Seq(Octet) /\ Len(b \o a) = Len(b) + 1
      BY <2>1, Cat
  <2>3. (b \o a) \o l \in Seq(Octet) /\ Len((b \o a) \o l) = Len(b \o a) + Len(l)
      BY <2>1, <2>2, Cat
  <2> QED BY <2>2, <2>3 DEF a, l
<1>3. step \in [1..n -> [Seq(Octet) -> Seq(Octet)]]
    BY <1>2 DEF step
<1>4. <<>> \in Seq(Octet)
    OBVIOUS
<1>5. PICK f \in [0..n -> Seq(Octet)] :
          f[0] = <<>> /\ \A j \in 1..n : f[j] = step[j][f[j - 1]]
  <2> DEFINE T == Seq(Octet)  empty == <<>>
  <2>1. step \in [1..n -> [T -> T]] /\ empty \in T
      BY <1>3, <1>4
  <2>2. \E f \in [0..n -> T] : Turns(f, n, empty, step)
    <3> HIDE DEF n, T, empty
    <3> QED BY <1>0, <2>1, Recursion
  <2> QED BY <2>2 DEF Turns
<1>6. f = F(f)
  <2>1. \A j \in 1..n : f[j - 1] \in Seq(Octet)
    <3>1. \A j \in 1..n : j - 1 \in 0..n
        BY <1>0
    <3> QED BY <1>5, <3>1
  <2>2. \A j \in 1..n : f[j] = f[j - 1] \o <<Len(list[j])>> \o list[j]
      BY <1>5, <2>1 DEF step
  <2>3. f = [j \in 0..n |-> f[j]]
      BY <1>5
  <2>4. \A j \in 0..n : j = 0 \/ j \in 1..n
      BY <1>0
  <2>5. \A j \in 0..n : f[j] = IF j = 0 THEN <<>> ELSE f[j - 1] \o <<Len(list[j])>> \o list[j]
      BY <1>5, <2>2, <2>4
  <2> QED BY <2>3, <2>5 DEF F
<1>7. Strings(list) = CHOOSE g : g = F(g)
    BY DEF Strings, F
<1> DEFINE s == Strings(list)
<1>8. s = F(s)
    BY <1>6, <1>7
<1> HIDE DEF s
<1>9. s[0] = <<>> /\ \A j \in 1..n : s[j] = s[j - 1] \o <<Len(list[j])>> \o list[j]
  <2>1. \A j \in 0..n : s[j] = F(s)[j]
      BY <1>8, Zenon
  <2>2. 0 \in 0..n /\ \A j \in 1..n : j \in 0..n /\ j # 0
      BY <1>0
  <2> QED BY <2>1, <2>2 DEF F
<1>10. \A j \in 0..n : s[j] \in Seq(Octet)
  <2> DEFINE S == {j \in 0..n : s[j] \in Seq(Octet)}
  <2>1. 0 \in S
    <3>1. s[0] \in Seq(Octet)
        BY <1>4, <1>9, Zenon
    <3> QED BY <3>1, <1>0
  <2>2. ASSUME NEW j \in 1..n, j - 1 \in S PROVE j \in S
    <3>1. s[j - 1] \in Seq(Octet) /\ j \in 0..n
        BY <2>2, <1>0
    <3>2. s[j] \in Seq(Octet)
        BY <3>1, <1>2, <1>9
    <3> QED BY <3>1, <3>2
  <2> HIDE DEF S, n
  <2>3. 0..n \subseteq S
      BY <1>0, <2>1, <2>2, UpTo
  <2> QED BY <2>3 DEF S
<1>11. s \in [0..n -> Seq(Octet)]
    BY <1>8, <1>10 DEF F
<1>12. \A j \in 1..n : Len(s[j]) = Len(s[j - 1]) + 1 + Len(list[j])
  <2>1. \A j \in 1..n : j - 1 \in 0..n
      BY <1>0
  <2> QED BY <2>1, <1>9, <1>10, <1>2
<1> QED BY <1>9, <1>11, <1>12 DEF s

\* A path through the packet along the labels of a name to its root.
SpelledBy(P, path, name) ==
    /\ path \in [0..Len(name) -> Nat]
    /\ \A j \in 1..Len(name) : /\ ~Ended(P, path[j - 1])
                               /\ LabelAt(P, LabelPlace(P, path[j - 1])) = name[j]
                               /\ path[j] = Behind(P, path[j - 1])
    /\ Ended(P, path[Len(name)]) /\ path[Len(name)] < Len(P)
Spelled(P, off, name) == \E path : path[0] = off /\ SpelledBy(P, path, name)

\* The parser's walk takes the path that there is.
LEMMA WalkIs ==
    ASSUME NEW P \in Seq(Octet), NEW name \in Seq(Seq(Octet)), NEW path,
           SpelledBy(P, path, name), Len(name) <= Len(P)
    PROVE  /\ DOMAIN Walk(P, path[0]) = 0..Len(P)
           /\ \A j \in 0..Len(name) : Walk(P, path[0])[j] = path[j]
<1> DEFINE n == Len(name)  m == Len(P)  off == path[0]
           F(f) == [j \in 0..m |-> IF j = 0 THEN off
                                   ELSE IF Ended(P, f[j - 1]) THEN f[j - 1]
                                   ELSE Behind(P, f[j - 1])]
           w == [j \in 0..m |-> IF j <= n THEN path[j] ELSE path[n]]
           hop == Walk(P, off)
<1>1. n \in Nat /\ m \in Nat /\ n <= m
    OBVIOUS
<1>2. /\ \A j \in 1..n : ~Ended(P, path[j - 1]) /\ path[j] = Behind(P, path[j - 1])
      /\ Ended(P, path[n])
    BY DEF SpelledBy
<1> HIDE DEF n, m
<1>3. w = F(w)
  <2>1. ASSUME NEW j \in 0..m PROVE w[j] = F(w)[j]
    <3>1. CASE j = 0
        BY <3>1, <1>1
    <3>2. CASE j \in 1..n
      <4>1. w[j - 1] = path[j - 1] /\ w[j] = path[j] /\ j # 0 /\ j - 1 \in 0..m
          BY <3>2, <1>1
      <4> QED BY <4>1, <1>2, <3>2
    <3>3. CASE j > n
      <4>1. w[j - 1] = path[n] /\ w[j] = path[n] /\ j # 0
        <5>1. j - 1 \in 0..m /\ (j - 1 <= n => j - 1 = n) /\ ~(j <= n)
            BY <3>3, <1>1
        <5> QED BY <5>1, <1>1
      <4> QED BY <4>1, <1>2
    <3> QED BY <3>1, <3>2, <3>3, <1>1
  <2> HIDE DEF off
  <2>2. w = [j \in 0..m |-> w[j]] /\ F(w) = [j \in 0..m |-> F(w)[j]]
      OBVIOUS
  <2> HIDE DEF w, F
  <2> QED BY <2>1, <2>2
<1>4. hop = CHOOSE g : g = F(g)
    BY DEF Walk, m
<1> HIDE DEF w, hop
<1>5. hop = F(hop)
  <2> HIDE DEF F
  <2> QED BY <1>3, <1>4
<1>6. hop[0] = off /\ \A j \in 1..m : hop[j] = IF Ended(P, hop[j - 1]) THEN hop[j - 1]
                                               ELSE Behind(P, hop[j - 1])
  <2> HIDE DEF off
  <2>1. \A j \in 0..m : hop[j] = F(hop)[j]
    <3> HIDE DEF F
    <3> QED BY <1>5
  <2>2. 0 \in 0..m /\ \A j \in 1..m : j \in 0..m /\ j # 0
      BY <1>1
  <2> QED BY <2>1, <2>2
<1> DEFINE S == {j \in 0..n : hop[j] = path[j]}
<1>7. 0 \in S
    BY <1>1, <1>6
<1>8. ASSUME NEW j \in 1..n, j - 1 \in S PROVE j \in S
  <2>1. hop[j - 1] = path[j - 1] /\ j \in 0..n /\ j \in 1..m
      BY <1>8, <1>1
  <2> QED BY <2>1, <1>2, <1>6
<1>9. 0..n \subseteq S
  <2> HIDE DEF S
  <2> QED BY <1>1, <1>7, <1>8, UpTo
<1>10. DOMAIN hop = 0..m
    BY <1>5
<1> QED BY <1>9, <1>10 DEF n, m, hop

\* A name that is spelled is read, and its length is that of its first run.
LEMMA NameRead ==
    ASSUME NEW P \in Seq(Octet), NEW name \in Seq(Seq(Octet)), NEW path, NEW k \in 0..Len(name),
           SpelledBy(P, path, name), Len(name) <= Len(P),
           \A j \in 0..k - 1 : ~IsPointer(P[path[j] + 1]),
           k < Len(name) => IsPointer(P[path[k] + 1])
    PROVE  /\ uncompress_nlabel(P, path[0]) = name
           /\ label_len(P, path[0]) = path[k] - path[0] + (IF k = Len(name) THEN 1 ELSE 2)
<1> DEFINE n == Len(name)  m == Len(P)  off == path[0]  hop == Walk(P, off)
<1>1. n \in Nat /\ m \in Nat /\ n <= m /\ k \in 0..n
    OBVIOUS
<1>2. /\ \A j \in 1..n : ~Ended(P, path[j - 1]) /\ LabelAt(P, LabelPlace(P, path[j - 1])) = name[j]
      /\ Ended(P, path[n]) /\ path[n] < m /\ path \in [0..n -> Nat]
    BY DEF SpelledBy
<1>3. DOMAIN hop = 0..m /\ \A j \in 0..n : hop[j] = path[j]
    BY WalkIs
<1>4. \A j \in 0..n - 1 : ~Ended(P, path[j])
  <2> TAKE j \in 0..n - 1
  <2>1. j + 1 \in 1..n /\ j + 1 - 1 = j
      BY <1>1
  <2> QED BY <1>2, <2>1
<1>5. off \in Nat /\ off < m
  <2>1. CASE n = 0
      BY <2>1, <1>1, <1>2
  <2>2. CASE n # 0
    <3>1. 0 \in 0..n - 1 /\ 0 \in 0..n
        BY <2>2, <1>1
    <3>2. ~Ended(P, path[0]) /\ path[0] \in Nat
        BY <3>1, <1>2, <1>4
    <3> QED BY <3>2, <1>1 DEF Ended
  <2> QED BY <2>1, <2>2
<1> HIDE DEF n, m, off, hop
<1> DEFINE Closes(i) == Ended(P, hop[i]) /\ \A j \in 0..i - 1 : ~Ended(P, hop[j])
<1>6. (CHOOSE i \in 0..m : Closes(i)) = n
  <2>1. n \in 0..m /\ Closes(n)
      BY <1>1, <1>2, <1>3, <1>4
  <2>2. ASSUME NEW i \in 0..m, Closes(i) PROVE i = n
    <3>1. CASE i < n
        BY <3>1, <2>2, <1>1, <1>3, <1>4
    <3>2. CASE i > n
        BY <3>2, <2>2, <2>1, <1>1
    <3> QED BY <3>1, <3>2, <1>1
  <2> HIDE DEF Closes
  <2> QED BY <2>1, <2>2
<1>7. uncompress_nlabel(P, off) = name
  <2>1. uncompress_nlabel(P, off) = [i \in 1..n |-> LabelAt(P, LabelPlace(P, hop[i - 1]))]
    <3>1. ~(off >= Len(P))
        BY <1>1, <1>5 DEF m
    <3> QED BY <3>1, <1>3, <1>6 DEF uncompress_nlabel, hop
  <2>2. \A i \in 1..n : LabelAt(P, LabelPlace(P, hop[i - 1])) = name[i]
    <3> TAKE i \in 1..n
    <3>1. i - 1 \in 0..n
        BY <1>1
    <3> QED BY <3>1, <1>2, <1>3
  <2>3. name = [i \in 1..n |-> name[i]]
      BY DEF n
  <2> QED BY <2>1, <2>2, <2>3
<1> DEFINE Stops(i) == Ended(P, hop[i]) \/ IsPointer(P[hop[i] + 1])
           First(i) == Stops(i) /\ \A j \in 0..i - 1 : ~Stops(j)
<1>8. (CHOOSE i \in 0..m : First(i)) = k
  <2>1. k \in 0..m /\ \A j \in 0..k - 1 : ~Stops(j)
    <3>1. k \in 0..m /\ \A j \in 0..k - 1 : j \in 0..n /\ j \in 0..n - 1
        BY <1>1
    <3> QED BY <3>1, <1>3, <1>4
  <2>2. Stops(k)
    <3>1. k \in 0..n /\ (k = n \/ k < n)
        BY <1>1
    <3> QED BY <3>1, <1>2, <1>3 DEF n
  <2>3. ASSUME NEW i \in 0..m, First(i) PROVE i = k
    <3> HIDE DEF Stops
    <3>1. CASE i < k
        BY <3>1, <2>1, <2>3, <1>1
    <3>2. CASE i > k
        BY <3>2, <2>3, <2>2, <2>1, <1>1
    <3> QED BY <3>1, <3>2, <1>1
  <2>4. First(k)
      BY <2>1, <2>2
  <2> HIDE DEF First
  <2> QED BY <2>1, <2>3, <2>4
<1>9. label_len(P, off) = hop[k] - off + (IF hop[k] >= m THEN 0
                                          ELSE IF P[hop[k] + 1] = 0 THEN 1 ELSE 2)
    BY <1>3, <1>8 DEF label_len, hop, m
<1>10. hop[k] = path[k] /\ path[k] \in Nat
    BY <1>1, <1>2, <1>3
<1>11. label_len(P, off) = path[k] - off + (IF k = n THEN 1 ELSE 2)
  <2>1. CASE k = n
    <3>1. ~(path[k] >= m) /\ P[path[k] + 1] = 0
        BY <2>1, <1>1, <1>2, <1>10 DEF Ended, m
    <3> QED BY <3>1, <1>9, <1>10, <2>1
  <2>2. CASE k < n
    <3>1. ~Ended(P, path[k])
        BY <1>1, <1>4, <2>2
    <3>2. ~(path[k] >= m) /\ P[path[k] + 1] # 0 /\ k # n
        BY <3>1, <2>2, <1>1 DEF Ended, m
    <3> QED BY <3>2, <1>9, <1>10
  <2> QED BY <2>1, <2>2, <1>1
<1> QED BY <1>7, <1>11 DEF n, off

\* Names and texts are made of octets.
LEMMA StringsOctets ==
    ASSUME NEW list \in Seq(Seq(Character))
    PROVE  list \in Seq(Seq(Octet))
<1>1. \A s \in Seq(Character) : s \in Seq(Octet)
    BY DEF Character, Octet
<1>2. \A i \in 1..Len(list) : list[i] \in Seq(Octet)
    BY <1>1
<1>3. Len(list) \in Nat /\ list = [i \in 1..Len(list) |-> list[i]]
    OBVIOUS
<1> QED BY <1>2, <1>3

\* A name's labels have one to 63 octets.
LEMMA NameOctets ==
    ASSUME NEW name, IsName(name)
    PROVE  /\ name \in Seq(Seq(Octet)) /\ Len(name) \in Nat \ {0}
           /\ \A i \in 1..Len(name) : name[i] \in Seq(Octet) /\ Len(name[i]) \in 1..63
<1>1. name \in Seq(Seq(Octet)) /\ name # <<>>
    BY StringsOctets DEF IsName
<1>2. \A i \in 1..Len(name) : name[i] \in Seq(Octet)
    BY <1>1
<1>3. MaxLabel \in 1..63 /\ \A i \in 1..Len(name) : IsLabel(name[i])
  <2>1. MaxLabel \in 1..63
      BY ReplyAssumption
  <2>2. \A i \in 1..Len(name) : IsLabel(name[i])
      BY DEF IsName
  <2> QED BY <2>1, <2>2
<1>4. ASSUME NEW i \in 1..Len(name) PROVE Len(name[i]) \in 1..63
  <2>1. PICK k : k = Len(name[i])
      OBVIOUS
  <2>2. k \in 1..MaxLabel
      BY <1>3, <2>1 DEF IsLabel
  <2>3. k \in 1..63
      BY <1>3, <2>2
  <2> QED BY <2>1, <2>3
<1>5. Len(name) \in Nat /\ Len(name) # 0
    BY <1>1
<1> QED BY <1>1, <1>2, <1>4, <1>5

\* What is left of a name without its first labels.
LEMMA SuffixIs ==
    ASSUME NEW name \in Seq(Seq(Octet)), NEW i \in 0..Len(name)
    PROVE  /\ Suffix(name, i) \in Seq(Seq(Octet))
           /\ Len(Suffix(name, i)) = Len(name) - i
           /\ \A j \in 1..Len(name) - i : Suffix(name, i)[j] = name[i + j]
BY DEF Suffix

\* A suffix is spelled along the rest of the path.
LEMMA SuffixSpelled ==
    ASSUME NEW P, NEW path, NEW name \in Seq(Seq(Octet)), NEW i \in 0..Len(name),
           SpelledBy(P, path, name)
    PROVE  Spelled(P, path[i], Suffix(name, i))
<1> DEFINE n == Len(name)  c == Suffix(name, i)
           rest == [j \in 0..n - i |-> path[i + j]]
<1>1. n \in Nat /\ i \in 0..n /\ Len(c) = n - i /\ \A j \in 1..n - i : c[j] = name[i + j]
    BY SuffixIs
<1>2. /\ path \in [0..n -> Nat]
      /\ \A j \in 1..n : /\ ~Ended(P, path[j - 1]) /\ path[j] = Behind(P, path[j - 1])
                         /\ LabelAt(P, LabelPlace(P, path[j - 1])) = name[j]
      /\ Ended(P, path[n]) /\ path[n] < Len(P)
    BY DEF SpelledBy
<1> HIDE DEF n, c
<1>3. \A j \in 0..n - i : i + j \in 0..n
    BY <1>1
<1>4. rest \in [0..n - i -> Nat]
    BY <1>2, <1>3
<1>5. rest[0] = path[i] /\ rest[n - i] = path[n]
  <2>1. 0 \in 0..n - i /\ n - i \in 0..n - i /\ i + 0 = i /\ i + (n - i) = n
      BY <1>1
  <2> QED BY <2>1
<1>6. ASSUME NEW j \in 1..n - i
      PROVE  /\ ~Ended(P, rest[j - 1]) /\ rest[j] = Behind(P, rest[j - 1])
             /\ LabelAt(P, LabelPlace(P, rest[j - 1])) = c[j]
  <2>1. /\ j \in 0..n - i /\ j - 1 \in 0..n - i /\ i + j \in 1..n
        /\ i + (j - 1) = (i + j) - 1
      BY <1>1
  <2>2. rest[j] = path[i + j] /\ rest[j - 1] = path[(i + j) - 1] /\ c[j] = name[i + j]
      BY <2>1, <1>1
  <2> HIDE DEF rest
  <2> QED BY <2>1, <2>2, <1>2
<1> HIDE DEF rest
<1>7. SpelledBy(P, rest, c)
    BY <1>1, <1>2, <1>4, <1>5, <1>6 DEF SpelledBy
<1> QED BY <1>5, <1>7 DEF Spelled, c

\* A label or text read where it was written.
LEMMA LabelHeld ==
    ASSUME NEW P \in Seq(Octet), NEW o \in Nat, NEW label \in Seq(Octet), Len(label) \in 0..63,
           Holds(P, o, <<Len(label)>> \o label)
    PROVE  /\ P[o + 1] = Len(label) /\ o + 1 + Len(label) <= Len(P)
           /\ ~IsPointer(P[o + 1]) /\ LabelPlace(P, o) = o
           /\ LabelAt(P, o) = label /\ Behind(P, o) = o + 1 + Len(label)
<1> DEFINE n == Len(label)  one == <<n>>
<1>1. n \in 0..63 /\ n \in Octet /\ one \in Seq(Octet) /\ Len(one) = 1 /\ one[1] = n
    BY DEF Octet
<1>2. Holds(P, o, one) /\ Holds(P, o + 1, label)
  <2> HIDE DEF one
  <2>1. Holds(P, o, one \o label)
      BY DEF one
  <2>2. Holds(P, o, one) /\ Holds(P, o + Len(one), label)
      BY <1>1, <2>1, HoldsCat
  <2> QED BY <2>2, <1>1
<1> HIDE DEF n, one
<1>3. P[o + 1] = n /\ o + 1 + n <= Len(P) /\ Len(P) \in Nat
    BY <1>1, <1>2 DEF Holds, n
<1>4. ~IsPointer(P[o + 1]) /\ LabelPlace(P, o) = o
    BY <1>1, <1>3 DEF IsPointer, LabelPlace
<1>5. LabelAt(P, o) = label
  <2>1. LabelAt(P, o) = SubSeq(P, o + 2, o + 1 + n)
      BY <1>3 DEF LabelAt
  <2>2. /\ Len(SubSeq(P, o + 2, o + 1 + n)) = n /\ SubSeq(P, o + 2, o + 1 + n) \in Seq(Octet)
        /\ \A i \in 1..n : SubSeq(P, o + 2, o + 1 + n)[i] = P[o + 1 + i]
      BY <1>1, <1>3
  <2>3. \A i \in 1..n : P[o + 1 + i] = label[i]
      BY <1>2 DEF Holds, n
  <2>4. PICK t : t = SubSeq(P, o + 2, o + 1 + n)
      OBVIOUS
  <2>5. t = [i \in 1..n |-> t[i]] /\ label = [i \in 1..n |-> label[i]]
    <3>1. \A x \in Seq(Octet) : x = [i \in 1..Len(x) |-> x[i]]
        OBVIOUS
    <3>2. t \in Seq(Octet) /\ Len(t) = n /\ Len(label) = n
        BY <2>2, <2>4 DEF n
    <3> QED BY <3>1, <3>2
  <2>6. \A i \in 1..n : t[i] = label[i]
      BY <2>2, <2>3, <2>4
  <2> QED BY <2>1, <2>4, <2>5, <2>6
<1> QED BY <1>1, <1>3, <1>4, <1>5 DEF Behind, n

\* A label has characters, so it does not end a name.
LEMMA LabelHere ==
    ASSUME NEW P \in Seq(Octet), NEW o \in Nat, NEW label \in Seq(Octet), Len(label) \in 1..63,
           Holds(P, o, <<Len(label)>> \o label)
    PROVE  /\ ~Ended(P, o) /\ ~IsPointer(P[o + 1]) /\ LabelPlace(P, o) = o
           /\ LabelAt(P, o) = label /\ Behind(P, o) = o + 1 + Len(label)
<1>1. Len(label) \in 0..63 /\ Len(label) # 0 /\ Len(P) \in Nat
  <2>1. PICK n : n = Len(label)
      OBVIOUS
  <2>2. n \in 1..63
      BY <2>1
  <2>3. n \in 0..63 /\ n # 0
      BY <2>2
  <2>4. Len(P) \in Nat
      OBVIOUS
  <2> QED BY <2>1, <2>3, <2>4
<1>2. /\ P[o + 1] = Len(label) /\ o + 1 + Len(label) <= Len(P)
      /\ ~IsPointer(P[o + 1]) /\ LabelPlace(P, o) = o
      /\ LabelAt(P, o) = label /\ Behind(P, o) = o + 1 + Len(label)
    BY <1>1, LabelHeld
<1>3. ~Ended(P, o)
    BY <1>1, <1>2 DEF Ended
<1> QED BY <1>2, <1>3

\* A pointer read where it was written.
LEMMA PointerHere ==
    ASSUME NEW P \in Seq(Octet), NEW o \in Nat, NEW c \in Nat, c < Reach,
           Holds(P, o, u16(PointerBits + (c % Reach)))
    PROVE  ~Ended(P, o) /\ IsPointer(P[o + 1]) /\ LabelPlace(P, o) = c
<1> DEFINE a == (49152 + c) \div 256  b == (49152 + c) % 256
<1>1. u16(PointerBits + (c % Reach)) = <<a, b>>
  <2>1. c % Reach = c
      BY DEF Reach
  <2>2. a \in 0..255
      BY DEF Reach
  <2>3. PICK x : x = PointerBits + c
      OBVIOUS
  <2>4. u16(x) = <<(x \div 256) % 256, x % 256>>
      BY DEF u16
  <2>5. x = 49152 + c
      BY <2>3 DEF PointerBits
  <2>6. x \div 256 = a /\ x % 256 = b
      BY ONLY <2>5
  <2>7. a % 256 = a
      BY ONLY <2>2
  <2> HIDE DEF a, b
  <2>8. (x \div 256) % 256 = a
      BY ONLY <2>6, <2>7
  <2>9. u16(x) = <<a, b>>
      BY ONLY <2>4, <2>6, <2>8
  <2> QED BY ONLY <2>1, <2>3, <2>9
<1>2. P[o + 1] = a /\ P[o + 2] = b /\ o + 2 <= Len(P) /\ Len(P) \in Nat
  <2> HIDE DEF a, b
  <2>1. Holds(P, o, <<a, b>>)
      BY <1>1
  <2>2. Len(<<a, b>>) = 2 /\ <<a, b>>[1] = a /\ <<a, b>>[2] = b
      OBVIOUS
  <2>3. 1 \in 1..2 /\ 2 \in 1..2 /\ Len(P) \in Nat
      OBVIOUS
  <2> QED BY <2>1, <2>2, <2>3 DEF Holds
<1>3. a >= 192 /\ (a % 64) * 256 + b = c
    BY DEF Reach
<1> QED BY <1>2, <1>3 DEF Ended, IsPointer, LabelPlace, Pointer

\* Where packed strings are written each is.
LEMMA StringsHeld ==
    ASSUME NEW P \in Seq(Octet), NEW off \in Nat,
           NEW list \in Seq(Seq(Octet)), \A j \in 1..Len(list) : Len(list[j]) < 256,
           NEW m \in 0..Len(list), Holds(P, off, Strings(list)[m])
    PROVE  \A j \in 1..m : Holds(P, off + Len(Strings(list)[j - 1]), <<Len(list[j])>> \o list[j])
<1> DEFINE s == Strings(list)  n == Len(list)
           S == {i \in 0..m : Holds(P, off, s[m - i])}
           one(j) == <<Len(list[j])>> \o list[j]
<1>1. /\ s \in [0..n -> Seq(Octet)]
      /\ \A j \in 1..n : s[j] = s[j - 1] \o <<Len(list[j])>> \o list[j]
    BY StringsAre
<1>2. n \in Nat /\ m \in 0..n /\ \A j \in 1..n : list[j] \in Seq(Octet) /\ Len(list[j]) \in Octet
  <2>1. n \in Nat /\ \A j \in 1..n : list[j] \in Seq(Octet) /\ Len(list[j]) \in Nat
      OBVIOUS
  <2>2. \A k \in Nat : k < 256 => k \in Octet
      BY DEF Octet
  <2> QED BY <2>1, <2>2
<1> HIDE DEF s, n
<1>3. ASSUME NEW j \in 1..m
      PROVE  one(j) \in Seq(Octet) /\ s[j] = s[j - 1] \o one(j) /\ s[j - 1] \in Seq(Octet)
  <2>1. j \in 1..n /\ j - 1 \in 0..n
      BY <1>2
  <2> DEFINE l == list[j]  h == <<Len(list[j])>>
  <2>2. s[j - 1] \in Seq(Octet) /\ s[j] = s[j - 1] \o h \o l
      BY <1>1, <2>1
  <2>3. l \in Seq(Octet) /\ h \in Seq(Octet)
      BY <1>2, <2>1
  <2> HIDE DEF l, h
  <2>4. h \o l \in Seq(Octet) /\ s[j] = s[j - 1] \o (h \o l)
    <3>1. PICK x : x = s[j - 1]
        OBVIOUS
    <3>2. \A x1, x2, x3 \in Seq(Octet) :
              x2 \o x3 \in Seq(Octet) /\ (x1 \o x2) \o x3 = x1 \o (x2 \o x3)
        OBVIOUS
    <3> QED BY <2>2, <2>3, <3>1, <3>2
  <2> QED BY <2>2, <2>4 DEF l, h
<1> HIDE DEF one
<1>4. 0 \in S
    BY <1>2 DEF s
<1>5. ASSUME NEW j \in 1..m, Holds(P, off, s[j])
      PROVE  Holds(P, off, s[j - 1]) /\ Holds(P, off + Len(s[j - 1]), one(j))
  <2>1. Holds(P, off, s[j - 1] \o one(j)) /\ one(j) \in Seq(Octet) /\ s[j - 1] \in Seq(Octet)
      BY <1>3, <1>5
  <2> QED BY <2>1, HoldsCat
<1>6. ASSUME NEW i \in 1..m, i - 1 \in S PROVE i \in S
  <2>1. m - (i - 1) \in 1..m /\ (m - (i - 1)) - 1 = m - i /\ i \in 0..m
      BY <1>2
  <2>2. Holds(P, off, s[m - i])
      BY <2>1, <1>5, <1>6
  <2> QED BY <2>1, <2>2
<1>7. 0..m \subseteq S
  <2> HIDE DEF S
  <2>1. m \in Nat
      BY <1>2
  <2> QED BY <2>1, <1>4, <1>6, UpTo
<1>8. ASSUME NEW j \in 1..m PROVE Holds(P, off + Len(s[j - 1]), one(j))
  <2>1. m - j \in 0..m /\ m - (m - j) = j
      BY <1>2
  <2>2. Holds(P, off, s[j])
      BY <2>1, <1>7
  <2> QED BY <2>2, <1>5
<1> QED BY <1>8 DEF s, one

\* The lists of known names: each at its place.
Comps == UNION {[D -> Nat] : D \in SUBSET Seq(Seq(Octet))}

\* What is one of them.
LEMMA CompsAre ==
    ASSUME NEW comp
    PROVE  comp \in Comps <=> DOMAIN comp \subseteq Seq(Seq(Octet)) /\ comp \in [DOMAIN comp -> Nat]
<1> DEFINE N == Seq(Seq(Octet))
<1> HIDE DEF N
<1>1. comp \in UNION {[D -> Nat] : D \in SUBSET N} <=>
          DOMAIN comp \subseteq N /\ comp \in [DOMAIN comp -> Nat]
    OBVIOUS
<1> QED BY <1>1 DEF Comps, N

\* A name's last bytes: a root, or a pointer to the rest of it.
NameEnd(name, comp, k) ==
    IF k = Len(name) THEN <<0>> ELSE u16(PointerBits + (comp[Suffix(name, k)] % Reach))
CompAfter(off, name, comp, k) ==
    [c \in DOMAIN comp \cup {Suffix(name, i) : i \in 0..k - 1} |->
        IF c \in {Suffix(name, i) : i \in 0..k - 1} THEN Cached(off, name, c) ELSE comp[c]]

\* How many labels mdns_encode_name copies, and what it writes.
LEMMA NameEncoded ==
    ASSUME NEW off, NEW name \in Seq(Seq(Octet)), NEW comp
    PROVE  \E k \in 0..Len(name) :
              /\ k < Len(name) => Suffix(name, k) \in DOMAIN comp
              /\ mdns_encode_name(off, name, comp) =
                     [bytes |-> Strings(name)[k] \o NameEnd(name, comp, k),
                      comp |-> CompAfter(off, name, comp, k)]
<1> DEFINE n == Len(name)
           Halts(k) == k < n => Suffix(name, k) \in DOMAIN comp
           First(k) == Halts(k) /\ \A i \in 0..k - 1 : Suffix(name, i) \notin DOMAIN comp
           T == {k \in 0..n : Halts(k)}
<1>1. n \in Nat
    OBVIOUS
<1>2. T \subseteq Nat /\ T # {}
  <2>1. n \in T
      BY <1>1
  <2> QED BY <2>1, <1>1
<1>3. PICK x \in T : \A y \in T : x <= y
  <2> HIDE DEF T
  <2> QED BY <1>2, Least
<1>4. First(x)
  <2>1. ASSUME NEW i \in 0..x - 1, Suffix(name, i) \in DOMAIN comp PROVE FALSE
    <3>1. i \in 0..n /\ x \in 0..n
        BY <1>1
    <3>2. i \in T /\ i < x
        BY <2>1, <3>1
    <3> QED BY <3>1, <3>2, <1>3
  <2> QED BY <2>1
<1> DEFINE k == CHOOSE k \in 0..n : First(k)
<1>5. k \in 0..n /\ First(k)
  <2>1. x \in 0..n
      OBVIOUS
  <2> HIDE DEF First, T
  <2> QED BY <1>4, <2>1
<1>6. mdns_encode_name(off, name, comp) =
          [bytes |-> Strings(name)[k] \o NameEnd(name, comp, k),
           comp |-> CompAfter(off, name, comp, k)]
    BY DEF mdns_encode_name, NameEnd, CompAfter
<1> HIDE DEF k
<1> QED BY <1>5, <1>6

\* A number is written in two bytes.
LEMMA NumberTyped ==
    ASSUME NEW v \in Nat
    PROVE  u16(v) \in Seq(Octet) /\ Len(u16(v)) = 2
<1>1. \A k \in Nat : k % 256 \in Octet
    BY DEF Octet
<1>2. v \div 256 \in Nat
    OBVIOUS
<1>3. (v \div 256) % 256 \in Octet /\ v % 256 \in Octet
    BY <1>1, <1>2
<1> QED BY <1>3 DEF u16

\* The bytes of a number that fits them.
LEMMA NumberBytes ==
    ASSUME NEW v, IsShort(v)
    PROVE  /\ u16(v) \in Seq(Octet) /\ Len(u16(v)) = 2
           /\ u16(v)[1] = v \div 256 /\ u16(v)[2] = v % 256
<1>1. v \in Nat
    BY DEF IsShort
<1>2. v \div 256 \in Nat /\ v \div 256 < 256
    BY DEF IsShort
<1>3. (v \div 256) % 256 = v \div 256
    BY <1>2
<1> QED BY <1>1, <1>3, NumberTyped DEF u16

\* The end of a name is one byte or two.
LEMMA NameEndIs ==
    ASSUME NEW name \in Seq(Seq(Octet)), NEW comp \in Comps, NEW k \in 0..Len(name),
           k < Len(name) => Suffix(name, k) \in DOMAIN comp
    PROVE  NameEnd(name, comp, k) \in Seq(Octet) /\ Len(NameEnd(name, comp, k)) \in 1..2
<1>1. CASE k = Len(name)
  <2>1. <<0>> \in Seq(Octet) /\ Len(<<0>>) = 1
      BY DEF Octet
  <2> QED BY <2>1, <1>1 DEF NameEnd
<1>2. CASE k # Len(name)
  <2>1. PICK c : c = comp[Suffix(name, k)]
      OBVIOUS
  <2>2. c \in Nat
    <3>1. Suffix(name, k) \in DOMAIN comp
        BY <1>2
    <3> QED BY <2>1, <3>1, CompsAre
  <2>3. IsShort(PointerBits + (c % Reach))
    <3>1. c % 16384 \in Nat /\ c % 16384 < 16384
        BY <2>2
    <3> QED BY <3>1 DEF PointerBits, Reach, IsShort
  <2>4. NameEnd(name, comp, k) = u16(PointerBits + (c % Reach))
      BY <1>2, <2>1 DEF NameEnd
  <2>5. PICK v : IsShort(v) /\ NameEnd(name, comp, k) = u16(v)
      BY <2>3, <2>4
  <2>6. u16(v) \in Seq(Octet) /\ Len(u16(v)) = 2
      BY <2>5, NumberBytes
  <2> QED BY <2>5, <2>6
<1> QED BY <1>1, <1>2

\* A name is written in at least one byte, and known names keep their shape.
LEMMA NameTyped ==
    ASSUME NEW off \in Nat, NEW name \in Seq(Seq(Octet)), NEW comp \in Comps,
           \A j \in 1..Len(name) : Len(name[j]) < 256
    PROVE  /\ mdns_encode_name(off, name, comp).bytes \in Seq(Octet)
           /\ Len(mdns_encode_name(off, name, comp).bytes) >= 1
           /\ mdns_encode_name(off, name, comp).comp \in Comps
<1> DEFINE e == mdns_encode_name(off, name, comp)  s == Strings(name)
<1>1. PICK k \in 0..Len(name) :
          /\ k < Len(name) => Suffix(name, k) \in DOMAIN comp
          /\ e = [bytes |-> s[k] \o NameEnd(name, comp, k),
                  comp |-> CompAfter(off, name, comp, k)]
    BY NameEncoded
<1> HIDE DEF e, s
<1>2. s \in [0..Len(name) -> Seq(Octet)]
    BY StringsAre DEF s
<1>3. NameEnd(name, comp, k) \in Seq(Octet) /\ Len(NameEnd(name, comp, k)) \in 1..2
    BY <1>1, NameEndIs
<1>4. e.bytes \in Seq(Octet) /\ Len(e.bytes) >= 1
  <2>1. PICK a, b : a = s[k] /\ b = NameEnd(name, comp, k)
      OBVIOUS
  <2>2. e.bytes = a \o b /\ a \in Seq(Octet) /\ b \in Seq(Octet) /\ Len(b) >= 1
    <3>1. e.bytes = a \o b
        BY <1>1, <2>1
    <3>2. a \in Seq(Octet)
        BY <1>2, <2>1
    <3>3. b \in Seq(Octet) /\ Len(b) >= 1
      <4>1. b \in Seq(Octet) /\ Len(b) \in 1..2
          BY <1>3, <2>1
      <4>2. \A x \in 1..2 : x >= 1
          OBVIOUS
      <4> QED BY <4>1, <4>2
    <3> QED BY <3>1, <3>2, <3>3
  <2>3. a \o b \in Seq(Octet) /\ Len(a \o b) = Len(a) + Len(b) /\ Len(a) \in Nat /\ Len(b) \in Nat
      BY <2>2, Cat
  <2> QED BY <2>2, <2>3
<1>5. e.comp \in Comps
  <2> DEFINE new == {Suffix(name, i) : i \in 0..k - 1}
  <2>1. /\ e.comp = [c \in DOMAIN comp \cup new |->
                      IF c \in new THEN Cached(off, name, c) ELSE comp[c]]
      BY <1>1 DEF CompAfter
  <2>2. DOMAIN comp \subseteq Seq(Seq(Octet)) /\ comp \in [DOMAIN comp -> Nat]
      BY CompsAre
  <2>3. ASSUME NEW c \in new PROVE c \in Seq(Seq(Octet)) /\ Cached(off, name, c) \in Nat
    <3>1. PICK i \in 0..k - 1 : c = Suffix(name, i)
        OBVIOUS
    <3>2. i \in 0..Len(name) /\ Len(name) \in Nat /\ k \in 0..Len(name)
        OBVIOUS
    <3>3. c \in Seq(Seq(Octet)) /\ Len(c) = Len(name) - i
        BY <3>1, <3>2, SuffixIs
    <3>4. Len(name) - Len(c) = i
        BY <3>2, <3>3
    <3>5. s[i] \in Seq(Octet)
        BY <3>2, <1>2
    <3>6. Cached(off, name, c) = off + Len(s[i])
        BY <3>4 DEF Cached, s
    <3>7. Len(s[i]) \in Nat
        BY <3>5
    <3> QED BY <3>3, <3>6, <3>7
  <2> HIDE DEF new
  <2>4. DOMAIN e.comp = DOMAIN comp \cup new
      BY <2>1
  <2>5. DOMAIN e.comp \subseteq Seq(Seq(Octet)) /\ e.comp \in [DOMAIN e.comp -> Nat]
      BY <2>1, <2>2, <2>3, <2>4
  <2> QED BY <2>5, CompsAre
<1> QED BY <1>4, <1>5 DEF e

\* The names that are known are spelled where they are said to be, each
\* beginning with a label that is written there.
CompIs(P, comp, off) ==
    /\ comp \in Comps
    /\ \A c \in DOMAIN comp : /\ Len(c) \in 1..off
                              /\ Spelled(P, comp[c], c)
                              /\ ~IsPointer(P[comp[c] + 1])

\* Packed strings are no fewer than their bytes.
LEMMA StringsLong ==
    ASSUME NEW list \in Seq(Seq(Octet)), \A j \in 1..Len(list) : Len(list[j]) < 256
    PROVE  \A j \in 0..Len(list) : Len(Strings(list)[j]) \in Nat /\ Len(Strings(list)[j]) >= j
<1> DEFINE s == Strings(list)  n == Len(list)
           S == {j \in 0..n : Len(s[j]) \in Nat /\ Len(s[j]) >= j}
<1>1. /\ s \in [0..n -> Seq(Octet)] /\ s[0] = <<>>
      /\ \A j \in 1..n : Len(s[j]) = Len(s[j - 1]) + 1 + Len(list[j])
    BY StringsAre
<1>2. n \in Nat /\ \A j \in 1..n : Len(list[j]) \in Nat
    OBVIOUS
<1> HIDE DEF s, n
<1>3. 0 \in S
  <2>1. Len(s[0]) = 0
      BY <1>1
  <2> QED BY <2>1, <1>2
<1>4. ASSUME NEW j \in 1..n, j - 1 \in S PROVE j \in S
  <2>1. PICK a, b, c : a = Len(s[j - 1]) /\ b = Len(list[j]) /\ c = Len(s[j])
      OBVIOUS
  <2>2. c = a + 1 + b /\ a \in Nat /\ b \in Nat /\ a >= j - 1 /\ j \in 0..n
    <3>1. a \in Nat /\ a >= j - 1
        BY <1>4, <2>1
    <3>2. b \in Nat /\ c = a + 1 + b
        BY <1>1, <1>2, <2>1
    <3>3. j \in 0..n
        BY <1>2
    <3> QED BY <3>1, <3>2, <3>3
  <2>3. c \in Nat /\ c >= j /\ j \in 0..n
      BY <2>2
  <2> QED BY <2>1, <2>3
<1>5. 0..n \subseteq S
  <2> HIDE DEF S
  <2> QED BY <1>2, <1>3, <1>4, UpTo
<1> QED BY <1>5 DEF s, n

\* A name's packed labels.
LEMMA NameStrings ==
    ASSUME NEW name, IsName(name)
    PROVE  /\ \A j \in 1..Len(name) : Len(name[j]) < 256
           /\ Strings(name) \in [0..Len(name) -> Seq(Octet)] /\ Strings(name)[0] = <<>>
           /\ \A j \in 0..Len(name) : /\ Len(Strings(name)[j]) \in Nat
                                      /\ Len(Strings(name)[j]) >= j
           /\ \A j \in 1..Len(name) :
                  Len(Strings(name)[j]) = Len(Strings(name)[j - 1]) + 1 + Len(name[j])
<1>1. name \in Seq(Seq(Octet)) /\ \A j \in 1..Len(name) : Len(name[j]) \in 1..63
    BY NameOctets
<1>2. \A x \in 1..63 : x < 256
    OBVIOUS
<1>3. \A j \in 1..Len(name) : Len(name[j]) < 256
    BY <1>1, <1>2
<1>4. PICK list \in Seq(Seq(Octet)) : list = name
    BY <1>1
<1>5. \A j \in 1..Len(list) : Len(list[j]) < 256
    BY <1>3, <1>4
<1> QED BY <1>4, <1>5, StringsAre, StringsLong

\* A name that was written is spelled where it begins: its copied labels lead
\* to a root or, by a pointer, along the path of a name known before.
LEMMA NamePath ==
    ASSUME NEW P \in Seq(Octet), Len(P) <= Reach, NEW off \in Nat, NEW name, IsName(name),
           NEW comp, CompIs(P, comp, off), NEW k \in 0..Len(name),
           k < Len(name) => Suffix(name, k) \in DOMAIN comp,
           Holds(P, off, Strings(name)[k] \o NameEnd(name, comp, k))
    PROVE  \E path : /\ SpelledBy(P, path, name)
                     /\ \A j \in 0..k : path[j] = off + Len(Strings(name)[j])
                     /\ \A j \in 0..k - 1 : ~IsPointer(P[path[j] + 1])
                     /\ k < Len(name) => IsPointer(P[path[k] + 1])
<1> DEFINE n == Len(name)  s == Strings(name)  end == NameEnd(name, comp, k)
           c == Suffix(name, k)
<1>1. /\ name \in Seq(Seq(Octet)) /\ n \in Nat \ {0} /\ k \in 0..n
      /\ \A j \in 1..n : name[j] \in Seq(Octet) /\ Len(name[j]) \in 1..63
    BY NameOctets
<1>2. /\ \A j \in 1..n : Len(name[j]) < 256
      /\ s \in [0..n -> Seq(Octet)] /\ s[0] = <<>>
      /\ \A j \in 0..n : Len(s[j]) \in Nat /\ Len(s[j]) >= j
      /\ \A j \in 1..n : Len(s[j]) = Len(s[j - 1]) + 1 + Len(name[j])
    BY NameStrings, Zenon
<1>3. s \in [0..n -> Seq(Octet)] /\ \A j \in 0..n : Len(s[j]) \in Nat
    BY <1>2
<1>4. \A j \in 1..n : Len(s[j]) = Len(s[j - 1]) + 1 + Len(name[j])
    BY <1>2
<1>6. end \in Seq(Octet)
    BY <1>1, NameEndIs DEF CompIs
<1>7. Holds(P, off, s[k]) /\ Holds(P, off + Len(s[k]), end)
  <2> HIDE DEF s, end
  <2>1. Holds(P, off, s[k] \o end) /\ s[k] \in Seq(Octet)
      BY <1>1, <1>3 DEF s, end
  <2> QED BY <2>1, <1>6, HoldsCat
<1>8. \A j \in 1..k : Holds(P, off + Len(s[j - 1]), <<Len(name[j])>> \o name[j])
    BY <1>1, <1>2, <1>7, StringsHeld
<1> HIDE DEF n, s, end, c
<1>9. ASSUME NEW j \in 1..k
      PROVE  LET o == off + Len(s[j - 1])
             IN /\ o \in Nat /\ ~Ended(P, o) /\ ~IsPointer(P[o + 1]) /\ LabelPlace(P, o) = o
                /\ LabelAt(P, o) = name[j] /\ Behind(P, o) = off + Len(s[j])
  <2>1. PICK o, l : o = off + Len(s[j - 1]) /\ l = name[j]
      OBVIOUS
  <2>2. j \in 1..n /\ j - 1 \in 0..n
      BY <1>1
  <2>3. o \in Nat /\ l \in Seq(Octet) /\ Len(l) \in 1..63 /\ Holds(P, o, <<Len(l)>> \o l)
      BY <2>1, <2>2, <1>1, <1>3, <1>8
  <2>4. /\ ~Ended(P, o) /\ ~IsPointer(P[o + 1]) /\ LabelPlace(P, o) = o
        /\ LabelAt(P, o) = l /\ Behind(P, o) = o + 1 + Len(l)
      BY <2>3, LabelHere
  <2>5. off + Len(s[j]) = o + 1 + Len(l)
    <3>1. PICK x, y : x = Len(s[j - 1]) /\ y = Len(s[j])
        OBVIOUS
    <3>2. y = x + 1 + Len(l)
        BY <3>1, <2>1, <2>2, <1>4
    <3>3. x \in Nat
        BY <3>1, <2>2, <1>3
    <3>4. Len(l) \in Nat
        BY <2>3
    <3>5. o = off + x
        BY <2>1, <3>1
    <3>6. off + y = o + 1 + Len(l)
        BY <3>2, <3>3, <3>4, <3>5
    <3> QED BY <3>1, <3>6
  <2> QED BY <2>1, <2>3, <2>4, <2>5
<1>10. CASE k = n
  <2> DEFINE path == [j \in 0..n |-> off + Len(s[j])]
  <2>1. path \in [0..n -> Nat]
      BY <1>3
  <2>2. ASSUME NEW j \in 1..n
        PROVE  /\ ~Ended(P, path[j - 1]) /\ path[j] = Behind(P, path[j - 1])
               /\ LabelAt(P, LabelPlace(P, path[j - 1])) = name[j]
    <3>1. j \in 0..n /\ j - 1 \in 0..n /\ j \in 1..k
        BY <1>1, <1>10
    <3>2. path[j] = off + Len(s[j]) /\ path[j - 1] = off + Len(s[j - 1])
        BY <3>1
    <3> HIDE DEF path
    <3> QED BY <3>1, <3>2, <1>9
  <2>3. Ended(P, path[n]) /\ path[n] < Len(P)
    <3>1. PICK o : o = off + Len(s[n])
        OBVIOUS
    <3>2. Holds(P, o, <<0>>)
        BY <3>1, <1>7, <1>10 DEF NameEnd, end, n
    <3>3. n \in 0..n
        BY <1>1
    <3>4. o \in Nat /\ path[n] = o
        BY <3>1, <3>3, <1>3
    <3>5. o + 1 <= Len(P) /\ P[o + 1] = 0 /\ Len(P) \in Nat
        BY <3>2 DEF Holds
    <3> QED BY <3>4, <3>5 DEF Ended
  <2>4. \A j \in 0..k : path[j] = off + Len(s[j])
      BY <1>10
  <2> HIDE DEF path
  <2>5. SpelledBy(P, path, name)
      BY <2>1, <2>2, <2>3 DEF SpelledBy, n
  <2>6. ASSUME NEW j \in 0..k - 1 PROVE ~IsPointer(P[path[j] + 1])
    <3>1. j + 1 \in 1..k /\ j + 1 - 1 = j /\ j \in 0..k
        BY <1>1
    <3>2. ~IsPointer(P[(off + Len(s[(j + 1) - 1])) + 1])
        BY <3>1, <1>9
    <3> QED BY <3>1, <3>2, <2>4
  <2>7. ~(k < Len(name))
      BY <1>1, <1>10 DEF n
  <2> QED BY <2>4, <2>5, <2>6, <2>7 DEF s
<1>11. CASE k < n
  <2>1. c \in DOMAIN comp
      BY <1>11 DEF c, n
  <2>2. PICK q : q[0] = comp[c] /\ SpelledBy(P, q, c)
      BY <2>1 DEF CompIs, Spelled
  <2>3. Len(c) = n - k /\ n - k \in Nat \ {0} /\ \A j \in 1..n - k : c[j] = name[k + j]
      BY <1>1, <1>11, SuffixIs DEF c, n
  <2>4. /\ q \in [0..n - k -> Nat]
        /\ \A j \in 1..n - k : /\ ~Ended(P, q[j - 1]) /\ q[j] = Behind(P, q[j - 1])
                               /\ LabelAt(P, LabelPlace(P, q[j - 1])) = c[j]
        /\ Ended(P, q[n - k]) /\ q[n - k] < Len(P)
      BY <2>2, <2>3 DEF SpelledBy
  <2>5. q[0] \in Nat /\ q[0] < Reach /\ ~IsPointer(P[q[0] + 1]) /\ LabelPlace(P, q[0]) = q[0]
    <3>1. 1 \in 1..n - k /\ 0 \in 0..n - k /\ 1 - 1 = 0
        BY <2>3
    <3>2. q[0] \in Nat /\ ~Ended(P, q[0])
        BY <3>1, <2>4
    <3>3. ~IsPointer(P[q[0] + 1])
        BY <2>1, <2>2 DEF CompIs
    <3>4. q[0] < Reach
      <4>1. Len(P) \in Nat /\ Reach \in Nat /\ ~(q[0] >= Len(P))
          BY <3>2 DEF Ended, Reach
      <4> QED BY <4>1, <3>2
    <3> QED BY <3>2, <3>3, <3>4 DEF LabelPlace
  <2> DEFINE o == off + Len(s[k])
             path == [j \in 0..n |-> IF j <= k THEN off + Len(s[j]) ELSE q[j - k]]
  <2>6. o \in Nat /\ Holds(P, o, u16(PointerBits + (q[0] % Reach)))
    <3>1. end = u16(PointerBits + (q[0] % Reach))
        BY <1>1, <1>11, <2>2 DEF end, NameEnd, n, c
    <3> QED BY <3>1, <1>1, <1>3, <1>7
  <2> HIDE DEF o
  <2>7. ~Ended(P, o) /\ IsPointer(P[o + 1]) /\ LabelPlace(P, o) = q[0]
      BY <2>5, <2>6, PointerHere
  <2>8. Behind(P, o) = Behind(P, q[0])
      BY <2>5, <2>7 DEF Behind
  <2>9. path \in [0..n -> Nat]
    <3>1. \A j \in 0..n : j > k => j - k \in 0..n - k
        BY <1>1
    <3>2. \A j \in 0..n : off + Len(s[j]) \in Nat
        BY <1>3
    <3> QED BY <3>1, <3>2, <2>4, <1>1
  <2>10. \A j \in 0..k : path[j] = off + Len(s[j])
      BY <1>1
  <2>11. \A j \in k + 1..n : path[j] = q[j - k]
      BY <1>1
  <2> HIDE DEF path
  <2>12. ASSUME NEW j \in 1..n
         PROVE  /\ ~Ended(P, path[j - 1]) /\ path[j] = Behind(P, path[j - 1])
                /\ LabelAt(P, LabelPlace(P, path[j - 1])) = name[j]
    <3>1. CASE j <= k
      <4>1. j \in 0..k /\ j - 1 \in 0..k /\ j \in 1..k
          BY <1>1, <3>1
      <4> QED BY <4>1, <2>10, <1>9
    <3>2. CASE j = k + 1
      <4>1. j - 1 = k /\ k \in 0..k /\ j \in k + 1..n /\ j - k = 1 /\ 1 \in 1..n - k /\ 1 - 1 = 0
        <5>1. k \in Nat /\ n \in Nat /\ k < n
            BY <1>1, <1>11
        <5> QED BY <5>1, <3>2
      <4>2. path[j - 1] = o /\ path[j] = q[1]
          BY <4>1, <2>10, <2>11 DEF o
      <4>3. q[1] = Behind(P, q[0]) /\ LabelAt(P, LabelPlace(P, q[0])) = c[1]
          BY <4>1, <2>4
      <4>4. c[1] = name[j]
          BY <4>1, <2>3, <3>2
      <4> QED BY <4>2, <4>3, <4>4, <2>5, <2>7, <2>8
    <3>3. CASE j > k + 1
      <4>1. /\ j \in k + 1..n /\ j - 1 \in k + 1..n /\ (j - 1) - k = (j - k) - 1
            /\ j - k \in 1..n - k /\ k + (j - k) = j
          BY <1>1, <3>3
      <4>2. path[j] = q[j - k] /\ path[j - 1] = q[(j - k) - 1] /\ c[j - k] = name[j]
          BY <4>1, <2>3, <2>11
      <4> QED BY <4>1, <4>2, <2>4
    <3> QED BY <3>1, <3>2, <3>3, <1>1
  <2>13. Ended(P, path[n]) /\ path[n] < Len(P)
    <3>1. n \in k + 1..n
        BY <1>1, <1>11
    <3> QED BY <3>1, <2>4, <2>11
  <2>14. SpelledBy(P, path, name)
      BY <2>9, <2>12, <2>13 DEF SpelledBy, n
  <2>15. ASSUME NEW j \in 0..k - 1 PROVE ~IsPointer(P[path[j] + 1])
    <3>1. j + 1 \in 1..k /\ j + 1 - 1 = j /\ j \in 0..k
        BY <1>1
    <3>2. ~IsPointer(P[(off + Len(s[(j + 1) - 1])) + 1])
        BY <3>1, <1>9
    <3> QED BY <3>1, <3>2, <2>10
  <2>16. IsPointer(P[path[k] + 1])
    <3>1. k \in 0..k
        BY <1>1
    <3> QED BY <3>1, <2>7, <2>10 DEF o
  <2> QED BY <2>10, <2>14, <2>15, <2>16 DEF s
<1> QED BY <1>1, <1>10, <1>11

\* A name that mdns_encode_name wrote is the one that uncompress_nlabel reads,
\* over as many bytes, and what is known of names stays true.
LEMMA NameWritten ==
    ASSUME NEW P \in Seq(Octet), Len(P) <= Reach, NEW off \in Nat, NEW name, IsName(name),
           NEW comp, CompIs(P, comp, off),
           Holds(P, off, mdns_encode_name(off, name, comp).bytes)
    PROVE  /\ uncompress_nlabel(P, off) = name
           /\ label_len(P, off) = Len(mdns_encode_name(off, name, comp).bytes)
           /\ CompIs(P, mdns_encode_name(off, name, comp).comp,
                     off + Len(mdns_encode_name(off, name, comp).bytes))
<1> DEFINE n == Len(name)  s == Strings(name)  e == mdns_encode_name(off, name, comp)
<1>1. name \in Seq(Seq(Octet)) /\ n \in Nat \ {0}
    BY NameOctets
<1>2. /\ \A j \in 1..n : Len(name[j]) < 256
      /\ s \in [0..n -> Seq(Octet)] /\ s[0] = <<>>
      /\ \A j \in 0..n : Len(s[j]) \in Nat /\ Len(s[j]) >= j
    BY NameStrings
<1>3. comp \in Comps
    BY DEF CompIs
<1>4. PICK k \in 0..n :
          /\ k < n => Suffix(name, k) \in DOMAIN comp
          /\ e = [bytes |-> s[k] \o NameEnd(name, comp, k),
                  comp |-> CompAfter(off, name, comp, k)]
  <2> HIDE DEF e, s
  <2> QED BY <1>1, NameEncoded DEF e, s
<1> DEFINE end == NameEnd(name, comp, k)
<1>5. end \in Seq(Octet) /\ Len(end) \in 1..2
    BY <1>1, <1>3, <1>4, NameEndIs
<1>6. Len(end) = IF k = n THEN 1 ELSE 2
  <2>1. CASE k = n
      BY <2>1 DEF NameEnd
  <2>2. CASE k # n
      BY <2>2 DEF NameEnd, u16
  <2> QED BY <2>1, <2>2
<1>7. e.comp \in Comps
  <2> HIDE DEF e
  <2> QED BY <1>1, <1>2, <1>3, NameTyped DEF e
<1>8. Holds(P, off, s[k] \o end)
    BY <1>4
<1>9. PICK path : /\ SpelledBy(P, path, name)
                  /\ \A j \in 0..k : path[j] = off + Len(s[j])
                  /\ \A j \in 0..k - 1 : ~IsPointer(P[path[j] + 1])
                  /\ k < n => IsPointer(P[path[k] + 1])
    BY <1>4, <1>8, NamePath
<1>10. Len(e.bytes) = Len(s[k]) + Len(end) /\ Len(s[k]) \in Nat /\ Len(end) \in Nat
  <2> HIDE DEF e, s, end
  <2>1. s[k] \in Seq(Octet) /\ e.bytes = s[k] \o end
      BY <1>2, <1>4 DEF end
  <2>2. Len(s[k] \o end) = Len(s[k]) + Len(end) /\ Len(s[k]) \in Nat /\ Len(end) \in Nat
      BY <1>5, <2>1, Cat
  <2> QED BY <2>1, <2>2
<1> HIDE DEF n, s, e, end
<1>11. path[0] = off
  <2>1. 0 \in 0..k /\ Len(s[0]) = 0
      BY <1>2
  <2> QED BY <2>1, <1>9
<1>12. n <= off + Len(e.bytes)
  <2>1. PICK a, b : a = Len(s[k]) /\ b = Len(end)
      OBVIOUS
  <2>2. a \in Nat /\ a >= k /\ b \in 1..2 /\ Len(e.bytes) = a + b /\ n \in Nat /\ k \in 0..n
      BY <1>1, <1>2, <1>5, <1>10, <2>1
  <2>3. CASE k = n
      BY <2>2, <2>3
  <2>4. CASE k < n
    <3>1. Suffix(name, k) \in DOMAIN comp
        BY <1>4, <2>4
    <3>2. Len(Suffix(name, k)) \in 1..off /\ Len(Suffix(name, k)) = n - k
      <4>1. k \in 0..Len(name)
          BY <1>4 DEF n
      <4>2. Len(Suffix(name, k)) = n - k
          BY <4>1, <1>1, SuffixIs DEF n
      <4> QED BY <4>2, <3>1 DEF CompIs
    <3>3. n - k <= off
        BY <3>2
    <3> QED BY <3>3, <2>2
  <2> QED BY <2>2, <2>3, <2>4
<1>13. off + Len(e.bytes) <= Len(P)
    BY DEF Holds, e
<1>14. uncompress_nlabel(P, off) = name /\ label_len(P, off) = Len(e.bytes)
  <2>1. Len(name) <= Len(P)
    <3>1. PICK a : a = Len(e.bytes)
        OBVIOUS
    <3>2. n <= off + a /\ off + a <= Len(P) /\ a \in Nat /\ n \in Nat /\ Len(P) \in Nat
        BY <1>1, <1>10, <1>12, <1>13, <3>1
    <3> QED BY <3>2 DEF n
  <2>2. k \in 0..Len(name) /\ name \in Seq(Seq(Octet)) /\ (k < Len(name) => IsPointer(P[path[k] + 1]))
      BY <1>1, <1>4, <1>9 DEF n
  <2>3. /\ uncompress_nlabel(P, path[0]) = name
        /\ label_len(P, path[0]) = path[k] - path[0] + (IF k = Len(name) THEN 1 ELSE 2)
      BY <1>9, <2>1, <2>2, NameRead
  <2>4. path[k] = off + Len(s[k])
      BY <1>4, <1>9
  <2>5. path[k] - path[0] + (IF k = Len(name) THEN 1 ELSE 2) = Len(e.bytes)
    <3>1. PICK a, b : a = Len(s[k]) /\ b = Len(end)
        OBVIOUS
    <3>2. path[k] = off + a /\ b = (IF k = Len(name) THEN 1 ELSE 2) /\ Len(e.bytes) = a + b
          /\ a \in Nat /\ b \in Nat
        BY <3>1, <2>4, <1>6, <1>10 DEF n
    <3> QED BY <3>2, <1>11
  <2> QED BY <2>3, <2>5, <1>11
<1>15. ASSUME NEW c \in DOMAIN e.comp
       PROVE  /\ Len(c) \in 1..off + Len(e.bytes)
              /\ Spelled(P, e.comp[c], c) /\ ~IsPointer(P[e.comp[c] + 1])
  <2> DEFINE new == {Suffix(name, i) : i \in 0..k - 1}
  <2>1. e.comp = [d \in DOMAIN comp \cup new |->
                    IF d \in new THEN Cached(off, name, d) ELSE comp[d]]
      BY <1>4 DEF CompAfter
  <2>2. CASE c \in new
    <3>1. PICK i \in 0..k - 1 : c = Suffix(name, i)
        BY <2>2
    <3>2. i \in 0..Len(name) /\ i \in 0..k /\ i < n /\ i \in Nat
        BY <1>1, <1>4 DEF n
    <3>3. Len(c) = n - i
        BY <1>1, <3>1, <3>2, SuffixIs DEF n
    <3>4. n - Len(c) = i
        BY <1>1, <3>2, <3>3
    <3>5. e.comp[c] = path[i]
      <4>1. e.comp[c] = Cached(off, name, c)
          BY <2>1, <2>2
      <4>2. Cached(off, name, c) = off + Len(s[i])
          BY <3>4 DEF Cached, s, n
      <4> QED BY <4>1, <4>2, <3>2, <1>9
    <3>6. Spelled(P, path[i], c)
        BY <1>1, <1>9, <3>1, <3>2, SuffixSpelled
    <3>7. ~IsPointer(P[path[i] + 1])
        BY <3>1, <1>9
    <3>8. Len(c) \in 1..off + Len(e.bytes)
      <4>1. PICK a : a = off + Len(e.bytes)
          OBVIOUS
      <4>2. n <= a /\ n \in Nat /\ a \in Nat
          BY <4>1, <1>1, <1>10, <1>12
      <4> QED BY <4>1, <4>2, <3>2, <3>3
    <3> QED BY <3>5, <3>6, <3>7, <3>8
  <2>3. CASE c \notin new
    <3>1. c \in DOMAIN comp /\ e.comp[c] = comp[c]
        BY <2>1, <2>3
    <3>2. Len(c) \in 1..off /\ Spelled(P, comp[c], c) /\ ~IsPointer(P[comp[c] + 1])
        BY <3>1 DEF CompIs
    <3>3. Len(c) \in 1..off + Len(e.bytes)
      <4>1. PICK a : a = Len(e.bytes)
          OBVIOUS
      <4>2. a \in Nat
          BY <4>1, <1>10
      <4> QED BY <4>1, <4>2, <3>2
    <3> QED BY <3>1, <3>2, <3>3
  <2> QED BY <2>2, <2>3
<1>16. CompIs(P, e.comp, off + Len(e.bytes))
    BY <1>7, <1>15 DEF CompIs
<1> QED BY <1>14, <1>16 DEF e

\* Bytes read where they were written.
LEMMA BytesHere ==
    ASSUME NEW P \in Seq(Octet), NEW o \in Nat, NEW bytes \in Seq(Octet), Holds(P, o, bytes)
    PROVE  SubSeq(P, o + 1, o + Len(bytes)) = bytes
<1>1. PICK n \in Nat : n = Len(bytes)
    OBVIOUS
<1>2. o + n <= Len(P) /\ \A i \in 1..n : P[o + i] = bytes[i]
    BY <1>1 DEF Holds
<1>3. PICK t : t = SubSeq(P, o + 1, o + n)
    OBVIOUS
<1>4. Len(t) = n /\ t \in Seq(Octet) /\ \A i \in 1..n : t[i] = P[o + i]
    BY <1>2, <1>3
<1>5. \A x \in Seq(Octet) : x = [i \in 1..Len(x) |-> x[i]]
    OBVIOUS
<1>6. t = [i \in 1..n |-> t[i]] /\ bytes = [i \in 1..n |-> bytes[i]]
    BY <1>1, <1>4, <1>5
<1> QED BY <1>1, <1>2, <1>3, <1>4, <1>6

\* A number read where it was written.
LEMMA NumberHere ==
    ASSUME NEW P \in Seq(Octet), NEW o \in Nat, NEW v, IsShort(v), Holds(P, o, u16(v))
    PROVE  read_u16(P, o) = v
<1>1. Len(u16(v)) = 2 /\ u16(v)[1] = v \div 256 /\ u16(v)[2] = v % 256
    BY NumberBytes
<1>2. P[o + 1] = v \div 256 /\ P[o + 2] = v % 256
  <2>1. 1 \in 1..2 /\ 2 \in 1..2
      OBVIOUS
  <2> QED BY <1>1, <2>1 DEF Holds
<1>3. (v \div 256) * 256 + (v % 256) = v
    BY DEF IsShort
<1> QED BY <1>2, <1>3 DEF read_u16

\* So is one of four bytes.
LEMMA LongHere ==
    ASSUME NEW P \in Seq(Octet), NEW o \in Nat, NEW v, IsLong(v)
    PROVE  /\ u32(v) \in Seq(Octet) /\ Len(u32(v)) = 4
           /\ Holds(P, o, u32(v)) => read_u32(P, o) = v
<1> DEFINE a == v \div 65536  b == v % 65536
<1>1. IsShort(a) /\ IsShort(b) /\ a * 65536 + b = v
    BY DEF IsLong, IsShort
<1> HIDE DEF a, b
<1>2. /\ u16(a) \in Seq(Octet) /\ Len(u16(a)) = 2
      /\ u16(b) \in Seq(Octet) /\ Len(u16(b)) = 2
    BY <1>1, NumberBytes
<1>3. u32(v) = u16(a) \o u16(b)
    BY DEF u32, a, b
<1>4. u32(v) \in Seq(Octet) /\ Len(u32(v)) = 4
  <2>1. PICK x, y : x = u16(a) /\ y = u16(b)
      OBVIOUS
  <2>2. x \in Seq(Octet) /\ y \in Seq(Octet) /\ Len(x) = 2 /\ Len(y) = 2
      BY <1>2, <2>1
  <2>3. x \o y \in Seq(Octet) /\ Len(x \o y) = Len(x) + Len(y)
      BY <2>2, Cat
  <2> QED BY <1>3, <2>1, <2>2, <2>3
<1>5. ASSUME Holds(P, o, u32(v)) PROVE read_u32(P, o) = v
  <2>1. Holds(P, o, u16(a)) /\ Holds(P, o + 2, u16(b))
    <3>1. PICK x, y : x = u16(a) /\ y = u16(b)
        OBVIOUS
    <3>2. x \in Seq(Octet) /\ y \in Seq(Octet) /\ Len(x) = 2 /\ Holds(P, o, x \o y)
        BY <1>2, <1>3, <1>5, <3>1
    <3>3. Holds(P, o, x) /\ Holds(P, o + Len(x), y)
        BY <3>2, HoldsCat
    <3> QED BY <3>1, <3>2, <3>3
  <2>2. read_u16(P, o) = a /\ read_u16(P, o + 2) = b
      BY <1>1, <2>1, NumberHere
  <2> QED BY <2>2, <1>1 DEF read_u32
<1> QED BY <1>4, <1>5

\* Texts lie packed at a place, len octets of them.
TextsThere(P, o, texts, len) ==
    /\ IsTexts(texts)
    /\ len = Len(Strings(texts)[Len(texts)])
    /\ Holds(P, o, Strings(texts)[Len(texts)])

\* Texts are read as they were written, as many as there are.
LEMMA TextsRead ==
    ASSUME NEW P \in Seq(Octet), NEW o \in Nat, NEW texts, NEW len, TextsThere(P, o, texts, len)
    PROVE  /\ len \in Nat \ {0} /\ TextCount(P, o, len) = Len(texts)
           /\ Texts(P, o, len)[Len(texts)] = o + len
           /\ \A j \in 1..Len(texts) : /\ ~NoCopy(P, Texts(P, o, len)[j - 1])
                                       /\ copy_label(P, Texts(P, o, len)[j - 1]) = texts[j]
<1> DEFINE n == Len(texts)  s == Strings(texts)
           F(f) == [j \in 0..len |-> IF j = 0 THEN o
                                     ELSE IF f[j - 1] >= o + len THEN f[j - 1]
                                     ELSE f[j - 1] + 1 + P[f[j - 1] + 1]]
           w == [j \in 0..len |-> IF j <= n THEN o + Len(s[j]) ELSE o + Len(s[n])]
           at == Texts(P, o, len)
<1> IsTexts(texts) /\ len = Len(Strings(texts)[Len(texts)]) /\ Holds(P, o, Strings(texts)[Len(texts)])
    BY DEF TextsThere
<1>1. /\ texts \in Seq(Seq(Octet)) /\ n \in Nat \ {0}
      /\ \A j \in 1..n : texts[j] \in Seq(Octet) /\ Len(texts[j]) \in 0..62 /\ Len(texts[j]) < MaxLabel
  <2>1. texts \in Seq(Seq(Octet)) /\ texts # <<>>
      BY StringsOctets DEF IsTexts
  <2>2. n \in Nat \ {0} /\ \A j \in 1..n : texts[j] \in Seq(Octet)
      BY <2>1
  <2>3. ASSUME NEW j \in 1..n PROVE Len(texts[j]) \in 0..62 /\ Len(texts[j]) < MaxLabel
    <3>1. PICK x : x = Len(texts[j])
        OBVIOUS
    <3>2. x \in Nat
        BY <2>2, <3>1
    <3>3. x < MaxLabel
        BY <3>1 DEF IsTexts
    <3>4. MaxLabel \in 1..63
        BY ReplyAssumption
    <3>5. x \in 0..62
        BY <3>2, <3>3, <3>4
    <3> QED BY <3>1, <3>3, <3>5
  <2> QED BY <2>1, <2>2, <2>3
<1>2. \A j \in 1..n : Len(texts[j]) < 256
  <2>1. \A x \in 0..62 : x < 256
      OBVIOUS
  <2> QED BY <1>1, <2>1
<1>3. /\ s[0] = <<>> /\ \A j \in 1..n : Len(s[j]) = Len(s[j - 1]) + 1 + Len(texts[j])
      /\ \A j \in 0..n : Len(s[j]) \in Nat /\ Len(s[j]) >= j
    BY <1>1, <1>2, StringsAre, StringsLong
<1>4. \A j \in 1..n : Holds(P, o + Len(s[j - 1]), <<Len(texts[j])>> \o texts[j])
  <2>1. n \in 0..Len(texts) /\ Holds(P, o, Strings(texts)[n])
      BY <1>1
  <2> QED BY <1>1, <1>2, <2>1, StringsHeld
<1>5. len = Len(s[n])
    OBVIOUS
<1> HIDE DEF n, s
<1>6. len \in Nat /\ len >= n /\ n \in 0..n
    BY <1>1, <1>3, <1>5
<1>7. ASSUME NEW j \in 1..n
      PROVE  LET p == o + Len(s[j - 1])
             IN /\ p \in Nat /\ P[p + 1] = Len(texts[j]) /\ o + Len(s[j]) = p + 1 + P[p + 1]
                /\ ~NoCopy(P, p) /\ copy_label(P, p) = texts[j]
  <2>1. PICK p, l : p = o + Len(s[j - 1]) /\ l = texts[j]
      OBVIOUS
  <2>2. j - 1 \in 0..n /\ j \in 0..n
      BY <1>1
  <2>3. p \in Nat
      BY <1>3, <2>1, <2>2
  <2>4. l \in Seq(Octet) /\ Len(l) \in 0..62 /\ Len(l) < MaxLabel
      BY <1>1, <2>1
  <2>5. Len(l) \in 0..63
      BY <2>4
  <2>6. Holds(P, p, <<Len(l)>> \o l)
      BY <1>4, <2>1
  <2>7. P[p + 1] = Len(l) /\ p + 1 + Len(l) <= Len(P) /\ LabelAt(P, p) = l
      BY <2>3, <2>4, <2>5, <2>6, LabelHeld
  <2>8. Len(l) \in Nat /\ Len(P) \in Nat /\ MaxLabel \in Nat
    <3>1. MaxLabel \in 1..63
        BY ReplyAssumption
    <3>2. \A x \in 0..62 : x \in Nat
        OBVIOUS
    <3>3. \A x \in 1..63 : x \in Nat
        OBVIOUS
    <3>4. Len(P) \in Nat
        OBVIOUS
    <3> QED BY <2>4, <3>1, <3>2, <3>3, <3>4
  <2>9. ~NoCopy(P, p)
    <3>1. ~(p >= Len(P)) /\ ~(p + Len(l) + 1 > Len(P)) /\ ~(Len(l) + 1 > MaxLabel)
        BY <2>3, <2>4, <2>7, <2>8
    <3> QED BY <3>1, <2>7 DEF NoCopy
  <2>10. copy_label(P, p) = l
      BY <2>7, <2>9 DEF NoCopy, copy_label, dup_label
  <2>11. o + Len(s[j]) = p + 1 + Len(l)
    <3>1. PICK x, y : x = Len(s[j - 1]) /\ y = Len(s[j])
        OBVIOUS
    <3>2. x \in Nat /\ y = x + 1 + Len(l) /\ p = o + x
        BY <1>3, <2>1, <2>2, <3>1
    <3> QED BY <3>1, <3>2, <2>8
  <2> QED BY <2>1, <2>3, <2>7, <2>9, <2>10, <2>11
<1>8. \A j \in 0..n : Len(s[j]) <= Len(s[n]) - (n - j)
  <2> DEFINE S == {i \in 0..n : Len(s[n - i]) <= Len(s[n]) - i}
  <2>1. 0 \in S
    <3>1. n - 0 = n /\ Len(s[n]) \in Nat
        BY <1>1, <1>3, <1>6
    <3> QED BY <3>1, <1>1
  <2>2. ASSUME NEW i \in 1..n, i - 1 \in S PROVE i \in S
    <3>1. n - i \in 0..n /\ n - (i - 1) \in 1..n /\ (n - (i - 1)) - 1 = n - i /\ i \in 0..n
        BY <1>1
    <3>2. PICK x, y, z, t : x = Len(s[n - i]) /\ y = Len(s[n - (i - 1)]) /\ z = Len(s[n])
                            /\ t = Len(texts[n - (i - 1)])
        OBVIOUS
    <3>3. y = x + 1 + t
        BY <1>3, <3>1, <3>2
    <3>4. x \in Nat /\ z \in Nat /\ t \in 0..62
        BY <1>1, <1>3, <1>6, <3>1, <3>2
    <3>5. y <= z - (i - 1)
        BY <2>2, <3>2
    <3>6. x <= z - i
        BY <3>3, <3>4, <3>5
    <3> QED BY <3>1, <3>2, <3>6
  <2>3. 0..n \subseteq S
    <3> HIDE DEF S
    <3>1. n \in Nat
        BY <1>1
    <3> QED BY <3>1, <2>1, <2>2, UpTo
  <2> TAKE j \in 0..n
  <2>4. n - j \in 0..n /\ n - (n - j) = j
      BY <1>1
  <2> QED BY <2>3, <2>4
<1>9. \A j \in 0..n - 1 : o + Len(s[j]) < o + len
  <2> TAKE j \in 0..n - 1
  <2>1. PICK x, z : x = Len(s[j]) /\ z = Len(s[n])
      OBVIOUS
  <2>2. j \in 0..n /\ x \in Nat /\ z \in Nat /\ n - j >= 1 /\ n - j \in Nat
      BY <1>1, <1>3, <1>6, <2>1
  <2>3. x <= z - (n - j)
      BY <1>8, <2>1, <2>2
  <2> QED BY <1>5, <2>1, <2>2, <2>3
<1>10. w[0] = o /\ \A j \in 0..n : w[j] = o + Len(s[j])
  <2>1. Len(s[0]) = 0
      BY <1>3
  <2>2. 0 \in 0..n /\ \A j \in 0..n : j \in 0..len /\ j <= n
      BY <1>1, <1>6
  <2> QED BY <2>1, <2>2
<1>11. \A j \in 0..len : j >= n => w[j] = o + len
    BY <1>1, <1>5, <1>6
<1>12. w = F(w)
  <2>1. ASSUME NEW j \in 0..len PROVE w[j] = F(w)[j]
    <3> HIDE DEF w
    <3>1. CASE j = 0
        BY <3>1, <1>10
    <3>2. CASE j \in 1..n
      <4>1. j - 1 \in 0..n - 1 /\ j - 1 \in 0..n /\ j \in 0..n /\ j # 0
          BY <3>2, <1>1
      <4>2. PICK p : p = o + Len(s[j - 1])
          OBVIOUS
      <4>3. p \in Nat /\ o + Len(s[j]) = p + 1 + P[p + 1]
          BY <3>2, <4>2, <1>7
      <4>4. w[j] = o + Len(s[j]) /\ w[j - 1] = p /\ p < o + len
          BY <4>1, <4>2, <1>9, <1>10
      <4>5. ~(p >= o + len)
          BY <4>3, <4>4, <1>6
      <4> QED BY <4>1, <4>3, <4>4, <4>5
    <3>3. CASE j > n
      <4>1. j - 1 \in 0..len /\ j - 1 >= n /\ j >= n /\ j # 0
          BY <3>3, <1>1, <1>6
      <4>2. w[j] = o + len /\ w[j - 1] = o + len /\ o + len >= o + len
          BY <4>1, <1>6, <1>11
      <4> QED BY <4>1, <4>2
    <3> QED BY <3>1, <3>2, <3>3, <1>1
  <2>2. w = [j \in 0..len |-> w[j]] /\ F(w) = [j \in 0..len |-> F(w)[j]]
      OBVIOUS
  <2> HIDE DEF w, F
  <2> QED BY <2>1, <2>2
<1>13. at = CHOOSE g : g = F(g)
    BY DEF Texts
<1> HIDE DEF w, at
<1>14. at = F(at)
  <2> HIDE DEF F
  <2> QED BY <1>12, <1>13
<1>15. at[0] = o /\ \A j \in 1..len : at[j] = IF at[j - 1] >= o + len THEN at[j - 1]
                                              ELSE at[j - 1] + 1 + P[at[j - 1] + 1]
  <2>1. \A j \in 0..len : at[j] = F(at)[j]
    <3> HIDE DEF F
    <3> QED BY <1>14
  <2>2. 0 \in 0..len /\ \A j \in 1..len : j \in 0..len /\ j # 0
      BY <1>6
  <2> QED BY <2>1, <2>2
<1>16. \A j \in 0..n : at[j] = o + Len(s[j])
  <2> DEFINE S == {j \in 0..n : at[j] = o + Len(s[j])}
  <2>1. 0 \in S
    <3>1. 0 \in 0..n /\ o + Len(s[0]) = o
        BY <1>1, <1>10
    <3> QED BY <3>1, <1>15
  <2>2. ASSUME NEW j \in 1..n, j - 1 \in S PROVE j \in S
    <3>1. j - 1 \in 0..n - 1 /\ j \in 0..n /\ j \in 1..len
        BY <1>1, <1>6
    <3>2. PICK p : p = o + Len(s[j - 1])
        OBVIOUS
    <3>3. p \in Nat /\ o + Len(s[j]) = p + 1 + P[p + 1] /\ p < o + len
        BY <3>1, <3>2, <1>7, <1>9
    <3>4. at[j - 1] = p /\ ~(p >= o + len)
        BY <2>2, <3>2, <3>3, <1>6
    <3> QED BY <3>1, <3>3, <3>4, <1>15
  <2>3. 0..n \subseteq S
    <3> HIDE DEF S
    <3>1. n \in Nat
        BY <1>1
    <3> QED BY <3>1, <2>1, <2>2, UpTo
  <2> QED BY <2>3
<1> DEFINE Stops(k) == at[k] >= o + len /\ \A j \in 0..k - 1 : at[j] < o + len
<1>17. (CHOOSE k \in 0..len : Stops(k)) = n
  <2>1. n \in 0..len /\ Stops(n)
    <3>1. n \in 0..len /\ at[n] = o + len
        BY <1>1, <1>5, <1>6, <1>16
    <3>2. \A j \in 0..n - 1 : j \in 0..n
        BY <1>1
    <3>3. \A j \in 0..n - 1 : at[j] < o + len
        BY <3>2, <1>9, <1>16
    <3> QED BY <3>1, <3>3, <1>6
  <2>2. ASSUME NEW k \in 0..len, Stops(k) PROVE k = n
    <3>1. CASE k < n
      <4>1. k \in 0..n - 1 /\ k \in 0..n
          BY <3>1, <1>1
      <4>2. PICK p : p = o + Len(s[k])
          OBVIOUS
      <4>3. p \in Nat /\ p < o + len /\ at[k] = p
          BY <4>1, <4>2, <1>3, <1>9, <1>16
      <4> QED BY <4>3, <2>2, <1>6
    <3>2. CASE k > n
      <4>1. n \in 0..k - 1 /\ at[n] = o + len
          BY <3>2, <1>1, <1>5, <1>6, <1>16
      <4>2. o + len < o + len
          BY <4>1, <2>2
      <4> QED BY <4>2, <1>6
    <3> QED BY <3>1, <3>2, <1>1
  <2> HIDE DEF Stops
  <2> QED BY <2>1, <2>2
<1>18. TextCount(P, o, len) = n
    BY <1>17 DEF TextCount, at
<1>19. at[n] = o + len
    BY <1>5, <1>6, <1>16
<1>20. ASSUME NEW j \in 1..n PROVE ~NoCopy(P, at[j - 1]) /\ copy_label(P, at[j - 1]) = texts[j]
  <2>1. j - 1 \in 0..n
      BY <1>1
  <2> QED BY <2>1, <1>7, <1>16
<1>21. len \in Nat \ {0}
    BY <1>1, <1>6
<1> QED BY <1>18, <1>19, <1>20, <1>21 DEF n, at

\* Three runs of bytes.
Run3(a, b, c) == a \o b \o c

\* Where three runs lie, each of them does, behind the one before.
LEMMA HoldsThree ==
    ASSUME NEW P \in Seq(Octet), NEW o \in Nat,
           NEW a \in Seq(Octet), NEW b \in Seq(Octet), NEW c \in Seq(Octet)
    PROVE  /\ Run3(a, b, c) \in Seq(Octet) /\ Len(Run3(a, b, c)) = Len(a) + Len(b) + Len(c)
           /\ Len(a) \in Nat /\ Len(b) \in Nat /\ Len(c) \in Nat
           /\ Holds(P, o, Run3(a, b, c)) => /\ Holds(P, o, a) /\ Holds(P, o + Len(a), b)
                                            /\ Holds(P, o + Len(a) + Len(b), c)
<1>0. PICK abc : abc = Run3(a, b, c)
    OBVIOUS
<1>1. PICK ab \in Seq(Octet) : ab = a \o b /\ Len(ab) = Len(a) + Len(b)
    BY Cat
<1>2. abc = ab \o c
    BY <1>0, <1>1 DEF Run3
<1>3. abc \in Seq(Octet) /\ Len(abc) = Len(ab) + Len(c)
    BY <1>2, Cat
<1>4. Len(a) \in Nat /\ Len(b) \in Nat /\ Len(c) \in Nat
    OBVIOUS
<1>5. Holds(P, o, abc) => Holds(P, o, ab) /\ Holds(P, o + Len(ab), c)
    BY <1>2, HoldsCat
<1>6. Holds(P, o, ab) => Holds(P, o, a) /\ Holds(P, o + Len(a), b)
    BY <1>1, HoldsCat
<1>7. o + Len(ab) = o + Len(a) + Len(b) /\ Len(ab) + Len(c) = Len(a) + Len(b) + Len(c)
    BY <1>1, <1>4
<1> QED BY <1>0, <1>1, <1>3, <1>4, <1>5, <1>6, <1>7

\* The six parts of a record.
Run6(a, b, c, d, e, f) == a \o b \o c \o d \o e \o f

\* Its length is theirs together.
LEMMA LengthSix ==
    ASSUME NEW a \in Seq(Octet), NEW b \in Seq(Octet), NEW c \in Seq(Octet),
           NEW d \in Seq(Octet), NEW e \in Seq(Octet), NEW f \in Seq(Octet)
    PROVE  Len(Run6(a, b, c, d, e, f)) = Len(a) + Len(b) + Len(c) + Len(d) + Len(e) + Len(f)
<1>1. PICK p \in Seq(Octet) : p = a \o b /\ Len(p) = Len(a) + Len(b)
    BY Cat
<1>2. PICK q \in Seq(Octet) : q = p \o c /\ Len(q) = Len(p) + Len(c)
    BY <1>1, Cat
<1>3. PICK r \in Seq(Octet) : r = q \o d /\ Len(r) = Len(q) + Len(d)
    BY <1>2, Cat
<1>4. PICK s \in Seq(Octet) : s = r \o e /\ Len(s) = Len(r) + Len(e)
    BY <1>3, Cat
<1>5. PICK t \in Seq(Octet) : t = s \o f /\ Len(t) = Len(s) + Len(f)
    BY <1>4, Cat
<1>6. t = Run6(a, b, c, d, e, f)
    BY <1>1, <1>2, <1>3, <1>4, <1>5 DEF Run6
<1> HIDE DEF Run6
<1> QED BY <1>1, <1>2, <1>3, <1>4, <1>5, <1>6

\* Where each of them is.
LEMMA HoldsSix ==
    ASSUME NEW P \in Seq(Octet), NEW o \in Nat,
           NEW a \in Seq(Octet), NEW b \in Seq(Octet), NEW c \in Seq(Octet),
           NEW d \in Seq(Octet), NEW e \in Seq(Octet), NEW f \in Seq(Octet),
           Len(b) = 2, Len(c) = 2, Len(d) = 4, Len(e) = 2
    PROVE  Holds(P, o, Run6(a, b, c, d, e, f)) =>
                  /\ Holds(P, o, a) /\ Holds(P, o + Len(a), b)
                  /\ Holds(P, o + Len(a) + 2, c) /\ Holds(P, o + Len(a) + 4, d)
                  /\ Holds(P, o + Len(a) + 8, e) /\ Holds(P, o + Len(a) + 10, f)
<1>1. PICK x : x = Run3(a, b, c)
    OBVIOUS
<1>2. PICK y : y = Run3(x, d, e)
    OBVIOUS
<1>3. /\ x \in Seq(Octet) /\ Len(x) = Len(a) + Len(b) + Len(c) /\ Len(a) \in Nat
      /\ Holds(P, o, x) => /\ Holds(P, o, a) /\ Holds(P, o + Len(a), b)
                           /\ Holds(P, o + Len(a) + Len(b), c)
  <2>0. x \in Seq(Octet)
      BY <1>1, HoldsThree
  <2>1. Len(x) = Len(a) + Len(b) + Len(c)
      BY ONLY <1>1, HoldsThree, P \in Seq(Octet), o \in Nat, a \in Seq(Octet),
              b \in Seq(Octet), c \in Seq(Octet)
  <2>2. Len(a) \in Nat
      OBVIOUS
  <2>3. Holds(P, o, x) => Holds(P, o, a)
      BY <1>1, HoldsThree
  <2>4. Holds(P, o, x) => Holds(P, o + Len(a), b)
      BY <1>1, HoldsThree
  <2>5. Holds(P, o, x) => Holds(P, o + Len(a) + Len(b), c)
      BY <1>1, HoldsThree
  <2> QED BY <2>0, <2>1, <2>2, <2>3, <2>4, <2>5
<1>4. /\ y \in Seq(Octet) /\ Len(y) = Len(x) + Len(d) + Len(e)
      /\ Holds(P, o, y) => /\ Holds(P, o, x) /\ Holds(P, o + Len(x), d)
                           /\ Holds(P, o + Len(x) + Len(d), e)
  <2>x. x \in Seq(Octet)
      BY <1>3
  <2>0. y \in Seq(Octet)
      BY <1>2, <1>3, HoldsThree
  <2>1. Len(y) = Len(x) + Len(d) + Len(e)
      BY ONLY <1>2, <2>x, HoldsThree, P \in Seq(Octet), o \in Nat,
              d \in Seq(Octet), e \in Seq(Octet)
  <2>2. Holds(P, o, y) => Holds(P, o, x)
      BY <1>2, <1>3, HoldsThree
  <2>3. Holds(P, o, y) => Holds(P, o + Len(x), d)
      BY <1>2, <1>3, HoldsThree
  <2>4. Holds(P, o, y) => Holds(P, o + Len(x) + Len(d), e)
      BY <1>2, <1>3, HoldsThree
  <2> QED BY <2>0, <2>1, <2>2, <2>3, <2>4
<1>5. PICK w : w = Run6(a, b, c, d, e, f)
    OBVIOUS
<1>5a. w = y \o f
    BY <1>1, <1>2, <1>5 DEF Run3, Run6
<1>6. /\ w \in Seq(Octet) /\ Len(w) = Len(y) + Len(f)
      /\ Holds(P, o, w) => Holds(P, o, y) /\ Holds(P, o + Len(y), f)
  <2>0. w \in Seq(Octet)
      BY <1>4, <1>5a, HoldsCat
  <2>x. y \in Seq(Octet)
      BY <1>4
  <2>1. Len(w) = Len(y) + Len(f)
      BY ONLY <2>x, <1>5a, Cat, f \in Seq(Octet)
  <2>2. Holds(P, o, w) => Holds(P, o, y)
      BY <1>4, <1>5a, HoldsCat
  <2>3. Holds(P, o, w) => Holds(P, o + Len(y), f)
      BY <1>4, <1>5a, HoldsCat
  <2> QED BY <2>0, <2>1, <2>2, <2>3
<1>8. /\ Len(x) = Len(a) + 4 /\ o + Len(a) + Len(b) = o + Len(a) + 2
    BY <1>3
<1>9. /\ Len(y) = Len(a) + 10 /\ o + Len(y) = o + Len(a) + 10
      /\ o + Len(x) = o + Len(a) + 4 /\ o + Len(x) + Len(d) = o + Len(a) + 8
    BY <1>3, <1>4, <1>8
<1> QED BY <1>1, <1>3, <1>4, <1>5, <1>6, <1>8, <1>9

\* What is known of names is still true further on.
LEMMA CompLater ==
    ASSUME NEW P, NEW comp, NEW a \in Nat, NEW b \in Nat, a <= b, CompIs(P, comp, a)
    PROVE  CompIs(P, comp, b)
<1>1. \A n \in 1..a : n \in 1..b
    OBVIOUS
<1> QED BY <1>1 DEF CompIs

\* A name's bytes and what is known after it, as one record.
LEMMA NameIsRecord ==
    ASSUME NEW off, NEW name, IsName(name), NEW comp
    PROVE  LET e == mdns_encode_name(off, name, comp)
           IN e = [bytes |-> e.bytes, comp |-> e.comp]
<1>1. name \in Seq(Seq(Octet))
    BY NameOctets
<1>2. PICK k : mdns_encode_name(off, name, comp) =
                   [bytes |-> Strings(name)[k] \o NameEnd(name, comp, k),
                    comp |-> CompAfter(off, name, comp, k)]
    BY <1>1, NameEncoded
<1> QED BY <1>2

\* The data of each type.
LEMMA DataCases ==
    ASSUME NEW off, NEW r, IsRecord(r), NEW comp
    PROVE  LET d == EncodeData(off, r, comp)
               t == mdns_encode_name(off + 6, r.data.target, comp)
               n == mdns_encode_name(off, r.name, comp)
           IN \/ /\ \/ r.type = RR_A /\ IsBytes(r.data, 4)
                    \/ r.type = RR_AAAA /\ IsBytes(r.data, 16)
                 /\ d = [bytes |-> r.data, comp |-> comp]
              \/ /\ r.type = RR_PTR /\ IsName(r.data)
                 /\ d = mdns_encode_name(off, r.data, comp)
              \/ /\ r.type = RR_TXT /\ IsTexts(r.data)
                 /\ d = [bytes |-> Strings(r.data)[Len(r.data)], comp |-> comp]
              \/ /\ r.type = RR_SRV /\ IsShort(r.data.port) /\ IsName(r.data.target)
                 /\ d = [bytes |-> u16(0) \o u16(0) \o u16(r.data.port) \o t.bytes, comp |-> t.comp]
              \/ /\ r.type = RR_NSEC /\ IsBytes(r.data, 5)
                 /\ d = [bytes |-> n.bytes \o <<0, Len(r.data)>> \o r.data, comp |-> n.comp]
<1> DEFINE d == EncodeData(off, r, comp)
           t == mdns_encode_name(off + 6, r.data.target, comp)
           n == mdns_encode_name(off, r.name, comp)
<1> USE DEF RR_A, RR_AAAA, RR_PTR, RR_TXT, RR_SRV, RR_NSEC
<1>1. IsData(r.type, r.data) /\ IsName(r.name)
    BY DEF IsRecord
<1>2. CASE r.type = RR_A \/ r.type = RR_AAAA
    BY <1>1, <1>2 DEF EncodeData, IsData
<1>3. CASE r.type = RR_PTR
    BY <1>1, <1>3 DEF EncodeData, IsData
<1>4. CASE r.type = RR_TXT
    BY <1>1, <1>4 DEF EncodeData, IsData
<1>5. CASE r.type = RR_SRV
  <2>1. IsShort(r.data.port) /\ IsName(r.data.target)
      BY <1>1, <1>5 DEF IsData
  <2>2. t = [bytes |-> t.bytes, comp |-> t.comp]
      BY <2>1, NameIsRecord
  <2>3. d = [t EXCEPT !.bytes = u16(0) \o u16(0) \o u16(r.data.port) \o @]
      BY <1>5 DEF EncodeData
  <2> HIDE DEF t, d
  <2>4. d = [bytes |-> u16(0) \o u16(0) \o u16(r.data.port) \o t.bytes, comp |-> t.comp]
      BY <2>2, <2>3
  <2> QED BY <1>5, <2>1, <2>4 DEF t, d
<1>6. CASE r.type = RR_NSEC
  <2>1. IsBytes(r.data, 5)
      BY <1>1, <1>6 DEF IsData
  <2>2. n = [bytes |-> n.bytes, comp |-> n.comp]
      BY <1>1, NameIsRecord
  <2>3. d = [n EXCEPT !.bytes = @ \o <<0, Len(r.data)>> \o r.data]
      BY <1>6 DEF EncodeData
  <2> HIDE DEF n, d
  <2>4. d = [bytes |-> n.bytes \o <<0, Len(r.data)>> \o r.data, comp |-> n.comp]
      BY <2>2, <2>3
  <2> QED BY <1>6, <2>1, <2>4 DEF n, d
<1> QED BY <1>1, <1>2, <1>3, <1>4, <1>5, <1>6 DEF IsData

\* The data's bytes, and known names that keep their shape.
LEMMA DataTyped ==
    ASSUME NEW off \in Nat, NEW r, IsRecord(r), NEW comp \in Comps
    PROVE  /\ EncodeData(off, r, comp).bytes \in Seq(Octet)
           /\ EncodeData(off, r, comp).comp \in Comps
<1> DEFINE d == EncodeData(off, r, comp)
           t == mdns_encode_name(off + 6, r.data.target, comp)
           n == mdns_encode_name(off, r.name, comp)
<1>0. ASSUME NEW name, IsName(name), NEW o \in Nat
      PROVE  /\ mdns_encode_name(o, name, comp).bytes \in Seq(Octet)
             /\ mdns_encode_name(o, name, comp).comp \in Comps
  <2>1. name \in Seq(Seq(Octet))
      BY <1>0, NameOctets
  <2>2. \A j \in 1..Len(name) : Len(name[j]) < 256
      BY <1>0, NameStrings
  <2> QED BY <2>1, <2>2, NameTyped
<1>1. CASE d = [bytes |-> r.data, comp |-> comp] /\ r.data \in Seq(Octet)
    BY <1>1
<1>2. CASE d = mdns_encode_name(off, r.data, comp) /\ IsName(r.data)
    BY <1>0, <1>2
<1>3. CASE d = [bytes |-> Strings(r.data)[Len(r.data)], comp |-> comp] /\ IsTexts(r.data)
  <2>1. r.data \in Seq(Seq(Octet))
      BY <1>3, StringsOctets DEF IsTexts
  <2>2. \A j \in 1..Len(r.data) : Len(r.data[j]) < 256
    <3> TAKE j \in 1..Len(r.data)
    <3>1. PICK x : x = Len(r.data[j])
        OBVIOUS
    <3>2. x \in Nat
        BY <2>1, <3>1
    <3>3. x < MaxLabel
        BY <1>3, <3>1 DEF IsTexts
    <3>4. MaxLabel \in 1..63
        BY ReplyAssumption
    <3> QED BY <3>1, <3>2, <3>3, <3>4
  <2>3. Strings(r.data) \in [0..Len(r.data) -> Seq(Octet)] /\ Len(r.data) \in 0..Len(r.data)
    <3>1. PICK list : list = r.data
        OBVIOUS
    <3>2. list \in Seq(Seq(Octet)) /\ \A j \in 1..Len(list) : Len(list[j]) < 256
        BY <2>1, <2>2, <3>1
    <3>3. Strings(list) \in [0..Len(list) -> Seq(Octet)]
        BY <3>2, StringsAre
    <3>4. Len(list) \in Nat
        BY <3>2
    <3> QED BY <3>1, <3>3, <3>4
  <2> QED BY <1>3, <2>3
<1>4. CASE /\ d = [bytes |-> u16(0) \o u16(0) \o u16(r.data.port) \o t.bytes, comp |-> t.comp]
           /\ IsShort(r.data.port) /\ IsName(r.data.target)
  <2>1. t.bytes \in Seq(Octet) /\ t.comp \in Comps
      BY <1>0, <1>4
  <2>2. u16(0) \in Seq(Octet) /\ u16(r.data.port) \in Seq(Octet)
    <3>1. IsShort(0)
        BY DEF IsShort
    <3> QED BY <1>4, <3>1, NumberBytes
  <2> HIDE DEF t, d
  <2>3. PICK z, p, b : z = u16(0) /\ p = u16(r.data.port) /\ b = t.bytes
      OBVIOUS
  <2>4. z \o z \o p \in Seq(Octet)
      BY <2>2, <2>3, Cat
  <2>5. (z \o z \o p) \o b \in Seq(Octet)
      BY <2>1, <2>3, <2>4, Cat
  <2> QED BY <1>4, <2>1, <2>3, <2>5 DEF d, t
<1>5. CASE /\ d = [bytes |-> n.bytes \o <<0, Len(r.data)>> \o r.data, comp |-> n.comp]
           /\ IsBytes(r.data, 5)
  <2>1. n.bytes \in Seq(Octet) /\ n.comp \in Comps
      BY <1>0 DEF IsRecord
  <2>2. <<0, Len(r.data)>> \in Seq(Octet) /\ r.data \in Seq(Octet)
    <3>1. 0 \in Octet /\ 5 \in Octet
        BY DEF Octet
    <3> QED BY <3>1, <1>5 DEF IsBytes
  <2> HIDE DEF n, d
  <2>3. PICK b, h : b = n.bytes /\ h = <<0, Len(r.data)>>
      OBVIOUS
  <2>4. b \o h \o r.data \in Seq(Octet)
      BY <2>1, <2>2, <2>3, Cat
  <2> QED BY <1>5, <2>1, <2>3, <2>4 DEF d, n
<1> QED BY <1>1, <1>2, <1>3, <1>4, <1>5, DataCases DEF IsBytes

\* What the parser makes of a record's data.
DataLegible(r) == IF r.type \in {RR_SRV, RR_NSEC} THEN <<>> ELSE r.data

\* An address, read where it was written.
LEMMA AddressRead ==
    ASSUME NEW P \in Seq(Octet), NEW o \in Nat, NEW bytes,
           NEW type, Holds(P, o, bytes),
           \/ type = RR_A /\ IsBytes(bytes, 4)
           \/ type = RR_AAAA /\ IsBytes(bytes, 16)
    PROVE  /\ ~ParseError(P, o, type, Len(bytes))
           /\ ParseData(P, o, type, Len(bytes)) = bytes
           /\ Used(P, o, type, Len(bytes)) = Len(bytes)
<1> DEFINE len == Len(bytes)
           Goal == /\ ~ParseError(P, o, type, len)
                   /\ ParseData(P, o, type, len) = bytes
                   /\ Used(P, o, type, len) = len
<1> SUFFICES Goal
    OBVIOUS
<1> USE DEF RR_A, RR_AAAA, RR_PTR, RR_TXT, RR_SRV, RR_NSEC
<1>1. PICK b \in Seq(Octet) : b = bytes
    BY DEF IsBytes
<1>2. SubSeq(P, o + 1, o + Len(b)) = b
    BY <1>1, BytesHere
<1>3. CASE type = RR_A
  <2>0. IsBytes(b, 4)
      BY <1>1, <1>3
  <2>1. len = 4 /\ Len(b) = 4
      BY <1>1, <2>0 DEF IsBytes
  <2>2. SubSeq(P, o + 1, o + 4) = b
      BY <1>2, <2>1
  <2>3. ~ParseError(P, o, type, len)
      BY <1>3, <2>1 DEF ParseError
  <2>4. ParseData(P, o, type, len) = b
      BY <1>3, <2>2 DEF ParseData
  <2>5. Used(P, o, type, len) = len
      BY <1>3, <2>1 DEF Used
  <2> QED BY <1>1, <2>3, <2>4, <2>5
<1>4. CASE type = RR_AAAA
  <2>0. IsBytes(b, 16)
      BY <1>1, <1>4
  <2>1. len = 16 /\ Len(b) = 16
      BY <1>1, <2>0 DEF IsBytes
  <2>2. SubSeq(P, o + 1, o + 16) = b
      BY <1>2, <2>1
  <2>3. ~ParseError(P, o, type, len)
      BY <1>4, <2>1 DEF ParseError
  <2>4. ParseData(P, o, type, len) = b
      BY <1>4, <2>2 DEF ParseData
  <2>5. Used(P, o, type, len) = len
      BY <1>4, <2>1 DEF Used
  <2> QED BY <1>1, <2>3, <2>4, <2>5
<1>5. type = RR_A \/ type = RR_AAAA
    OBVIOUS
<1> HIDE DEF Goal
<1> QED BY <1>3, <1>4, <1>5

\* The texts of a TXT record, read where they were written.
LEMMA TextDataRead ==
    ASSUME NEW P \in Seq(Octet), NEW o \in Nat, NEW texts, NEW len, TextsThere(P, o, texts, len)
    PROVE  /\ ~ParseError(P, o, RR_TXT, len)
           /\ ParseData(P, o, RR_TXT, len) = texts
           /\ Used(P, o, RR_TXT, len) = len
<1>1. /\ len \in Nat \ {0} /\ TextCount(P, o, len) = Len(texts)
      /\ Texts(P, o, len)[Len(texts)] = o + len
      /\ \A j \in 1..Len(texts) : /\ ~NoCopy(P, Texts(P, o, len)[j - 1])
                                  /\ copy_label(P, Texts(P, o, len)[j - 1]) = texts[j]
    BY TextsRead
<1> USE DEF RR_A, RR_AAAA, RR_PTR, RR_TXT, RR_SRV, RR_NSEC
<1>2. PICK t \in Seq(Seq(Character)) : t = texts
    BY DEF IsTexts, TextsThere
<1>3. t = [j \in 1..Len(t) |-> t[j]]
    OBVIOUS
<1>4. ParseData(P, o, RR_TXT, len) =
          [j \in 1..TextCount(P, o, len) |-> copy_label(P, Texts(P, o, len)[j - 1])]
    BY <1>1 DEF ParseData
<1>5. ParseData(P, o, RR_TXT, len) = [j \in 1..Len(t) |-> t[j]]
    BY <1>1, <1>2, <1>4
<1>6. ~ParseError(P, o, RR_TXT, len)
    BY <1>1 DEF ParseError
<1>7. Used(P, o, RR_TXT, len) = o + len - o
    BY <1>1 DEF Used
<1>8. o + len - o = len
    BY <1>1
<1> QED BY <1>2, <1>3, <1>5, <1>6, <1>7, <1>8

\* A record's data, read where it was written; the names that are known then
\* are those known before and those it spells.
LEMMA DataRead ==
    ASSUME NEW P \in Seq(Octet), Len(P) <= Reach, NEW o \in Nat, NEW r, IsRecord(r),
           NEW comp, CompIs(P, comp, o),
           Holds(P, o, EncodeData(o, r, comp).bytes)
    PROVE  LET d == EncodeData(o, r, comp)
               len == Len(d.bytes)
           IN /\ ~ParseError(P, o, r.type, len)
              /\ ParseData(P, o, r.type, len) = DataLegible(r)
              /\ Used(P, o, r.type, len) = len
              /\ CompIs(P, d.comp, o + len)
<1> DEFINE d == EncodeData(o, r, comp)
           len == Len(d.bytes)
           t == mdns_encode_name(o + 6, r.data.target, comp)
           n == mdns_encode_name(o, r.name, comp)
           Goal == /\ ~ParseError(P, o, r.type, len)
                   /\ ParseData(P, o, r.type, len) = DataLegible(r)
                   /\ Used(P, o, r.type, len) = len
                   /\ CompIs(P, d.comp, o + len)
<1> SUFFICES Goal
    OBVIOUS
<1>1. comp \in Comps
    BY DEF CompIs
<1>2. d.bytes \in Seq(Octet) /\ len \in Nat
  <2>1. d.bytes \in Seq(Octet)
      BY <1>1, DataTyped
  <2> HIDE DEF d
  <2> QED BY <2>1
<1>3. Holds(P, o, d.bytes) /\ IsName(r.name)
    BY DEF IsRecord
<1>4. \/ /\ \/ r.type = RR_A /\ IsBytes(r.data, 4)
            \/ r.type = RR_AAAA /\ IsBytes(r.data, 16)
         /\ d = [bytes |-> r.data, comp |-> comp]
      \/ /\ r.type = RR_PTR /\ IsName(r.data)
         /\ d = mdns_encode_name(o, r.data, comp)
      \/ /\ r.type = RR_TXT /\ IsTexts(r.data)
         /\ d = [bytes |-> Strings(r.data)[Len(r.data)], comp |-> comp]
      \/ /\ r.type = RR_SRV /\ IsShort(r.data.port) /\ IsName(r.data.target)
         /\ d = [bytes |-> u16(0) \o u16(0) \o u16(r.data.port) \o t.bytes, comp |-> t.comp]
      \/ /\ r.type = RR_NSEC /\ IsBytes(r.data, 5)
         /\ d = [bytes |-> n.bytes \o <<0, Len(r.data)>> \o r.data, comp |-> n.comp]
    BY DataCases
<1> HIDE DEF d, Goal
<1>5. CASE /\ \/ r.type = RR_A /\ IsBytes(r.data, 4)
              \/ r.type = RR_AAAA /\ IsBytes(r.data, 16)
           /\ d = [bytes |-> r.data, comp |-> comp]
  <2>1. /\ ~ParseError(P, o, r.type, len) /\ ParseData(P, o, r.type, len) = r.data
        /\ Used(P, o, r.type, len) = len
    <3>1. PICK b, y : b = r.data /\ y = r.type
        OBVIOUS
    <3>2. /\ \/ y = RR_A /\ IsBytes(b, 4)
             \/ y = RR_AAAA /\ IsBytes(b, 16)
          /\ Holds(P, o, b) /\ len = Len(b)
        BY <1>3, <1>5, <3>1
    <3>3. len \in Nat
        BY <1>2
    <3> HIDE DEF len
    <3>4. ~ParseError(P, o, y, Len(b))
        BY <3>2, AddressRead
    <3>5. ParseData(P, o, y, Len(b)) = b
        BY <3>2, AddressRead
    <3>6. Used(P, o, y, Len(b)) = Len(b)
        BY <3>2, AddressRead
    <3> QED BY <3>1, <3>2, <3>4, <3>5, <3>6
  <2>2. CompIs(P, d.comp, o + len)
    <3>1. o + len \in Nat /\ o <= o + len /\ d.comp = comp
        BY <1>2, <1>5
    <3> QED BY <3>1, CompLater
  <2>3. DataLegible(r) = r.data
      BY <1>5 DEF DataLegible, RR_A, RR_AAAA, RR_SRV, RR_NSEC
  <2> QED BY <2>1, <2>2, <2>3 DEF Goal
<1>6. CASE r.type = RR_PTR /\ IsName(r.data) /\ d = mdns_encode_name(o, r.data, comp)
  <2>1. uncompress_nlabel(P, o) = r.data /\ CompIs(P, d.comp, o + len)
    <3>1. PICK name : name = r.data
        OBVIOUS
    <3>2. IsName(name) /\ Holds(P, o, mdns_encode_name(o, name, comp).bytes)
        BY <1>3, <1>6, <3>1
    <3>3. /\ uncompress_nlabel(P, o) = name
          /\ CompIs(P, mdns_encode_name(o, name, comp).comp,
                    o + Len(mdns_encode_name(o, name, comp).bytes))
        BY <3>2, NameWritten
    <3> QED BY <1>6, <3>1, <3>3
  <2>2. o < Len(P)
    <3>1. len >= 1
      <4>1. PICK name : name = r.data
          OBVIOUS
      <4>2. name \in Seq(Seq(Octet)) /\ \A j \in 1..Len(name) : Len(name[j]) < 256
          BY <1>6, <4>1, NameOctets, NameStrings
      <4>3. Len(mdns_encode_name(o, name, comp).bytes) >= 1
          BY <1>1, <4>2, NameTyped
      <4> QED BY <1>6, <4>1, <4>3
    <3>2. o + len <= Len(P)
        BY <1>3 DEF Holds
    <3>3. Len(P) \in Nat
        OBVIOUS
    <3> QED BY <1>2, <3>1, <3>2, <3>3
  <2>3. ~ParseError(P, o, r.type, len)
    <3>1. ~(o >= Len(P))
        BY <2>2
    <3> QED BY <1>6, <3>1 DEF ParseError, RR_A, RR_AAAA, RR_PTR, RR_TXT
  <2>4. ParseData(P, o, r.type, len) = r.data
      BY <1>6, <2>1 DEF ParseData, RR_A, RR_AAAA, RR_PTR, RR_TXT
  <2>5. Used(P, o, r.type, len) = len
      BY <1>6 DEF Used, RR_A, RR_AAAA, RR_PTR, RR_TXT
  <2>6. DataLegible(r) = r.data
      BY <1>6 DEF DataLegible, RR_PTR, RR_SRV, RR_NSEC
  <2> QED BY <2>1, <2>3, <2>4, <2>5, <2>6 DEF Goal
<1>7. CASE /\ r.type = RR_TXT /\ IsTexts(r.data)
           /\ d = [bytes |-> Strings(r.data)[Len(r.data)], comp |-> comp]
  <2>1. /\ ~ParseError(P, o, r.type, len) /\ ParseData(P, o, r.type, len) = r.data
        /\ Used(P, o, r.type, len) = len
    <3>1. PICK texts : texts = r.data
        OBVIOUS
    <3>2. /\ IsTexts(texts) /\ Holds(P, o, Strings(texts)[Len(texts)])
          /\ len = Len(Strings(texts)[Len(texts)])
        BY <1>3, <1>7, <3>1
    <3> HIDE DEF len
    <3>4. TextsThere(P, o, texts, len)
        BY <3>2 DEF TextsThere
    <3>3. /\ ~ParseError(P, o, RR_TXT, len) /\ ParseData(P, o, RR_TXT, len) = texts
          /\ Used(P, o, RR_TXT, len) = len
        BY <3>4, TextDataRead
    <3> QED BY <1>7, <3>1, <3>3
  <2>2. CompIs(P, d.comp, o + len)
    <3>1. o + len \in Nat /\ o <= o + len /\ d.comp = comp
        BY <1>2, <1>7
    <3> QED BY <3>1, CompLater
  <2>3. DataLegible(r) = r.data
      BY <1>7 DEF DataLegible, RR_TXT, RR_SRV, RR_NSEC
  <2> QED BY <2>1, <2>2, <2>3 DEF Goal
<1>8. ASSUME r.type \in {RR_SRV, RR_NSEC}, CompIs(P, d.comp, o + len)
      PROVE  Goal
  <2>1. ~ParseError(P, o, r.type, len)
      BY <1>8 DEF ParseError, RR_A, RR_AAAA, RR_PTR, RR_TXT, RR_SRV, RR_NSEC
  <2>2. ParseData(P, o, r.type, len) = <<>>
      BY <1>8 DEF ParseData, RR_A, RR_AAAA, RR_PTR, RR_TXT, RR_SRV, RR_NSEC
  <2>3. Used(P, o, r.type, len) = len
      BY <1>8 DEF Used, RR_A, RR_AAAA, RR_PTR, RR_TXT, RR_SRV, RR_NSEC
  <2>4. DataLegible(r) = <<>>
      BY <1>8 DEF DataLegible
  <2> QED BY <1>8, <2>1, <2>2, <2>3, <2>4 DEF Goal
<1>9. CASE /\ r.type = RR_SRV /\ IsShort(r.data.port) /\ IsName(r.data.target)
           /\ d = [bytes |-> u16(0) \o u16(0) \o u16(r.data.port) \o t.bytes, comp |-> t.comp]
  <2>1. PICK z, p, name : z = u16(0) /\ p = u16(r.data.port) /\ name = r.data.target
      OBVIOUS
  <2>2. PICK b : b = mdns_encode_name(o + 6, name, comp).bytes
      OBVIOUS
  <2>3. z \in Seq(Octet) /\ Len(z) = 2 /\ p \in Seq(Octet) /\ Len(p) = 2
    <3>1. IsShort(0) /\ IsShort(r.data.port)
        BY <1>9 DEF IsShort
    <3> QED BY <2>1, <3>1, NumberBytes
  <2>4. b \in Seq(Octet)
    <3>1. name \in Seq(Seq(Octet)) /\ \A j \in 1..Len(name) : Len(name[j]) < 256
        BY <1>9, <2>1, NameOctets, NameStrings
    <3>2. o + 6 \in Nat
        OBVIOUS
    <3> QED BY <1>1, <2>2, <3>1, <3>2, NameTyped
  <2>5. d.bytes = Run3(z, z, p) \o b /\ d.comp = mdns_encode_name(o + 6, name, comp).comp
      BY <1>9, <2>1, <2>2 DEF Run3
  <2>6. PICK fixed : fixed = Run3(z, z, p)
      OBVIOUS
  <2>7. fixed \in Seq(Octet) /\ Len(fixed) = 6
    <3>1. fixed \in Seq(Octet)
        BY <2>3, <2>6, HoldsThree
    <3>0. z \in Seq(Octet) /\ p \in Seq(Octet)
        BY <2>3
    <3>2. Len(fixed) = Len(z) + Len(z) + Len(p)
        BY ONLY <2>6, HoldsThree, <3>0, P \in Seq(Octet), o \in Nat
    <3> QED BY <2>3, <3>1, <3>2
  <2>8. Holds(P, o + 6, b) /\ len = 6 + Len(b)
    <3>1. Holds(P, o, fixed \o b)
        BY <1>3, <2>5, <2>6
    <3>2. Len(fixed \o b) = Len(fixed) + Len(b) /\ Holds(P, o + Len(fixed), b)
        BY <2>4, <2>7, <3>1, HoldsCat
    <3> QED BY <2>5, <2>6, <2>7, <3>2
  <2>9. CompIs(P, comp, o + 6)
    <3>1. o + 6 \in Nat /\ o <= o + 6
        OBVIOUS
    <3> QED BY <3>1, CompLater
  <2>10. CompIs(P, d.comp, o + 6 + Len(b))
    <3>1. IsName(name) /\ o + 6 \in Nat
        BY <1>9, <2>1
    <3> QED BY <2>2, <2>5, <2>8, <2>9, <3>1, NameWritten
  <2>11. o + 6 + Len(b) = o + len
      BY <2>4, <2>8
  <2> QED BY <1>8, <1>9, <2>10, <2>11
<1>10. CASE /\ r.type = RR_NSEC /\ IsBytes(r.data, 5)
            /\ d = [bytes |-> n.bytes \o <<0, Len(r.data)>> \o r.data, comp |-> n.comp]
  <2>1. PICK b, name, h, m : /\ name = r.name /\ b = mdns_encode_name(o, name, comp).bytes
                             /\ h = <<0, Len(r.data)>> /\ m = r.data
      OBVIOUS
  <2>2. b \in Seq(Octet)
    <3>1. name \in Seq(Seq(Octet)) /\ \A j \in 1..Len(name) : Len(name[j]) < 256
        BY <1>3, <2>1, NameOctets, NameStrings
    <3> QED BY <1>1, <2>1, <3>1, NameTyped
  <2>3. h \in Seq(Octet) /\ m \in Seq(Octet)
    <3>1. 0 \in Octet /\ 5 \in Octet
        BY DEF Octet
    <3> QED BY <1>10, <2>1, <3>1 DEF IsBytes
  <2>4. Holds(P, o, Run3(b, h, m)) /\ len = Len(Run3(b, h, m))
      BY <1>3, <1>10, <2>1 DEF Run3
  <2>5. Holds(P, o, b)
      BY <2>2, <2>3, <2>4, HoldsThree
  <2>6. o + Len(b) <= o + len
    <3>1. PICK x : x = Run3(b, h, m)
        OBVIOUS
    <3>2. Len(x) = Len(b) + Len(h) + Len(m)
        BY ONLY <3>1, HoldsThree, <2>2, <2>3, P \in Seq(Octet), o \in Nat
    <3> QED BY <2>2, <2>3, <2>4, <3>1, <3>2
  <2>7. CompIs(P, d.comp, o + Len(b))
    <3>1. d.comp = mdns_encode_name(o, name, comp).comp
        BY <1>10, <2>1
    <3> QED BY <1>3, <2>1, <2>5, <3>1, NameWritten
  <2>8. CompIs(P, d.comp, o + len)
    <3>1. o + Len(b) \in Nat /\ o + len \in Nat
        BY <1>2, <2>2
    <3> QED BY <2>6, <2>7, <3>1, CompLater
  <2> QED BY <1>8, <1>10, <2>8
<1> QED BY <1>4, <1>5, <1>6, <1>7, <1>9, <1>10

\* A record's class, which is always that of the internet.
ClassBytes(r) == <<IF r.cache_flush THEN 128 ELSE 0, 1>>

\* What is known of a record's fields.
LEMMA RecordFields ==
    ASSUME NEW r, IsRecord(r)
    PROVE  /\ IsName(r.name) /\ IsShort(r.type) /\ IsLong(r.ttl) /\ r.cache_flush \in BOOLEAN
           /\ ClassBytes(r) \in Seq(Octet) /\ Len(ClassBytes(r)) = 2
           /\ (ClassBytes(r)[1] >= 128) = r.cache_flush
<1>1. IsName(r.name) /\ IsLong(r.ttl) /\ r.cache_flush \in BOOLEAN /\ IsData(r.type, r.data)
    BY DEF IsRecord
<1>2. r.type \in {RR_A, RR_AAAA, RR_PTR, RR_TXT, RR_SRV, RR_NSEC}
    BY <1>1 DEF IsData
<1>3. IsShort(r.type)
    BY <1>2 DEF IsShort, RR_A, RR_AAAA, RR_PTR, RR_TXT, RR_SRV, RR_NSEC
<1>4. 0 \in Octet /\ 1 \in Octet /\ 128 \in Octet
    BY DEF Octet
<1>5. /\ ClassBytes(r) \in Seq(Octet) /\ Len(ClassBytes(r)) = 2
      /\ (ClassBytes(r)[1] >= 128) = r.cache_flush
  <2>1. CASE r.cache_flush = TRUE
    <3>1. ClassBytes(r) = <<128, 1>>
        BY <2>1 DEF ClassBytes
    <3>2. ClassBytes(r) \in Seq(Octet) /\ Len(ClassBytes(r)) = 2 /\ ClassBytes(r)[1] >= 128
        BY <1>4, <3>1
    <3> QED BY <2>1, <3>2
  <2>2. CASE r.cache_flush = FALSE
    <3>1. ClassBytes(r) = <<0, 1>>
        BY <2>2 DEF ClassBytes
    <3>2. ClassBytes(r) \in Seq(Octet) /\ Len(ClassBytes(r)) = 2 /\ ClassBytes(r)[1] = 0
        BY <1>4, <3>1
    <3>3. (0 >= 128) = FALSE
        OBVIOUS
    <3> QED BY <2>2, <3>2, <3>3
  <2>3. r.cache_flush = TRUE \/ r.cache_flush = FALSE
      BY <1>1
  <2> QED BY <2>1, <2>2, <2>3, Zenon
<1> QED BY <1>1, <1>3, <1>5

\* A record's name, its data, and its bytes: the name's, ten of fixed length,
\* and the data's.
RecordName(off, r, comp) == mdns_encode_name(off, r.name, comp)
RecordData(off, r, comp) ==
    EncodeData(off + Len(RecordName(off, r, comp).bytes) + 10, r, RecordName(off, r, comp).comp)
RecordBytes(a, r, g) == a \o u16(r.type) \o ClassBytes(r) \o u32(r.ttl) \o u16(Len(g)) \o g

\* That is what is written.
LEMMA RecordIs ==
    ASSUME NEW off \in Nat, NEW r, IsRecord(r), NEW comp \in Comps
    PROVE  /\ RecordName(off, r, comp).bytes \in Seq(Octet) /\ RecordName(off, r, comp).comp \in Comps
           /\ RecordData(off, r, comp).bytes \in Seq(Octet) /\ RecordData(off, r, comp).comp \in Comps
           /\ mdns_encode_rr(off, r, comp) =
                  [bytes |-> RecordBytes(RecordName(off, r, comp).bytes, r,
                                         RecordData(off, r, comp).bytes),
                   comp |-> RecordData(off, r, comp).comp]
<1> DEFINE name == mdns_encode_name(off, r.name, comp)
<1>0. <<>> \in Seq(Octet) /\ 0 \in Nat
    OBVIOUS
<1>1. name.bytes \in Seq(Octet) /\ name.comp \in Comps
  <2>1. PICK n : n = r.name
      OBVIOUS
  <2>2. n \in Seq(Seq(Octet)) /\ \A j \in 1..Len(n) : Len(n[j]) < 256
      BY <2>1, RecordFields, NameOctets, NameStrings
  <2>3. /\ mdns_encode_name(off, n, comp).bytes \in Seq(Octet)
        /\ mdns_encode_name(off, n, comp).comp \in Comps
      BY <2>2, NameTyped
  <2> QED BY <2>1, <2>3
<1> HIDE DEF name
<1>2. PICK a \in Seq(Octet), known \in Comps : a = name.bytes /\ known = name.comp
    BY <1>1
<1>3. PICK b, c, e : b = u16(r.type) /\ c = ClassBytes(r) /\ e = u32(r.ttl)
    OBVIOUS
<1>4. PICK fixed : fixed = a \o b \o c \o e
    OBVIOUS
<1>5. Len(fixed) = Len(a) + 8
  <2>1. b \in Seq(Octet) /\ Len(b) = 2
      BY <1>3, RecordFields, NumberBytes
  <2>2. c \in Seq(Octet) /\ Len(c) = 2
      BY <1>3, RecordFields
  <2>3. e \in Seq(Octet) /\ Len(e) = 4
      BY <1>3, RecordFields, LongHere
  <2>4. PICK x : x = Run3(a, b, c)
      OBVIOUS
  <2>5. x \in Seq(Octet)
      BY <2>1, <2>2, <2>4, <1>0, HoldsThree
  <2>6. Len(x) = Len(a) + Len(b) + Len(c)
    <3>1. b \in Seq(Octet) /\ c \in Seq(Octet) /\ a \in Seq(Octet)
        BY <2>1, <2>2
    <3> QED BY ONLY <2>4, <3>1, <1>0, HoldsThree
  <2>7. fixed = x \o e
      BY <1>4, <2>4 DEF Run3
  <2>8. Len(x \o e) = Len(x) + Len(e)
      BY <2>3, <2>5, Cat
  <2>9. Len(a) \in Nat
      OBVIOUS
  <2> QED BY <2>1, <2>2, <2>3, <2>6, <2>7, <2>8, <2>9
<1>6. PICK o : o = off + Len(a) + 10
    OBVIOUS
<1>7. off + Len(fixed) + 2 = o /\ o \in Nat
  <2>1. Len(a) \in Nat
      OBVIOUS
  <2> QED BY <1>5, <1>6, <2>1
<1>8. PICK d : d = EncodeData(o, r, known)
    OBVIOUS
<1>9. d.bytes \in Seq(Octet) /\ d.comp \in Comps
    BY <1>7, <1>8, DataTyped
<1>10. d = RecordData(off, r, comp) /\ name = RecordName(off, r, comp)
    BY <1>2, <1>6, <1>8 DEF RecordData, RecordName, name
<1>11. mdns_encode_rr(off, r, comp) = [bytes |-> RecordBytes(a, r, d.bytes), comp |-> d.comp]
  <2>1. fixed = name.bytes \o u16(r.type) \o ClassBytes(r) \o u32(r.ttl)
      BY <1>2, <1>3, <1>4
  <2>2. d = EncodeData(off + Len(fixed) + 2, r, name.comp)
      BY <1>2, <1>7, <1>8
  <2>3. mdns_encode_rr(off, r, comp) =
            [bytes |-> fixed \o u16(Len(d.bytes)) \o d.bytes, comp |-> d.comp]
      BY <2>1, <2>2 DEF mdns_encode_rr, name, ClassBytes
  <2>4. RecordBytes(a, r, d.bytes) = fixed \o u16(Len(d.bytes)) \o d.bytes
      BY <1>2, <2>1 DEF RecordBytes
  <2> QED BY <2>3, <2>4
<1> QED BY <1>1, <1>2, <1>9, <1>10, <1>11

\* A record keeps what is known of its shape.
LEMMA RecordTyped ==
    ASSUME NEW off \in Nat, NEW r, IsRecord(r), NEW comp \in Comps
    PROVE  /\ mdns_encode_rr(off, r, comp).bytes \in Seq(Octet)
           /\ mdns_encode_rr(off, r, comp).comp \in Comps
<1>1. PICK a, g \in Seq(Octet) : a = RecordName(off, r, comp).bytes /\ g = RecordData(off, r, comp).bytes
    BY RecordIs
<1>2. PICK b, c, e, f : /\ b = u16(r.type) /\ c = ClassBytes(r) /\ e = u32(r.ttl)
                        /\ f = u16(Len(g))
    OBVIOUS
<1>3. b \in Seq(Octet)
    BY <1>2, RecordFields, NumberBytes
<1>4. c \in Seq(Octet)
    BY <1>2, RecordFields
<1>5. e \in Seq(Octet)
    BY <1>2, RecordFields, LongHere
<1>6. Len(g) \in Nat /\ a \in Seq(Octet)
    BY <1>1
<1>7. f \in Seq(Octet)
    BY <1>2, <1>6, NumberTyped
<1>8. a \o b \o c \o e \o f \o g \in Seq(Octet)
    BY <1>3, <1>4, <1>5, <1>6, <1>7
<1>9. RecordBytes(a, r, g) \in Seq(Octet)
    BY <1>2, <1>8 DEF RecordBytes
<1> QED BY <1>1, <1>9, RecordIs

\* A record that lies in a packet is read as it was written, to its end, and
\* the names that are known then are spelled where they are said to be.
LEMMA RecordRead ==
    ASSUME NEW P \in Seq(Octet), Len(P) <= Reach, NEW off \in Nat, NEW r, IsRecord(r),
           NEW comp, CompIs(P, comp, off),
           Holds(P, off, mdns_encode_rr(off, r, comp).bytes)
    PROVE  /\ mdns_parse_rr(P, off) =
                  [len |-> Len(mdns_encode_rr(off, r, comp).bytes), e |-> Legible(r)]
           /\ Len(mdns_encode_rr(off, r, comp).bytes) >= 1
           /\ CompIs(P, mdns_encode_rr(off, r, comp).comp,
                     off + Len(mdns_encode_rr(off, r, comp).bytes))
<1>0. comp \in Comps
    BY DEF CompIs
<1>1. PICK a, g, known, name :
          /\ a \in Seq(Octet) /\ g \in Seq(Octet)
          /\ a = RecordName(off, r, comp).bytes /\ known = RecordName(off, r, comp).comp
          /\ g = RecordData(off, r, comp).bytes /\ name = r.name
    BY <1>0, RecordIs
<1> a \in Seq(Octet) /\ g \in Seq(Octet)
    BY <1>1
<1>2. PICK b, c, e, f, all :
          /\ b = u16(r.type) /\ c = ClassBytes(r) /\ e = u32(r.ttl)
          /\ f = u16(Len(g)) /\ all = RecordBytes(a, r, g)
    OBVIOUS
<1>2a. mdns_encode_rr(off, r, comp) = [bytes |-> all, comp |-> RecordData(off, r, comp).comp]
    BY <1>0, <1>1, <1>2, RecordIs
<1>2b. PICK rr : rr = mdns_encode_rr(off, r, comp)
    OBVIOUS
<1>2c. Holds(P, off, rr.bytes)
    BY <1>2b
<1>3. IsName(name) /\ IsShort(r.type) /\ IsLong(r.ttl) /\ r.cache_flush \in BOOLEAN
    BY <1>1, RecordFields
<1>4. b \in Seq(Octet) /\ Len(b) = 2
    BY <1>2, <1>3, NumberBytes
<1>5. c \in Seq(Octet) /\ Len(c) = 2 /\ (c[1] >= 128) = r.cache_flush
    BY <1>2, RecordFields
<1>6. e \in Seq(Octet) /\ Len(e) = 4
    BY <1>2, <1>3, LongHere
<1>7. g \in Seq(Octet) /\ Len(g) \in Nat
    OBVIOUS
<1>8. f \in Seq(Octet) /\ Len(f) = 2
    BY <1>2, <1>7, NumberTyped
<1>9. Holds(P, off, all)
    BY <1>2a, <1>2b, <1>2c
<1>10. /\ Len(all) = Len(a) + 10 + Len(g)
       /\ Holds(P, off, a) /\ Holds(P, off + Len(a), b)
       /\ Holds(P, off + Len(a) + 2, c) /\ Holds(P, off + Len(a) + 4, e)
       /\ Holds(P, off + Len(a) + 8, f) /\ Holds(P, off + Len(a) + 10, g)
  <2>1. all = Run6(a, b, c, e, f, g)
      BY <1>2 DEF RecordBytes, Run6
  <2>0. /\ a \in Seq(Octet) /\ b \in Seq(Octet) /\ c \in Seq(Octet) /\ e \in Seq(Octet)
        /\ f \in Seq(Octet) /\ g \in Seq(Octet) /\ P \in Seq(Octet) /\ off \in Nat
        /\ Len(b) = 2 /\ Len(c) = 2 /\ Len(e) = 4 /\ Len(f) = 2
      BY <1>4, <1>5, <1>6, <1>7, <1>8
  <2>2. Len(all) = Len(a) + 10 + Len(g)
    <3>1. /\ a \in Seq(Octet) /\ b \in Seq(Octet) /\ c \in Seq(Octet) /\ e \in Seq(Octet)
          /\ f \in Seq(Octet) /\ g \in Seq(Octet)
        BY <2>0
    <3>2. Len(all) = Len(a) + Len(b) + Len(c) + Len(e) + Len(f) + Len(g)
        BY ONLY <3>1, <2>1, LengthSix
    <3>3. PICK na \in Nat, ng \in Nat : na = Len(a) /\ ng = Len(g)
        OBVIOUS
    <3>4. Len(all) = na + 2 + 2 + 4 + 2 + ng
        BY <2>0, <3>2, <3>3
    <3>5. na + 2 + 2 + 4 + 2 + ng = na + 10 + ng
        BY <3>3
    <3> QED BY <3>3, <3>4, <3>5
  <2>3. Holds(P, off, a) /\ Holds(P, off + Len(a), b)
      BY ONLY <2>0, <2>1, <1>9, HoldsSix
  <2>4. Holds(P, off + Len(a) + 2, c) /\ Holds(P, off + Len(a) + 4, e)
      BY ONLY <2>0, <2>1, <1>9, HoldsSix
  <2>5. Holds(P, off + Len(a) + 8, f) /\ Holds(P, off + Len(a) + 10, g)
      BY ONLY <2>0, <2>1, <1>9, HoldsSix
  <2> QED BY <2>2, <2>3, <2>4, <2>5
<1>11. /\ uncompress_nlabel(P, off) = name /\ label_len(P, off) = Len(a)
       /\ CompIs(P, known, off + Len(a))
  <2>1. /\ a = mdns_encode_name(off, name, comp).bytes
        /\ known = mdns_encode_name(off, name, comp).comp
      BY <1>1 DEF RecordName
  <2>2. Holds(P, off, mdns_encode_name(off, name, comp).bytes)
      BY <1>10, <2>1
  <2>3. /\ uncompress_nlabel(P, off) = name
        /\ label_len(P, off) = Len(mdns_encode_name(off, name, comp).bytes)
        /\ CompIs(P, mdns_encode_name(off, name, comp).comp,
                  off + Len(mdns_encode_name(off, name, comp).bytes))
      BY <1>3, <2>2, NameWritten
  <2> QED BY <2>1, <2>3
<1>12. PICK at \in Nat, o \in Nat : at = off + Len(a) /\ o = at + 10
  <2>1. Len(a) \in Nat
      OBVIOUS
  <2> QED BY <2>1
<1>13. IsShort(Len(g))
  <2>1. o + Len(g) <= Len(P)
      BY <1>10, <1>12 DEF Holds
  <2>2. Len(P) <= 16384
      BY DEF Reach
  <2> QED BY <1>7, <1>12, <2>1, <2>2 DEF IsShort
<1>14. read_u16(P, at) = r.type /\ read_u16(P, at + 8) = Len(g) /\ read_u32(P, at + 4) = r.ttl
  <2>1. /\ Holds(P, at, u16(r.type)) /\ Holds(P, at + 4, u32(r.ttl))
        /\ Holds(P, at + 8, u16(Len(g)))
      BY <1>2, <1>10, <1>12
  <2>2. at + 4 \in Nat /\ at + 8 \in Nat
      OBVIOUS
  <2>3. read_u16(P, at) = r.type
      BY <1>3, <2>1, NumberHere
  <2>4. read_u16(P, at + 8) = Len(g)
      BY <1>13, <2>1, <2>2, NumberHere
  <2>5. read_u32(P, at + 4) = r.ttl
      BY <1>3, <2>1, <2>2, LongHere
  <2> QED BY <2>3, <2>4, <2>5
<1>15. (P[at + 3] >= 128) = r.cache_flush
  <2>1. Holds(P, at + 2, c)
      BY <1>10, <1>12
  <2>2. 1 \in 1..Len(c)
      BY <1>5
  <2>3. P[at + 2 + 1] = c[1] /\ at + 2 + 1 = at + 3
      BY <2>1, <2>2 DEF Holds
  <2> QED BY <1>5, <2>3
<1>16. /\ ~ParseError(P, o, r.type, Len(g)) /\ ParseData(P, o, r.type, Len(g)) = DataLegible(r)
       /\ Used(P, o, r.type, Len(g)) = Len(g)
       /\ CompIs(P, RecordData(off, r, comp).comp, o + Len(g))
  <2>1. CompIs(P, known, o)
    <3>1. at <= o
        BY <1>12
    <3> QED BY <1>11, <1>12, <3>1, CompLater
  <2>2. o = off + Len(a) + 10
      BY <1>12
  <2>3. /\ RecordData(off, r, comp) = EncodeData(o, r, known)
        /\ g = EncodeData(o, r, known).bytes
      BY <1>1, <2>2 DEF RecordData
  <2>4. Holds(P, o, EncodeData(o, r, known).bytes)
      BY <1>10, <2>2, <2>3
  <2>5. LET dd == EncodeData(o, r, known)
            len == Len(dd.bytes)
        IN /\ ~ParseError(P, o, r.type, len)
           /\ ParseData(P, o, r.type, len) = DataLegible(r)
           /\ Used(P, o, r.type, len) = len
           /\ CompIs(P, dd.comp, o + len)
      BY <2>1, <2>4, DataRead
  <2> QED BY <2>3, <2>5
<1>17. mdns_parse_rr(P, off) = [len |-> Len(all), e |-> Legible(r)]
  <2>1. off <= Len(P) /\ at + 10 + Len(g) <= Len(P)
    <3>1. off + Len(all) <= Len(P) /\ o + Len(g) <= Len(P)
        BY <1>9, <1>10, <1>12 DEF Holds
    <3>2. Len(all) \in Nat /\ Len(P) \in Nat /\ at + 10 = o
        BY <1>7, <1>10, <1>12
    <3> QED BY <3>1, <3>2
  <2>2. off + label_len(P, off) = at
      BY <1>11, <1>12
  <2>3. ~(off > Len(P) \/ at + 10 + Len(g) > Len(P) \/ ParseError(P, at + 10, r.type, Len(g)))
    <3>1. Len(P) \in Nat /\ at + 10 + Len(g) \in Nat
        BY <1>7
    <3> QED BY <1>12, <1>16, <2>1, <3>1
  <2>4. at + 10 + Used(P, at + 10, r.type, Len(g)) - off = Len(all)
    <3>1. at + 10 + Len(g) - off = Len(a) + 10 + Len(g)
        BY <1>7, <1>12
    <3> QED BY <1>10, <1>12, <1>16, <3>1
  <2>5. mdns_parse_rr(P, off) =
            [len |-> Len(all),
             e |-> [name |-> name, type |-> r.type, ttl |-> r.ttl,
                    cache_flush |-> r.cache_flush, data |-> DataLegible(r)]]
    <3>1. mdns_parse_rr(P, off) =
              [len |-> at + 10 + Used(P, at + 10, read_u16(P, at), read_u16(P, at + 8)) - off,
               e |-> [name |-> uncompress_nlabel(P, off), type |-> read_u16(P, at),
                      ttl |-> read_u32(P, at + 4), cache_flush |-> P[at + 3] >= 128,
                      data |-> ParseData(P, at + 10, read_u16(P, at), read_u16(P, at + 8))]]
      <4>1. ~(\/ off > Len(P) \/ at + 10 + read_u16(P, at + 8) > Len(P)
              \/ ParseError(P, at + 10, read_u16(P, at), read_u16(P, at + 8)))
          BY <1>14, <2>3
      <4> QED BY <2>2, <4>1, Zenon DEF mdns_parse_rr, RecordAt
    <3> QED BY <1>11, <1>12, <1>14, <1>15, <1>16, <2>4, <3>1
  <2>6. Legible(r) = [name |-> name, type |-> r.type, ttl |-> r.ttl,
                      cache_flush |-> r.cache_flush, data |-> DataLegible(r)]
    <3>1. r = [name |-> r.name, type |-> r.type, ttl |-> r.ttl,
               cache_flush |-> r.cache_flush, data |-> r.data]
        BY DEF IsRecord
    <3>2. [r EXCEPT !.data = <<>>] =
              [name |-> r.name, type |-> r.type, ttl |-> r.ttl,
               cache_flush |-> r.cache_flush, data |-> <<>>]
        BY <3>1
    <3> QED BY <1>1, <3>1, <3>2 DEF Legible, DataLegible
  <2> QED BY <2>5, <2>6
<1>18. Len(all) >= 1 /\ off + Len(all) = o + Len(g)
    BY <1>7, <1>10, <1>12
<1> QED BY <1>2a, <1>16, <1>17, <1>18

\* What is appended for a record.
Grown(p, r) == [bytes |-> p.bytes \o mdns_encode_rr(Len(p.bytes), r, p.comp).bytes,
                comp |-> mdns_encode_rr(Len(p.bytes), r, p.comp).comp]
PacketSet == [bytes : Seq(Octet), comp : Comps]

\* A packet that a record is added to has a packet's shape.
LEMMA GrownTyped ==
    ASSUME NEW p \in PacketSet, NEW r, IsRecord(r)
    PROVE  /\ Grown(p, r) \in PacketSet
           /\ Len(Grown(p, r).bytes) =
                  Len(p.bytes) + Len(mdns_encode_rr(Len(p.bytes), r, p.comp).bytes)
<1>1. PICK b \in Seq(Octet), comp \in Comps : b = p.bytes /\ comp = p.comp
    BY DEF PacketSet
<1>2. Len(b) \in Nat
    OBVIOUS
<1>3. PICK rr : rr = mdns_encode_rr(Len(b), r, comp)
    OBVIOUS
<1>4. rr.bytes \in Seq(Octet) /\ rr.comp \in Comps
    BY <1>2, <1>3, RecordTyped
<1>5. b \o rr.bytes \in Seq(Octet) /\ Len(b \o rr.bytes) = Len(b) + Len(rr.bytes)
    BY <1>4, Cat
<1>6. Grown(p, r) = [bytes |-> b \o rr.bytes, comp |-> rr.comp]
    BY <1>1, <1>3 DEF Grown
<1> QED BY <1>1, <1>3, <1>4, <1>5, <1>6 DEF PacketSet

\* The packet after each record.
LEMMA PacketsAre ==
    ASSUME NEW header \in Seq(Octet), NEW n \in Nat, NEW records, Len(records) = n,
           \A j \in 1..n : IsRecord(records[j])
    PROVE  /\ Encoded(header, records) \in [0..n -> PacketSet]
           /\ Encoded(header, records)[0] = [bytes |-> header, comp |-> <<>>]
           /\ \A j \in 1..n :
                  Encoded(header, records)[j] = Grown(Encoded(header, records)[j - 1], records[j])
<1> DEFINE base == [bytes |-> header, comp |-> <<>>]
           F(f) == [j \in 0..n |-> IF j = 0 THEN base ELSE Grown(f[j - 1], records[j])]
           step == [j \in 1..n |-> [p \in PacketSet |-> Grown(p, records[j])]]
<1> HIDE DEF F, step, base
<1>1. base \in PacketSet
  <2>1. <<>> \in Comps
    <3>1. DOMAIN <<>> \subseteq Seq(Seq(Octet)) /\ <<>> \in [DOMAIN <<>> -> Nat]
        OBVIOUS
    <3> QED BY <3>1, CompsAre
  <2> QED BY <2>1 DEF base, PacketSet
<1>2. step \in [1..n -> [PacketSet -> PacketSet]]
    BY GrownTyped DEF step
<1>3. PICK f \in [0..n -> PacketSet] : Turns(f, n, base, step)
    BY <1>1, <1>2, Recursion
<1>4. f[0] = base /\ \A j \in 1..n : f[j] = step[j][f[j - 1]]
    BY <1>3 DEF Turns
<1>5. f = F(f)
  <2>1. \A j \in 1..n : f[j - 1] \in PacketSet
    <3>1. \A j \in 1..n : j - 1 \in 0..n
        OBVIOUS
    <3> QED BY <3>1
  <2>2. \A j \in 1..n : f[j] = Grown(f[j - 1], records[j])
      BY <1>4, <2>1 DEF step
  <2>3. f = [j \in 0..n |-> f[j]]
      OBVIOUS
  <2>4. \A j \in 0..n : j = 0 \/ j \in 1..n
      OBVIOUS
  <2>5. \A j \in 0..n : f[j] = IF j = 0 THEN base ELSE Grown(f[j - 1], records[j])
      BY <1>4, <2>2, <2>4
  <2> QED BY <2>3, <2>5 DEF F
<1> DEFINE packet == Encoded(header, records)
<1>6. packet = CHOOSE g : g = F(g)
    BY DEF Encoded, F, Grown, base
<1>7. packet = F(packet)
    BY <1>5, <1>6
<1> HIDE DEF packet
<1>8. packet[0] = base /\ \A j \in 1..n : packet[j] = Grown(packet[j - 1], records[j])
  <2>1. \A j \in 0..n : packet[j] = F(packet)[j]
      BY <1>7, Zenon
  <2>2. 0 \in 0..n /\ \A j \in 1..n : j \in 0..n /\ j # 0
      OBVIOUS
  <2> QED BY <2>1, <2>2 DEF F
<1>9. \A j \in 0..n : packet[j] \in PacketSet
  <2> DEFINE S == {j \in 0..n : packet[j] \in PacketSet}
  <2>1. 0 \in S
      BY <1>1, <1>8
  <2>2. ASSUME NEW j \in 1..n, j - 1 \in S PROVE j \in S
    <3>1. packet[j - 1] \in PacketSet /\ j \in 0..n
        BY <2>2
    <3>2. packet[j] \in PacketSet
        BY <3>1, <1>8, GrownTyped
    <3> QED BY <3>1, <3>2
  <2> HIDE DEF S
  <2>3. 0..n \subseteq S
      BY <2>1, <2>2, UpTo
  <2> QED BY <2>3 DEF S
<1>10. packet \in [0..n -> PacketSet]
    BY <1>7, <1>9 DEF F
<1> QED BY <1>8, <1>10 DEF packet, base

\* The bytes that lie in a packet lie there when more have been added.
LEMMA PacketsHeld ==
    ASSUME NEW header \in Seq(Octet), NEW n \in Nat, NEW records, Len(records) = n,
           \A j \in 1..n : IsRecord(records[j]),
           NEW packet, packet = Encoded(header, records),
           NEW P, P = packet[n].bytes
    PROVE  /\ P \in Seq(Octet)
           /\ \A j \in 0..n : Holds(P, 0, packet[j].bytes)
           /\ \A j \in 1..n :
                  Holds(P, Len(packet[j - 1].bytes),
                        mdns_encode_rr(Len(packet[j - 1].bytes), records[j], packet[j - 1].comp).bytes)
<1>1. /\ packet \in [0..n -> PacketSet] /\ packet[0] = [bytes |-> header, comp |-> <<>>]
      /\ \A j \in 1..n : packet[j] = Grown(packet[j - 1], records[j])
    BY PacketsAre
<1>2. \A j \in 0..n : packet[j].bytes \in Seq(Octet) /\ packet[j].comp \in Comps
    BY <1>1 DEF PacketSet
<1>3. P \in Seq(Octet)
    BY <1>2
<1>4. ASSUME NEW j \in 1..n, Holds(P, 0, packet[j].bytes)
      PROVE  /\ Holds(P, 0, packet[j - 1].bytes)
             /\ Holds(P, Len(packet[j - 1].bytes),
                      mdns_encode_rr(Len(packet[j - 1].bytes), records[j], packet[j - 1].comp).bytes)
  <2>1. j - 1 \in 0..n
      OBVIOUS
  <2>2. PICK a \in Seq(Octet), comp \in Comps : a = packet[j - 1].bytes /\ comp = packet[j - 1].comp
      BY <1>2, <2>1
  <2>3. Len(a) \in Nat
      OBVIOUS
  <2>4. PICK b : b = mdns_encode_rr(Len(a), records[j], comp).bytes
      OBVIOUS
  <2>5. b \in Seq(Octet)
      BY <2>3, <2>4, RecordTyped
  <2>6. Holds(P, 0, a \o b)
    <3>1. packet[j] = Grown(packet[j - 1], records[j])
        BY <1>1
    <3>2. packet[j].bytes = a \o b
      <4>1. PICK p, r : p = packet[j - 1] /\ r = records[j]
          OBVIOUS
      <4>2. Grown(p, r).bytes = p.bytes \o mdns_encode_rr(Len(p.bytes), r, p.comp).bytes
          BY DEF Grown
      <4>3. p.bytes = a /\ p.comp = comp /\ b = mdns_encode_rr(Len(a), r, comp).bytes
          BY <2>2, <2>4, <4>1
      <4> QED BY ONLY <3>1, <4>1, <4>2, <4>3, Zenon
    <3>3. Holds(P, 0, packet[j].bytes)
        BY <1>4
    <3> QED BY <3>2, <3>3
  <2>7. Holds(P, 0, a) /\ Holds(P, 0 + Len(a), b)
      BY <1>3, <2>5, <2>6, HoldsCat
  <2> QED BY <2>2, <2>3, <2>4, <2>7
<1>5. \A j \in 0..n : Holds(P, 0, packet[j].bytes)
  <2> DEFINE S == {j \in 0..n : Holds(P, 0, packet[n - j].bytes)}
  <2>1. 0 \in S
    <3>1. Holds(P, 0, P)
      <4>1. 0 + Len(P) <= Len(P) /\ \A i \in 1..Len(P) : 0 + i = i
          BY <1>3
      <4> QED BY <4>1 DEF Holds
    <3> QED BY <3>1
  <2>2. ASSUME NEW j \in 1..n, j - 1 \in S PROVE j \in S
    <3>1. n - (j - 1) \in 1..n /\ n - (j - 1) - 1 = n - j
        OBVIOUS
    <3>2. Holds(P, 0, packet[n - (j - 1)].bytes)
        BY <2>2
    <3>3. Holds(P, 0, packet[n - j].bytes)
        BY <1>4, <3>1, <3>2
    <3> QED BY <3>3
  <2> HIDE DEF S
  <2>3. 0..n \subseteq S
      BY <2>1, <2>2, UpTo
  <2>4. ASSUME NEW j \in 0..n PROVE Holds(P, 0, packet[j].bytes)
    <3>1. n - j \in 0..n /\ n - (n - j) = j
        OBVIOUS
    <3>2. n - j \in S
        BY <2>3, <3>1
    <3> QED BY <3>1, <3>2 DEF S
  <2> QED BY <2>4
<1>6. \A j \in 1..n : Holds(P, 0, packet[j].bytes)
  <2>1. \A j \in 1..n : j \in 0..n
      OBVIOUS
  <2> QED BY <1>5, <2>1
<1> QED BY <1>3, <1>4, <1>5, <1>6

\* A record is read where it was appended: it says the same and ends there.
ReadThere(P, packet, records, j) ==
    /\ mdns_parse_rr(P, Len(packet[j - 1].bytes)).e = Legible(records[j])
    /\ mdns_parse_rr(P, Len(packet[j - 1].bytes)).len \in Nat \ {0}
    /\ Len(packet[j - 1].bytes) + mdns_parse_rr(P, Len(packet[j - 1].bytes)).len = Len(packet[j].bytes)

\* Each record is read where it was appended, and the next begins behind it.
LEMMA RecordsRead ==
    ASSUME NEW header \in Seq(Octet), NEW n \in Nat, NEW records, Len(records) = n,
           \A j \in 1..n : IsRecord(records[j]),
           NEW packet, packet = Encoded(header, records),
           NEW P, P = packet[n].bytes, Len(P) <= Reach
    PROVE  \A j \in 1..n : ReadThere(P, packet, records, j)
<1>1. /\ packet \in [0..n -> PacketSet] /\ packet[0] = [bytes |-> header, comp |-> <<>>]
      /\ \A j \in 1..n : packet[j] = Grown(packet[j - 1], records[j])
    BY PacketsAre
<1>2. /\ P \in Seq(Octet)
      /\ \A j \in 1..n :
             Holds(P, Len(packet[j - 1].bytes),
                   mdns_encode_rr(Len(packet[j - 1].bytes), records[j], packet[j - 1].comp).bytes)
    BY PacketsHeld
<1>3. \A j \in 0..n : /\ packet[j] \in PacketSet /\ packet[j].bytes \in Seq(Octet)
                      /\ packet[j].comp \in Comps
    BY <1>1 DEF PacketSet
<1>4. ASSUME NEW j \in 1..n, CompIs(P, packet[j - 1].comp, Len(packet[j - 1].bytes))
      PROVE  /\ mdns_parse_rr(P, Len(packet[j - 1].bytes)).e = Legible(records[j])
             /\ mdns_parse_rr(P, Len(packet[j - 1].bytes)).len \in Nat \ {0}
             /\ Len(packet[j - 1].bytes) + mdns_parse_rr(P, Len(packet[j - 1].bytes)).len =
                    Len(packet[j].bytes)
             /\ CompIs(P, packet[j].comp, Len(packet[j].bytes))
  <2>1. j - 1 \in 0..n
      OBVIOUS
  <2>2. PICK a \in Seq(Octet), comp \in Comps : a = packet[j - 1].bytes /\ comp = packet[j - 1].comp
      BY <1>3, <2>1
  <2>3. PICK o \in Nat : o = Len(a)
      OBVIOUS
  <2>4. PICK r : r = records[j]
      OBVIOUS
  <2>5. PICK rr : rr = mdns_encode_rr(o, r, comp)
      OBVIOUS
  <2>6. IsRecord(r) /\ CompIs(P, comp, o) /\ Holds(P, o, mdns_encode_rr(o, r, comp).bytes)
      BY <1>2, <1>4, <2>2, <2>3, <2>4
  <2>7. /\ mdns_parse_rr(P, o) =
               [len |-> Len(mdns_encode_rr(o, r, comp).bytes), e |-> Legible(r)]
        /\ Len(mdns_encode_rr(o, r, comp).bytes) >= 1
        /\ CompIs(P, mdns_encode_rr(o, r, comp).comp,
                  o + Len(mdns_encode_rr(o, r, comp).bytes))
      BY <1>2, <2>6, RecordRead
  <2>8. rr.bytes \in Seq(Octet)
      BY <2>5, <2>6, RecordTyped
  <2>9. Len(rr.bytes) \in Nat \ {0}
    <3>1. Len(rr.bytes) \in Nat
        BY <2>8
    <3> QED BY <2>5, <2>7, <3>1
  <2>10. packet[j].comp = rr.comp /\ Len(packet[j].bytes) = o + Len(rr.bytes)
    <3>1. packet[j] = Grown(packet[j - 1], r)
        BY <1>1, <2>4
    <3>2. packet[j].comp = rr.comp
        BY <2>2, <2>3, <2>5, <3>1 DEF Grown
    <3>3. Len(packet[j].bytes) = Len(a) + Len(rr.bytes)
        BY <1>3, <2>1, <2>2, <2>3, <2>5, <2>6, <3>1, GrownTyped
    <3> QED BY <2>3, <3>2, <3>3
  <2>11. mdns_parse_rr(P, o) = [len |-> Len(rr.bytes), e |-> Legible(r)]
      BY <2>5, <2>7
  <2>12. CompIs(P, rr.comp, o + Len(rr.bytes))
      BY <2>5, <2>7
  <2>13. /\ mdns_parse_rr(P, o).e = Legible(r) /\ mdns_parse_rr(P, o).len \in Nat \ {0}
         /\ o + mdns_parse_rr(P, o).len = Len(packet[j].bytes)
      BY <2>9, <2>10, <2>11
  <2>14. o = Len(packet[j - 1].bytes)
      BY <2>2, <2>3
  <2> QED BY <2>4, <2>10, <2>12, <2>13, <2>14
<1>5. \A j \in 0..n : CompIs(P, packet[j].comp, Len(packet[j].bytes))
  <2> DEFINE S == {j \in 0..n : CompIs(P, packet[j].comp, Len(packet[j].bytes))}
  <2>1. 0 \in S
    <3>1. packet[0].comp \in Comps /\ DOMAIN packet[0].comp = {}
        BY <1>1, <1>3
    <3>2. CompIs(P, packet[0].comp, Len(packet[0].bytes))
        BY <3>1 DEF CompIs
    <3> QED BY <3>2
  <2>2. ASSUME NEW j \in 1..n, j - 1 \in S PROVE j \in S
    <3>1. CompIs(P, packet[j - 1].comp, Len(packet[j - 1].bytes)) /\ j \in 0..n
        BY <2>2
    <3>2. CompIs(P, packet[j].comp, Len(packet[j].bytes))
        BY <1>4, <3>1
    <3> QED BY <3>1, <3>2
  <2> HIDE DEF S
  <2>3. 0..n \subseteq S
      BY <2>1, <2>2, UpTo
  <2> QED BY <2>3 DEF S
<1>6. \A j \in 1..n : j - 1 \in 0..n
    OBVIOUS
<1> QED BY <1>4, <1>5, <1>6 DEF ReadThere

\* What one turn of the parser's loop over questions or records does.
ParseTurn(P, p, question) ==
    ParsedOne(p, IF question THEN mdns_parse_qn(P, p.next) ELSE mdns_parse_rr(P, p.next))

ParseTurns(w, P, off, m, question) ==
    /\ w[0] = [ok |-> TRUE, list |-> <<>>, next |-> off]
    /\ \A j \in 1..m : w[j] = ParseTurn(P, w[j - 1], question)

\* The loop's turns lead to its result.
LEMMA ParseManyIs ==
    ASSUME NEW P, NEW off, NEW m \in Nat, NEW question, NEW w,
           ParseTurns(w, P, off, m, question)
    PROVE  ParseMany(P, off, m, question) = w[m]
<1> USE DEF ParseTurns
<1> DEFINE base == [ok |-> TRUE, list |-> <<>>, next |-> off]
           F(f) == [j \in 0..m |-> IF j = 0 THEN base ELSE ParseTurn(P, f[j - 1], question)]
           f == [j \in 0..m |-> w[j]]
           g == CHOOSE h : h = F(h)
<1>1. ParseMany(P, off, m, question) = g[m]
    BY DEF ParseMany, ParseTurn
<1> HIDE DEF base, F
<1>2. f = F(f)
  <2>1. \A j \in 1..m : j - 1 \in 0..m
      OBVIOUS
  <2>2. \A j \in 1..m : f[j] = ParseTurn(P, f[j - 1], question)
      BY <2>1
  <2>3. f[0] = base
      BY DEF base
  <2>4. \A j \in 0..m : j = 0 \/ j \in 1..m
      OBVIOUS
  <2> HIDE DEF f
  <2>5. \A j \in 0..m : f[j] = IF j = 0 THEN base ELSE ParseTurn(P, f[j - 1], question)
      BY <2>2, <2>3, <2>4
  <2>6. f = [j \in 0..m |-> f[j]]
      BY DEF f
  <2> QED BY <2>5, <2>6 DEF F
<1>3. g = F(g)
    BY <1>2
<1> HIDE DEF f, g
<1>4. g[0] = w[0] /\ \A j \in 1..m : g[j] = ParseTurn(P, g[j - 1], question)
  <2>1. \A j \in 0..m : g[j] = F(g)[j]
      BY <1>3, Zenon
  <2>2. 0 \in 0..m /\ \A j \in 1..m : j \in 0..m /\ j # 0
      OBVIOUS
  <2> QED BY <2>1, <2>2 DEF F, base
<1>5. m \in {j \in 0..m : g[j] = w[j]}
  <2> DEFINE S == {j \in 0..m : g[j] = w[j]}
  <2>1. 0 \in S
      BY <1>4
  <2>2. ASSUME NEW j \in 1..m, j - 1 \in S PROVE j \in S
    <3>1. g[j - 1] = w[j - 1] /\ j \in 0..m
        BY <2>2
    <3>2. g[j] = w[j]
        BY <1>4, <3>1
    <3> QED BY <3>1, <3>2
  <2>3. m \in 0..m
      OBVIOUS
  <2> HIDE DEF S
  <2>4. 0..m \subseteq S
      BY <2>1, <2>2, UpTo
  <2>5. m \in S
      BY <2>3, <2>4
  <2> QED BY <2>5 DEF S
<1> QED BY <1>1, <1>5

\* The header: twelve bytes, four of whose numbers are read.
LEMMA HeaderRead ==
    ASSUME NEW sent, IsShort(sent.id), IsShort(sent.flags),
           Len(sent.ans) \in Nat, Len(sent.add) \in Nat
    PROVE  /\ Header(sent) \in Seq(Octet) /\ Len(Header(sent)) = 12
           /\ \A P \in Seq(Octet) :
                  Holds(P, 0, Header(sent)) /\ IsShort(Len(sent.ans)) =>
                      /\ read_u16(P, 0) = sent.id /\ read_u16(P, 2) = sent.flags
                      /\ read_u16(P, 4) = 0 /\ read_u16(P, 6) = Len(sent.ans)
<1>1. PICK a, b, c, d, e : /\ a = u16(sent.id) /\ b = u16(sent.flags) /\ c = u16(0)
                           /\ d = u16(Len(sent.ans)) /\ e = u16(Len(sent.add))
    OBVIOUS
<1>2. /\ a \in Seq(Octet) /\ b \in Seq(Octet) /\ c \in Seq(Octet)
      /\ d \in Seq(Octet) /\ e \in Seq(Octet)
      /\ Len(a) = 2 /\ Len(b) = 2 /\ Len(c) = 2 /\ Len(d) = 2 /\ Len(e) = 2
  <2>1. a \in Seq(Octet) /\ Len(a) = 2
      BY <1>1, NumberBytes
  <2>2. b \in Seq(Octet) /\ Len(b) = 2
      BY <1>1, NumberBytes
  <2>3. c \in Seq(Octet) /\ Len(c) = 2
      BY <1>1, NumberTyped
  <2>4. d \in Seq(Octet) /\ Len(d) = 2
      BY <1>1, NumberTyped
  <2>5. e \in Seq(Octet) /\ Len(e) = 2
      BY <1>1, NumberTyped
  <2> QED BY <2>1, <2>2, <2>3, <2>4, <2>5
<1>3. /\ a \in Seq(Octet) /\ b \in Seq(Octet) /\ c \in Seq(Octet)
      /\ d \in Seq(Octet) /\ e \in Seq(Octet)
    BY <1>2
<1>4. PICK h : h = Run6(a, b, c, d, c, e)
    OBVIOUS
<1>5. h = Header(sent)
    BY <1>1, <1>4 DEF Header, Run6
<1>6. Len(h) = 12
  <2>1. Len(h) = Len(a) + Len(b) + Len(c) + Len(d) + Len(c) + Len(e)
      BY ONLY <1>3, <1>4, LengthSix
  <2>2. Len(h) = 2 + 2 + 2 + 2 + 2 + 2
      BY <1>2, <2>1
  <2> QED BY <2>2
<1>7. h \in Seq(Octet)
    BY <1>3, <1>4 DEF Run6
<1>8. ASSUME NEW P \in Seq(Octet), Holds(P, 0, h), IsShort(Len(sent.ans))
      PROVE  /\ read_u16(P, 0) = sent.id /\ read_u16(P, 2) = sent.flags
             /\ read_u16(P, 4) = 0 /\ read_u16(P, 6) = Len(sent.ans)
  <2>1. PICK x, y : x = Run3(a, b, c) /\ y = Run3(x, d, c)
      OBVIOUS
  <2>2. x \in Seq(Octet) /\ y \in Seq(Octet)
      BY <1>3, <2>1 DEF Run3
  <2>3. h = y \o e
      BY <1>4, <2>1 DEF Run3, Run6
  <2>4. Holds(P, 0, y)
      BY <1>3, <1>8, <2>2, <2>3, HoldsCat
  <2>5. 0 \in Nat
      OBVIOUS
  <2>6. Holds(P, 0, x) /\ Holds(P, 0 + Len(x), d)
      BY ONLY <1>3, <1>8, <2>1, <2>2, <2>4, <2>5, HoldsThree
  <2>7. Holds(P, 0, a) /\ Holds(P, 0 + Len(a), b) /\ Holds(P, 0 + Len(a) + Len(b), c)
      BY ONLY <1>3, <1>8, <2>1, <2>5, <2>6, HoldsThree
  <2>8. Len(x) = Len(a) + Len(b) + Len(c)
      BY ONLY <1>3, <2>1, <1>8, <2>5, HoldsThree
  <2>9. /\ 0 + Len(a) = 2 /\ 0 + Len(a) + Len(b) = 4 /\ 0 + Len(x) = 6
      BY <1>2, <2>8
  <2>10. /\ Holds(P, 0, u16(sent.id)) /\ Holds(P, 2, u16(sent.flags))
         /\ Holds(P, 4, u16(0)) /\ Holds(P, 6, u16(Len(sent.ans)))
      BY <1>1, <2>6, <2>7, <2>9
  <2>11. IsShort(0) /\ 2 \in Nat /\ 4 \in Nat /\ 6 \in Nat
      BY DEF IsShort
  <2>12. read_u16(P, 0) = sent.id
      BY <2>5, <2>10, NumberHere
  <2>13. read_u16(P, 2) = sent.flags
      BY <2>10, <2>11, NumberHere
  <2>14. read_u16(P, 4) = 0
      BY <2>10, <2>11, NumberHere
  <2>15. read_u16(P, 6) = Len(sent.ans)
      BY <1>8, <2>10, <2>11, NumberHere
  <2> QED BY <2>12, <2>13, <2>14, <2>15
<1> QED BY <1>5, <1>6, <1>7, <1>8

\* Two lists, one behind the other.
LEMMA Joined ==
    ASSUME NEW T, NEW a \in Seq(T), NEW b \in Seq(T)
    PROVE  \E ab \in Seq(T) : /\ ab = a \o b /\ Len(ab) = Len(a) + Len(b)
                             /\ \A j \in 1..Len(a) : ab[j] = a[j]
<1>1. a \o b \in Seq(T) /\ Len(a \o b) = Len(a) + Len(b)
    OBVIOUS
<1>2. \A j \in 1..Len(a) : (a \o b)[j] = a[j]
    OBVIOUS
<1> QED BY <1>1, <1>2

\* A list with one more element.
LEMMA AppendIs ==
    ASSUME NEW T, NEW a \in Seq(T), NEW v \in T
    PROVE  Append(a, v) = [i \in 1..Len(a) + 1 |-> IF i = Len(a) + 1 THEN v ELSE a[i]]
<1>1. PICK n \in Nat : n = Len(a)
    OBVIOUS
<1>2. PICK x : x = Append(a, v)
    OBVIOUS
<1>3. x \in Seq(T) /\ Len(x) = n + 1 /\ x[n + 1] = v /\ \A i \in 1..n : x[i] = a[i]
    BY <1>1, <1>2, AppendProperties
<1>4. \A y \in Seq(T) : y = [i \in 1..Len(y) |-> y[i]]
    OBVIOUS
<1>4a. x = [i \in 1..Len(x) |-> x[i]]
    BY <1>3, <1>4
<1>5. \A i \in 1..n + 1 : x[i] = IF i = n + 1 THEN v ELSE a[i]
    BY <1>3
<1>6. x = [i \in 1..n + 1 |-> IF i = n + 1 THEN v ELSE a[i]]
    BY <1>3, <1>4a, <1>5
<1> QED BY <1>1, <1>2, <1>6

\* A reply that a pointer's bits reach through is read as it was written.
LEMMA ReplyRead ==
    ASSUME NEW sent, IsShort(sent.id), IsShort(sent.flags),
           NEW ans, ans = sent.ans, ans \in Seq(Records), sent.add \in Seq(Records),
           Len(mdns_encode_pkt(sent)) <= Reach
    PROVE  mdns_parse_pkt(mdns_encode_pkt(sent)) =
               [id |-> sent.id, flags |-> sent.flags, qn |-> <<>>,
                ans |-> [i \in DOMAIN ans |-> Legible(ans[i])]]
<1>1. PICK m \in Nat, k \in Nat, add \in Seq(Records) :
          m = Len(ans) /\ add = sent.add /\ k = Len(add)
    OBVIOUS
<1>1a. PICK records \in Seq(Records) :
           /\ records = ans \o add /\ Len(records) = Len(ans) + Len(add)
           /\ \A j \in 1..Len(ans) : records[j] = ans[j]
  <2>1. ans \in Seq(Records) /\ add \in Seq(Records)
      OBVIOUS
  <2> QED BY ONLY <2>1, Joined
<1>2. PICK n, header : n \in Nat /\ n = Len(records) /\ header = Header(sent)
    OBVIOUS
<1> n \in Nat
    BY <1>2
<1>3. n = m + k
    BY <1>1, <1>1a, <1>2
<1>4. \A j \in 1..n : IsRecord(records[j])
    BY <1>2, ReplyAssumption
<1>5. \A j \in 1..m : records[j] = ans[j] /\ j \in 1..n
  <2> TAKE j \in 1..m
  <2>1. records[j] = ans[j]
      BY <1>1, <1>1a
  <2>2. j \in 1..n
      BY <1>3
  <2> QED BY <2>1, <2>2
<1>6. /\ header \in Seq(Octet) /\ Len(header) = 12
      /\ \A P \in Seq(Octet) :
             Holds(P, 0, header) /\ IsShort(m) =>
                 /\ read_u16(P, 0) = sent.id /\ read_u16(P, 2) = sent.flags
                 /\ read_u16(P, 4) = 0 /\ read_u16(P, 6) = m
    BY <1>1, <1>2, HeaderRead
<1>7. PICK packet, P : packet = Encoded(header, records) /\ P = packet[n].bytes
    OBVIOUS
<1>8. P = mdns_encode_pkt(sent) /\ Len(P) <= Reach
    BY <1>1, <1>1a, <1>2, <1>7 DEF mdns_encode_pkt
<1>9. P \in Seq(Octet) /\ \A j \in 0..n : Holds(P, 0, packet[j].bytes)
    BY <1>2, <1>3, <1>4, <1>6, <1>7, PacketsHeld
<1>10. packet[0] = [bytes |-> header, comp |-> <<>>]
    BY <1>2, <1>3, <1>4, <1>6, <1>7, PacketsAre
<1>11. \A j \in 1..n :
           /\ mdns_parse_rr(P, Len(packet[j - 1].bytes)).e = Legible(records[j])
           /\ mdns_parse_rr(P, Len(packet[j - 1].bytes)).len \in Nat \ {0}
           /\ Len(packet[j - 1].bytes) + mdns_parse_rr(P, Len(packet[j - 1].bytes)).len =
                  Len(packet[j].bytes)
  <2>1. \A j \in 1..n : ReadThere(P, packet, records, j)
      BY <1>2, <1>4, <1>6, <1>7, <1>8, RecordsRead
  <2> QED BY <2>1 DEF ReadThere
<1>12. \A j \in 0..n : Len(packet[j].bytes) \in Nat /\ Len(packet[j].bytes) >= 12 + j
  <2> DEFINE S == {j \in 0..n : Len(packet[j].bytes) \in Nat /\ Len(packet[j].bytes) >= 12 + j}
  <2>1. 0 \in S
    <3>1. packet[0].bytes = header /\ 0 \in 0..n
        BY <1>10
    <3>2. Len(packet[0].bytes) = 12
        BY <1>6, <3>1
    <3>3. 12 \in Nat /\ 12 >= 12 + 0
        OBVIOUS
    <3> QED BY <3>1, <3>2, <3>3
  <2>2. ASSUME NEW j \in 1..n, j - 1 \in S PROVE j \in S
    <3>1. PICK x, y, z : /\ x = Len(packet[j - 1].bytes) /\ y = mdns_parse_rr(P, x).len
                         /\ z = Len(packet[j].bytes)
        OBVIOUS
    <3>2. x \in Nat /\ x >= 12 + (j - 1) /\ y \in Nat \ {0} /\ x + y = z
        BY <1>11, <2>2, <3>1
    <3>3. z \in Nat /\ z >= 12 + j /\ j \in 0..n
        BY <1>3, <3>2
    <3> QED BY <3>1, <3>3
  <2> HIDE DEF S
  <2>3. 0..n \subseteq S
      BY <1>3, <2>1, <2>2, UpTo
  <2> QED BY <2>3 DEF S
<1>13. IsShort(m) /\ Len(P) \in Nat /\ Len(P) >= 12
  <2>1. n \in 0..n
      BY <1>3
  <2>2. PICK l : l = Len(P)
      OBVIOUS
  <2>3. l \in Nat /\ l >= 12 + n
      BY <1>7, <1>12, <2>1, <2>2
  <2>4. l <= 16384
      BY <1>8, <2>2 DEF Reach
  <2>5. m <= n
      BY <1>3
  <2>6. m < 65536
      BY <2>3, <2>4, <2>5
  <2>7. l >= 12
      BY <1>3, <2>3
  <2> QED BY <1>1, <2>2, <2>3, <2>6, <2>7 DEF IsShort
<1>14. /\ read_u16(P, 0) = sent.id /\ read_u16(P, 2) = sent.flags
       /\ read_u16(P, 4) = 0 /\ read_u16(P, 6) = m
  <2>1. 0 \in 0..n
      OBVIOUS
  <2>2. Holds(P, 0, header)
      BY <1>9, <1>10, <2>1
  <2> QED BY <1>6, <1>9, <1>13, <2>2
<1>15. PICK yes, no : yes = TRUE /\ no = FALSE
    OBVIOUS
<1>15a. ParseMany(P, 12, 0, yes) = [ok |-> TRUE, list |-> <<>>, next |-> 12]
  <2>1. PICK w : w[0] = [ok |-> TRUE, list |-> <<>>, next |-> 12]
    <3> DEFINE w == [j \in 0..0 |-> [ok |-> TRUE, list |-> <<>>, next |-> 12]]
    <3>1. w[0] = [ok |-> TRUE, list |-> <<>>, next |-> 12]
        OBVIOUS
    <3> QED BY <3>1
  <2>2. 0 \in Nat /\ \A j \in 1..0 : w[j] = ParseTurn(P, w[j - 1], yes)
      OBVIOUS
  <2>3. ParseMany(P, 12, 0, yes) = w[0]
    <3>1. ParseTurns(w, P, 12, 0, yes)
        BY <2>1, <2>2 DEF ParseTurns
    <3> QED BY ONLY <2>2, <3>1, ParseManyIs
  <2> QED BY <2>1, <2>3
<1>16. ParseMany(P, 12, m, no) =
           [ok |-> TRUE, list |-> [i \in 1..m |-> Legible(ans[i])], next |-> Len(packet[m].bytes)]
  <2> DEFINE L(j) == [i \in 1..j |-> Legible(ans[i])]
             w == [j \in 0..m |-> [ok |-> TRUE, list |-> L(j), next |-> Len(packet[j].bytes)]]
  <2>1. w[0] = [ok |-> TRUE, list |-> <<>>, next |-> 12]
    <3>1. L(0) = <<>> /\ 0 \in 0..m
        OBVIOUS
    <3>2. Len(packet[0].bytes) = 12
        BY <1>6, <1>10
    <3> HIDE DEF L
    <3> QED BY <3>1, <3>2
  <2>2. ASSUME NEW j \in 1..m PROVE w[j] = ParseTurn(P, w[j - 1], no)
    <3>1. j \in 1..n /\ j \in 0..m /\ j - 1 \in 0..m /\ records[j] = ans[j]
        BY <1>5
    <3>2. PICK x, one : x = Len(packet[j - 1].bytes) /\ one = mdns_parse_rr(P, x)
        OBVIOUS
    <3>3. one.e = Legible(ans[j]) /\ one.len # 0 /\ x + one.len = Len(packet[j].bytes)
        BY <1>11, <3>1, <3>2
    <3>4. Append(L(j - 1), Legible(ans[j])) = L(j)
      <4> DEFINE T == {Legible(ans[i]) : i \in 1..m}
      <4>1. PICK A, v : A = L(j - 1) /\ v = Legible(ans[j])
          OBVIOUS
      <4>2. A \in Seq(T) /\ Len(A) = j - 1 /\ v \in T
        <5>1. j - 1 \in Nat /\ \A i \in 1..j - 1 : i \in 1..m
            OBVIOUS
        <5>2. \A i \in 1..j - 1 : Legible(ans[i]) \in T
            BY <5>1
        <5>3. v \in T
            BY <4>1
        <5>4. A = [i \in 1..j - 1 |-> Legible(ans[i])]
            BY <4>1
        <5> HIDE DEF T, L
        <5> QED BY <5>1, <5>2, <5>3, <5>4
      <4>3. \A i \in 1..j - 1 : A[i] = Legible(ans[i])
          BY <4>1
      <4>4. L(j) = [i \in 1..j |-> IF i = j THEN v ELSE A[i]]
          BY <4>1, <4>3
      <4> HIDE DEF T, L
      <4>5. Append(A, v) = [i \in 1..Len(A) + 1 |-> IF i = Len(A) + 1 THEN v ELSE A[i]]
          BY <4>2, AppendIs
      <4>6. Len(A) + 1 = j
          BY <4>2
      <4> QED BY <4>1, <4>4, <4>5, <4>6
    <3> HIDE DEF L
    <3>5. w[j - 1] = [ok |-> TRUE, list |-> L(j - 1), next |-> x]
        BY <3>1, <3>2
    <3>6. w[j] = [ok |-> TRUE, list |-> L(j), next |-> Len(packet[j].bytes)]
        BY <3>1
    <3> HIDE DEF w
    <3>7. PICK p : p = w[j - 1]
        OBVIOUS
    <3>8. p.ok = TRUE /\ p.list = L(j - 1) /\ p.next = x
        BY <3>5, <3>7
    <3>9. ParseTurn(P, p, no) =
              IF p.ok /\ mdns_parse_rr(P, p.next).len # 0
              THEN [ok |-> TRUE, list |-> Append(p.list, mdns_parse_rr(P, p.next).e),
                    next |-> p.next + mdns_parse_rr(P, p.next).len]
              ELSE [p EXCEPT !.ok = FALSE]
        BY <1>15 DEF ParseTurn, ParsedOne
    <3>10. mdns_parse_rr(P, p.next) = one
        BY <3>2, <3>8
    <3>11. ParseTurn(P, p, no) =
              [ok |-> TRUE, list |-> Append(L(j - 1), one.e), next |-> x + one.len]
        BY <3>3, <3>8, <3>9, <3>10
    <3> QED BY <3>3, <3>4, <3>6, <3>7, <3>11
  <2> HIDE DEF L
  <2>3. w[m] = [ok |-> TRUE, list |-> L(m), next |-> Len(packet[m].bytes)]
      OBVIOUS
  <2> HIDE DEF w
  <2>3a. \A j \in 1..m : w[j] = ParseTurn(P, w[j - 1], no)
      BY <2>2
  <2>4. ParseMany(P, 12, m, no) = w[m]
    <3>1. ParseTurns(w, P, 12, m, no)
        BY <2>1, <2>3a DEF ParseTurns
    <3> QED BY ONLY <3>1, m \in Nat, ParseManyIs
  <2> QED BY <2>3, <2>4 DEF L
<1>17. DOMAIN ans = 1..m
    BY <1>1
<1>18. mdns_parse_pkt(P) = [id |-> sent.id, flags |-> sent.flags, qn |-> <<>>,
                            ans |-> [i \in 1..m |-> Legible(ans[i])]]
  <2>1. ~(Len(P) < 12)
      BY <1>13
  <2>2. PICK q, a : q = ParseMany(P, 12, 0, yes) /\ a = ParseMany(P, 12, m, no)
      OBVIOUS
  <2>3. q.ok = TRUE /\ q.list = <<>> /\ q.next = 12
      BY <1>15a, <2>2
  <2>4. a.ok = TRUE /\ a.list = [i \in 1..m |-> Legible(ans[i])]
      BY <1>16, <2>2
  <2>5. ParseMany(P, 12, read_u16(P, 4), TRUE) = q
      BY <1>14, <1>15, <2>2
  <2>6. ParseMany(P, q.next, read_u16(P, 6), FALSE) = a
      BY <1>14, <1>15, <2>2, <2>3
  <2>7. mdns_parse_pkt(P) = [id |-> read_u16(P, 0), flags |-> read_u16(P, 2),
                             qn |-> q.list, ans |-> a.list]
      BY <2>1, <2>3, <2>4, <2>5, <2>6 DEF mdns_parse_pkt
  <2> QED BY <1>14, <2>3, <2>4, <2>7
<1> QED BY <1>8, <1>17, <1>18

\* The text that a name's first labels are printed as, each before a dot.
Printed(name) ==
    LET text[j \in 0..Len(name)] ==
            IF j = 0 THEN <<>> ELSE text[j - 1] \o name[j] \o <<Dot>>
    IN text

\* That text grows by a label and a dot.
LEMMA PrintedAre ==
    ASSUME NEW name \in Seq(Seq(Octet)), NEW n \in Nat, n = Len(name)
    PROVE  /\ Printed(name) \in [0..n -> Seq(Octet)] /\ Printed(name)[0] = <<>>
           /\ \A j \in 1..n : Printed(name)[j] = Run3(Printed(name)[j - 1], name[j], <<Dot>>)
<1> DEFINE T == Seq(Octet)
           F(f) == [j \in 0..n |-> IF j = 0 THEN <<>> ELSE Run3(f[j - 1], name[j], <<Dot>>)]
           step == [j \in 1..n |-> [b \in T |-> Run3(b, name[j], <<Dot>>)]]
<1> HIDE DEF F, step
<1>1. <<>> \in T
    OBVIOUS
<1>2. \A j \in 1..n : \A b \in T : Run3(b, name[j], <<Dot>>) \in T
  <2> TAKE j \in 1..n
  <2> TAKE b \in T
  <2>1. Dot \in Octet
      BY DEF Dot, Octet
  <2>1a. <<Dot>> \in T /\ name[j] \in T
      BY <2>1
  <2>2. PICK l \in T, d \in T : l = name[j] /\ d = <<Dot>>
    <3> HIDE DEF T
    <3> QED BY <2>1a
  <2>3. b \o l \o d \in T
      BY <2>2
  <2> QED BY <2>2, <2>3 DEF Run3
<1>3. step \in [1..n -> [T -> T]]
    BY <1>2 DEF step
<1>4. PICK empty : empty = <<>>
    OBVIOUS
<1>5. PICK f \in [0..n -> T] : Turns(f, n, empty, step)
  <2> HIDE DEF T
  <2> QED BY <1>1, <1>3, <1>4, Recursion
<1>6. f[0] = <<>> /\ \A j \in 1..n : f[j] = step[j][f[j - 1]]
    BY <1>4, <1>5 DEF Turns
<1>7. f = F(f)
  <2>1. \A j \in 1..n : f[j - 1] \in T
    <3>1. \A j \in 1..n : j - 1 \in 0..n
        OBVIOUS
    <3> QED BY <3>1
  <2>2. \A j \in 1..n : f[j] = Run3(f[j - 1], name[j], <<Dot>>)
      BY <1>6, <2>1 DEF step
  <2>3. f = [j \in 0..n |-> f[j]]
      OBVIOUS
  <2>4. \A j \in 0..n : j = 0 \/ j \in 1..n
      OBVIOUS
  <2>5. \A j \in 0..n : f[j] = IF j = 0 THEN <<>> ELSE Run3(f[j - 1], name[j], <<Dot>>)
      BY <1>6, <2>2, <2>4
  <2> QED BY <2>3, <2>5 DEF F
<1> DEFINE s == Printed(name)
<1>8. s = CHOOSE g : g = F(g)
    BY DEF Printed, F, Run3
<1>9. s = F(s)
    BY <1>7, <1>8
<1> HIDE DEF s
<1>10. s[0] = <<>> /\ \A j \in 1..n : s[j] = Run3(s[j - 1], name[j], <<Dot>>)
  <2>1. \A j \in 0..n : s[j] = F(s)[j]
      BY <1>9, Zenon
  <2>2. 0 \in 0..n /\ \A j \in 1..n : j \in 0..n /\ j # 0
      OBVIOUS
  <2> QED BY <2>1, <2>2 DEF F
<1>11. \A j \in 0..n : s[j] \in T
  <2> DEFINE S == {j \in 0..n : s[j] \in T}
  <2>1. 0 \in S
    <3>1. s[0] \in T
        BY <1>1, <1>10, Zenon
    <3> QED BY <3>1
  <2>2. ASSUME NEW j \in 1..n, j - 1 \in S PROVE j \in S
    <3>1. s[j - 1] \in T /\ j \in 0..n
        BY <2>2
    <3>2. s[j] \in T
        BY <3>1, <1>2, <1>10
    <3> QED BY <3>1, <3>2
  <2> HIDE DEF S
  <2>3. 0..n \subseteq S
      BY <2>1, <2>2, UpTo
  <2> QED BY <2>3 DEF S
<1>12. s \in [0..n -> T]
    BY <1>9, <1>11 DEF F
<1> QED BY <1>10, <1>12 DEF s

\* Where the labels of a printed name end.
PrintedEnds(t, name, n, end) ==
    /\ end \in [0..n -> Nat] /\ end[0] = 0 /\ Len(t) = end[n]
    /\ \A j \in 1..n : /\ end[j] = end[j - 1] + Len(name[j]) + 1
                       /\ end[j] <= Len(t)
                       /\ Holds(t, end[j - 1], name[j]) /\ t[end[j]] = Dot

\* A printed name is made of its labels, a dot behind each.
LEMMA PrintedIs ==
    ASSUME NEW name \in Seq(Seq(Octet)), NEW n \in Nat, n = Len(name)
    PROVE  \E t, end : t \in Seq(Octet) /\ t = nlabel_to_str(name) /\ PrintedEnds(t, name, n, end)
<1>1. PICK s : s = Printed(name)
    OBVIOUS
<1>2. /\ s \in [0..n -> Seq(Octet)] /\ s[0] = <<>>
      /\ \A j \in 1..n : s[j] = Run3(s[j - 1], name[j], <<Dot>>)
    BY <1>1, PrintedAre
<1>3. PICK t \in Seq(Octet) : t = s[n]
  <2>1. n \in 0..n
      OBVIOUS
  <2> QED BY <1>2, <2>1
<1>4. t = nlabel_to_str(name)
    BY <1>1, <1>3 DEF nlabel_to_str, Printed
<1>5. \A j \in 0..n : s[j] \in Seq(Octet) /\ Len(s[j]) \in Nat
  <2> TAKE j \in 0..n
  <2>1. PICK x \in Seq(Octet) : x = s[j]
      BY <1>2
  <2> QED BY <2>1
<1>6. PICK dot \in Seq(Octet) : dot = <<Dot>> /\ Len(dot) = 1 /\ dot[1] = Dot
  <2>1. Dot \in Octet
      BY DEF Dot, Octet
  <2>2. PICK x : x = <<Dot>>
      OBVIOUS
  <2>3. x \in Seq(Octet) /\ Len(x) = 1 /\ x[1] = Dot
      BY <2>1, <2>2
  <2> QED BY <2>2, <2>3
<1>7. ASSUME NEW j \in 1..n
      PROVE  /\ Len(s[j]) = Len(s[j - 1]) + Len(name[j]) + 1
             /\ Holds(t, 0, s[j]) =>
                    /\ Holds(t, 0, s[j - 1]) /\ Holds(t, Len(s[j - 1]), name[j])
                    /\ Len(s[j]) <= Len(t) /\ t[Len(s[j])] = Dot
  <2>1. j - 1 \in 0..n
      OBVIOUS
  <2>2. PICK a \in Seq(Octet), l \in Seq(Octet) : a = s[j - 1] /\ l = name[j]
      BY <1>5, <2>1
  <2>3. PICK x : x = Run3(a, l, dot)
      OBVIOUS
  <2>4. x = s[j]
      BY <1>2, <1>6, <2>2, <2>3
  <2>5. 0 \in Nat /\ t \in Seq(Octet) /\ a \in Seq(Octet) /\ l \in Seq(Octet) /\ dot \in Seq(Octet)
      OBVIOUS
  <2>6. Len(x) = Len(a) + Len(l) + Len(dot)
      BY ONLY <2>3, <2>5, HoldsThree
  <2>7. PICK p \in Nat, q \in Nat : p = Len(a) /\ q = Len(l)
      OBVIOUS
  <2>8. Len(x) = p + q + 1
      BY <1>6, <2>6, <2>7
  <2>9. ASSUME Holds(t, 0, x)
        PROVE  /\ Holds(t, 0, a) /\ Holds(t, p, l) /\ Len(x) <= Len(t) /\ t[Len(x)] = Dot
    <3>1. Holds(t, 0, a) /\ Holds(t, 0 + Len(a), l) /\ Holds(t, 0 + Len(a) + Len(l), dot)
        BY ONLY <2>3, <2>5, <2>9, HoldsThree
    <3>2. 0 + Len(a) = p /\ 0 + Len(a) + Len(l) = p + q
        BY <2>7
    <3>3. Holds(t, p + q, dot)
        BY <3>1, <3>2
    <3>4. p + q + 1 <= Len(t) /\ 1 \in 1..Len(dot)
        BY <1>6, <3>3 DEF Holds
    <3>5. t[p + q + 1] = dot[1]
        BY <3>3, <3>4 DEF Holds
    <3> QED BY <1>6, <2>8, <3>1, <3>2, <3>4, <3>5
  <2> QED BY <2>2, <2>4, <2>7, <2>8, <2>9
<1>8. \A j \in 0..n : Holds(t, 0, s[j])
  <2> DEFINE S == {j \in 0..n : Holds(t, 0, s[n - j])}
  <2>1. 0 \in S
    <3>1. Holds(t, 0, t)
      <4>1. 0 + Len(t) <= Len(t) /\ \A i \in 1..Len(t) : 0 + i = i
          OBVIOUS
      <4> QED BY <4>1 DEF Holds
    <3> QED BY <1>3, <3>1
  <2>2. ASSUME NEW j \in 1..n, j - 1 \in S PROVE j \in S
    <3>1. n - (j - 1) \in 1..n /\ n - (j - 1) - 1 = n - j
        OBVIOUS
    <3>2. Holds(t, 0, s[n - (j - 1)])
        BY <2>2
    <3>3. Holds(t, 0, s[n - j])
        BY <1>7, <3>1, <3>2
    <3> QED BY <3>3
  <2> HIDE DEF S
  <2>3. 0..n \subseteq S
      BY <2>1, <2>2, UpTo
  <2>4. ASSUME NEW j \in 0..n PROVE Holds(t, 0, s[j])
    <3>1. n - j \in 0..n /\ n - (n - j) = j
        OBVIOUS
    <3>2. n - j \in S
        BY <2>3, <3>1
    <3> QED BY <3>1, <3>2 DEF S
  <2> QED BY <2>4
<1>9. PICK end : end = [j \in 0..n |-> Len(s[j])]
    OBVIOUS
<1>10. end \in [0..n -> Nat] /\ end[0] = 0 /\ Len(t) = end[n]
  <2>1. 0 \in 0..n /\ n \in 0..n /\ Len(<<>>) = 0
      OBVIOUS
  <2> QED BY <1>2, <1>3, <1>5, <1>9, <2>1
<1>11. ASSUME NEW j \in 1..n
       PROVE  /\ end[j] = end[j - 1] + Len(name[j]) + 1
              /\ end[j] <= Len(t)
              /\ Holds(t, end[j - 1], name[j]) /\ t[end[j]] = Dot
  <2>1. j \in 0..n /\ j - 1 \in 0..n
      OBVIOUS
  <2>2. end[j] = Len(s[j]) /\ end[j - 1] = Len(s[j - 1])
      BY <1>9, <2>1
  <2> QED BY <1>7, <1>8, <2>1, <2>2
<1>12. PrintedEnds(t, name, n, end)
    BY <1>10, <1>11 DEF PrintedEnds
<1> QED BY <1>4, <1>12

\* The text without its last dot.
CutEnds(txt, name, n, end) ==
    /\ end \in [0..n -> Nat] /\ end[0] = 0 /\ end[n] = Len(txt) + 1 /\ n <= Len(txt)
    /\ \A j \in 1..n : /\ end[j] = end[j - 1] + Len(name[j]) + 1 /\ end[j] <= Len(txt) + 1
                       /\ Holds(txt, end[j - 1], name[j])
                       /\ j < n => end[j] < Len(txt) /\ txt[end[j]] = Dot

\* It ends with the last label.
LEMMA CutIs ==
    ASSUME NEW name \in Seq(Seq(Octet)), NEW n \in Nat \ {0}, n = Len(name),
           \A j \in 1..n : Len(name[j]) >= 1
    PROVE  \E txt, end :
              /\ txt \in Seq(Octet) /\ txt = Front(nlabel_to_str(name))
              /\ CutEnds(txt, name, n, end)
<1>1. PICK t, end : t \in Seq(Octet) /\ t = nlabel_to_str(name) /\ PrintedEnds(t, name, n, end)
    BY PrintedIs
<1> t \in Seq(Octet)
    BY <1>1
<1>2. /\ end \in [0..n -> Nat] /\ end[0] = 0 /\ Len(t) = end[n]
      /\ \A j \in 1..n : /\ end[j] = end[j - 1] + Len(name[j]) + 1
                         /\ end[j] <= Len(t)
                         /\ Holds(t, end[j - 1], name[j]) /\ t[end[j]] = Dot
    BY <1>1 DEF PrintedEnds
<1>3. \A j \in 1..n : Len(name[j]) \in Nat
  <2> TAKE j \in 1..n
  <2>1. name[j] \in Seq(Octet)
      OBVIOUS
  <2> QED BY <2>1
<1>4. \A j \in 0..n : end[j] >= j + j
  <2> DEFINE S == {j \in 0..n : end[j] >= j + j}
  <2>1. 0 \in S
      BY <1>2
  <2>2. ASSUME NEW j \in 1..n, j - 1 \in S PROVE j \in S
    <3>1. PICK x, y, z : x = end[j - 1] /\ y = Len(name[j]) /\ z = end[j]
        OBVIOUS
    <3>2. x \in Nat /\ y \in Nat /\ y >= 1 /\ x >= (j - 1) + (j - 1) /\ z = x + y + 1
      <4>1. j - 1 \in 0..n
          OBVIOUS
      <4> QED BY <1>2, <1>3, <2>2, <3>1, <4>1
    <3>3. z >= j + j
        BY <3>2
    <3> QED BY <3>1, <3>3
  <2> HIDE DEF S
  <2>3. 0..n \subseteq S
      BY <2>1, <2>2, UpTo
  <2> QED BY <2>3 DEF S
<1>5. PICK m \in Nat : Len(t) = m + 1 /\ m >= n
  <2>1. n \in 0..n
      OBVIOUS
  <2>2. end[n] \in Nat /\ end[n] >= n + n
      BY <1>2, <1>4, <2>1
  <2>3. end[n] - 1 \in Nat /\ end[n] = (end[n] - 1) + 1 /\ end[n] - 1 >= n
      BY <2>2
  <2> QED BY <1>2, <2>3
<1>6. PICK txt : txt = Front(t)
    OBVIOUS
<1>7. txt \in Seq(Octet) /\ Len(txt) = m /\ \A i \in 1..m : txt[i] = t[i]
  <2>1. txt = SubSeq(t, 1, m)
    <3>1. Len(t) - 1 = m
        BY <1>5
    <3> QED BY <1>6, <3>1 DEF Front
  <2>2. 1..m \subseteq 1..Len(t)
      BY <1>5
  <2>3. /\ SubSeq(t, 1, m) \in Seq(Octet) /\ Len(SubSeq(t, 1, m)) = m
        /\ \A i \in 1..m : SubSeq(t, 1, m)[i] = t[i]
    <3>1. SubSeq(t, 1, m) = [i \in 1..m |-> t[i]]
        OBVIOUS
    <3>2. \A i \in 1..m : t[i] \in Octet
        BY <2>2
    <3> QED BY <3>1, <3>2
  <2> QED BY <2>1, <2>3
<1>8. ASSUME NEW j \in 1..n
      PROVE  /\ end[j] <= m + 1 /\ Holds(txt, end[j - 1], name[j])
  <2>1. PICK x, y : x = end[j - 1] /\ y = Len(name[j])
      OBVIOUS
  <2>2. x \in Nat /\ y \in Nat /\ end[j] = x + y + 1
    <3>1. j - 1 \in 0..n
        OBVIOUS
    <3> QED BY <1>2, <1>3, <2>1, <3>1
  <2>3. x + y <= m
      BY <1>2, <1>5, <2>2
  <2>4. \A i \in 1..y : t[x + i] = name[j][i] /\ x + i \in 1..m
    <3> TAKE i \in 1..y
    <3>1. Holds(t, x, name[j])
        BY <1>2, <2>1
    <3>2. t[x + i] = name[j][i]
        BY <2>1, <3>1 DEF Holds
    <3>3. x + i \in 1..m
        BY <2>2, <2>3
    <3> QED BY <3>2, <3>3
  <2>5. Holds(txt, x, name[j])
      BY <1>7, <2>1, <2>3, <2>4 DEF Holds
  <2> QED BY <2>1, <2>2, <2>3, <2>5
<1>9. ASSUME NEW j \in 1..n, j < n PROVE end[j] < m /\ txt[end[j]] = Dot
  <2>1. j + 1 \in 1..n /\ j + 1 - 1 = j /\ j \in 0..n
      BY <1>9
  <2>2. Holds(txt, end[j], name[j + 1])
      BY <1>8, <2>1
  <2>3. end[j] + Len(name[j + 1]) <= m
      BY <1>7, <2>2 DEF Holds
  <2>4. end[j] \in Nat /\ Len(name[j + 1]) \in Nat /\ Len(name[j + 1]) >= 1 /\ end[j] >= j + j
      BY <1>2, <1>3, <1>4, <2>1
  <2>5. end[j] < m /\ end[j] \in 1..m
      BY <2>3, <2>4
  <2> QED BY <1>2, <1>7, <2>5
<1>10. CutEnds(txt, name, n, end)
    BY <1>2, <1>5, <1>7, <1>8, <1>9 DEF CutEnds
<1> QED BY <1>1, <1>6, <1>7, <1>10

\* A place behind another one is that one and the way between them.
LEMMA Reached ==
    ASSUME NEW o \in Nat, NEW l \in Nat, NEW d \in o + 1..o + l
    PROVE  \E i \in 1..l : d = o + i
<1>1. d - o \in 1..l /\ d = o + (d - o)
    OBVIOUS
<1> QED BY <1>1

\* A name whose labels hold no dot is cut from its text at their ends.
LEMMA CutRead ==
    ASSUME NEW name \in Seq(Seq(Octet)), NEW n \in Nat \ {0}, n = Len(name),
           \A j \in 1..n : Len(name[j]) >= 1, Plain(name),
           NEW txt \in Seq(Octet), NEW end, CutEnds(txt, name, n, end)
    PROVE  create_nlabel(txt) = name
<1>1. PICK m \in Nat : m = Len(txt)
    OBVIOUS
<1>2. /\ end \in [0..n -> Nat] /\ end[0] = 0 /\ end[n] = m + 1 /\ n <= m
      /\ \A j \in 1..n : /\ end[j] = end[j - 1] + Len(name[j]) + 1 /\ end[j] <= m + 1
                         /\ Holds(txt, end[j - 1], name[j])
                         /\ j < n => end[j] < m /\ txt[end[j]] = Dot
    BY <1>1 DEF CutEnds
<1>3. \A j \in 1..n : /\ Len(name[j]) \in Nat /\ name[j] \in Seq(Octet)
                      /\ j - 1 \in 0..n /\ j \in 0..n
  <2> TAKE j \in 1..n
  <2>1. name[j] \in Seq(Octet)
      OBVIOUS
  <2> QED BY <2>1
<1>4. \A j \in 0..n - 1 : end[j] \in Nat /\ end[j] <= m
  <2> TAKE j \in 0..n - 1
  <2>1. CASE j = 0
      BY <1>2, <2>1
  <2>2. CASE j # 0
    <3>1. j \in 1..n /\ j < n /\ j \in 0..n
        BY <2>2
    <3>2. end[j] \in Nat /\ end[j] < m
        BY <1>2, <3>1
    <3> QED BY <3>2
  <2> QED BY <2>1, <2>2
<1> DEFINE Cuts(d) == d = m + 1 \/ (d < m /\ txt[d] = Dot)
           Inside(d) == ~(d < m /\ txt[d] = Dot)
<1>5. ASSUME NEW j \in 1..n PROVE NextDot(txt, end[j - 1]) = end[j]
  <2>1. PICK o \in Nat, l \in Nat, e \in Nat :
            o = end[j - 1] /\ l = Len(name[j]) /\ e = end[j] /\ e = o + l + 1 /\ e <= m + 1
    <3>1. end[j - 1] \in Nat /\ end[j] \in Nat /\ Len(name[j]) \in Nat
        BY <1>2, <1>3
    <3>2. end[j] = end[j - 1] + Len(name[j]) + 1 /\ end[j] <= m + 1
        BY <1>2
    <3> QED BY <3>1, <3>2
  <2>2. Cuts(e)
    <3>1. CASE j = n
        BY <1>2, <2>1, <3>1
    <3>2. CASE j # n
      <4>1. j < n
          BY <3>2
      <4> QED BY <1>2, <2>1, <4>1
    <3> QED BY <3>1, <3>2
  <2>3. ASSUME NEW d \in o + 1..e - 1 PROVE txt[d] # Dot
    <3>1. PICK i \in 1..l : d = o + i
      <4>1. d \in o + 1..o + l
          BY <2>1
      <4> QED BY ONLY <4>1, <2>1, Reached
    <3>2. Holds(txt, o, name[j])
        BY <1>2, <2>1
    <3>3. txt[o + i] = name[j][i]
        BY <2>1, <3>2 DEF Holds
    <3>4. name[j][i] # Dot
        BY <2>1 DEF Plain
    <3> QED BY <3>1, <3>3, <3>4
  <2>4. e \in o + 1..m + 1
      BY <2>1
  <2> DEFINE Good(d) == Cuts(d) /\ \A x \in o + 1..d - 1 : Inside(x)
  <2>5. Good(e)
      BY <2>2, <2>3
  <2>6. ASSUME NEW d \in o + 1..m + 1, Good(d) PROVE d = e
    <3>1. ~(d < e)
      <4>1. SUFFICES ASSUME d < e PROVE FALSE
          OBVIOUS
      <4>2. d \in o + 1..e - 1 /\ d # m + 1
          BY <2>1, <4>1
      <4> QED BY <2>3, <2>6, <4>2
    <3>2. ~(e < d)
      <4>1. SUFFICES ASSUME e < d PROVE FALSE
          OBVIOUS
      <4>2. e \in o + 1..d - 1 /\ e # m + 1
          BY <2>1, <2>4, <4>1
      <4>3. Inside(e)
          BY <2>6, <4>2
      <4> QED BY <2>2, <4>2, <4>3
    <3> QED BY <2>1, <3>1, <3>2
  <2>7. NextDot(txt, o) = CHOOSE d \in o + 1..m + 1 : Good(d)
      BY <1>1 DEF NextDot
  <2> HIDE DEF Good
  <2>8. (CHOOSE d \in o + 1..m + 1 : Good(d)) = e
      BY <2>4, <2>5, <2>6
  <2> QED BY <2>1, <2>7, <2>8
<1> HIDE DEF Cuts, Inside
<1> DEFINE F(f) == [j \in 0..m + 1 |->
                        IF j = 0 THEN 0
                        ELSE IF f[j - 1] > m THEN f[j - 1] ELSE NextDot(txt, f[j - 1])]
           w == [j \in 0..m + 1 |-> IF j <= n THEN end[j] ELSE m + 1]
           dot == CHOOSE f : f = F(f)
           Done(k) == dot[k] > m /\ \A j \in 1..k - 1 : dot[j] <= m
           k == CHOOSE i \in 1..m + 1 : Done(i)
<1>6. create_nlabel(txt) = [j \in 1..k |-> SubSeq(txt, dot[j - 1] + 1, dot[j] - 1)]
    BY <1>1 DEF create_nlabel
<1> HIDE DEF F, dot, Done, k
<1>7. w = F(w)
  <2>1. ASSUME NEW j \in 0..m + 1
        PROVE  w[j] = IF j = 0 THEN 0
                      ELSE IF w[j - 1] > m THEN w[j - 1] ELSE NextDot(txt, w[j - 1])
    <3>1. CASE j = 0
        BY <1>2, <3>1
    <3>2. CASE j \in 1..n
      <4>1. j - 1 \in 0..m + 1 /\ j - 1 \in 0..n - 1 /\ j # 0
          BY <3>2
      <4>2. w[j - 1] = end[j - 1] /\ w[j] = end[j]
          BY <3>2, <4>1
      <4>3. ~(end[j - 1] > m)
          BY <1>4, <4>1
      <4> QED BY <1>5, <3>2, <4>1, <4>2, <4>3
    <3>3. CASE j > n
      <4>1. j - 1 \in 0..m + 1 /\ j # 0 /\ w[j] = m + 1
          BY <3>3
      <4>2. w[j - 1] = m + 1
        <5>1. CASE j - 1 = n
            BY <1>2, <4>1, <5>1
        <5>2. CASE j - 1 # n
          <6>1. ~(j - 1 <= n)
              BY <3>3, <5>2
          <6> QED BY <4>1, <6>1
        <5> QED BY <5>1, <5>2
      <4> QED BY <4>1, <4>2
    <3> QED BY <3>1, <3>2, <3>3
  <2>2. w = [j \in 0..m + 1 |-> w[j]]
      OBVIOUS
  <2> HIDE DEF w
  <2> QED BY <2>1, <2>2 DEF F
<1>8. dot = F(dot)
  <2> HIDE DEF w
  <2> QED BY <1>7 DEF dot
<1>9. /\ dot[0] = 0
      /\ \A j \in 1..m + 1 :
             dot[j] = IF dot[j - 1] > m THEN dot[j - 1] ELSE NextDot(txt, dot[j - 1])
  <2>1. \A j \in 0..m + 1 : dot[j] = F(dot)[j]
      BY <1>8, Zenon
  <2>2. 0 \in 0..m + 1 /\ \A j \in 1..m + 1 : j \in 0..m + 1 /\ j # 0
      OBVIOUS
  <2> QED BY <2>1, <2>2 DEF F
<1>10. \A j \in 0..n : dot[j] = end[j]
  <2> DEFINE S == {j \in 0..n : dot[j] = end[j]}
  <2>1. 0 \in S
      BY <1>2, <1>9
  <2>2. ASSUME NEW j \in 1..n, j - 1 \in S PROVE j \in S
    <3>1. j - 1 \in 0..n - 1 /\ j \in 1..m + 1 /\ j \in 0..n
        BY <1>2
    <3>2. dot[j - 1] = end[j - 1] /\ ~(end[j - 1] > m)
        BY <1>4, <2>2, <3>1
    <3>3. dot[j] = end[j]
        BY <1>5, <1>9, <3>1, <3>2
    <3> QED BY <3>1, <3>3
  <2>3. n \in Nat
      OBVIOUS
  <2> HIDE DEF S
  <2>4. 0..n \subseteq S
      BY <2>1, <2>2, <2>3, UpTo
  <2> QED BY <2>4 DEF S
<1>11. k = n
  <2>1. dot[n] = m + 1 /\ \A j \in 1..n - 1 : dot[j] <= m
    <3>1. n \in 0..n /\ \A j \in 1..n - 1 : j \in 0..n - 1 /\ j \in 0..n
        OBVIOUS
    <3> QED BY <1>2, <1>4, <1>10, <3>1
  <2>2. Done(n)
      BY <2>1 DEF Done
  <2>3. n \in 1..m + 1
      BY <1>2
  <2>4. ASSUME NEW i \in 1..m + 1, Done(i) PROVE i = n
    <3>1. ~(i < n)
      <4>1. SUFFICES ASSUME i < n PROVE FALSE
          OBVIOUS
      <4>2. i \in 1..n - 1
          BY <4>1
      <4>3. dot[i] = end[i] /\ end[i] \in Nat /\ end[i] <= m
        <5>1. i \in 0..n /\ i \in 0..n - 1
            BY <4>2
        <5> QED BY <1>4, <1>10, <5>1
      <4>4. dot[i] > m
          BY <2>4 DEF Done
      <4> QED BY <4>3, <4>4
    <3>2. ~(n < i)
      <4>1. SUFFICES ASSUME n < i PROVE FALSE
          OBVIOUS
      <4>2. n \in 1..i - 1
          BY <4>1
      <4>3. dot[n] <= m
          BY <2>4, <4>2 DEF Done
      <4> QED BY <2>1, <4>3
    <3> QED BY <3>1, <3>2
  <2> QED BY <2>2, <2>3, <2>4 DEF k
<1>12. ASSUME NEW j \in 1..n PROVE SubSeq(txt, dot[j - 1] + 1, dot[j] - 1) = name[j]
  <2>1. PICK o \in Nat, l \in Nat : o = end[j - 1] /\ l = Len(name[j]) /\ end[j] = o + l + 1
      BY <1>2, <1>3
  <2>2. dot[j - 1] = o /\ dot[j] - 1 = o + l
    <3>1. dot[j - 1] = o /\ dot[j] = o + l + 1
        BY <1>3, <1>10, <2>1
    <3> QED BY <3>1
  <2>3. Holds(txt, o, name[j])
      BY <1>2, <2>1
  <2>4. SubSeq(txt, o + 1, o + Len(name[j])) = name[j]
      BY <1>3, <2>3, BytesHere
  <2> QED BY <2>1, <2>2, <2>4
<1>13. name = [j \in 1..n |-> name[j]]
    OBVIOUS
<1> QED BY <1>6, <1>11, <1>12, <1>13

\* A reply that records have been added to.
MessageInv ==
    /\ message = [id |-> message.id, flags |-> message.flags,
                  ans |-> message.ans, add |-> message.add]
    /\ IsShort(message.id) /\ IsShort(message.flags)
    /\ message.ans \in Seq(Records) /\ message.add \in Seq(Records)

\* It is one always.
THEOREM MessageInvariant == MessageSpec => []MessageInv
<1>1. ASSUME MessageInit PROVE MessageInv
  <2>1. PICK id \in Ids : message = mdns_init_reply(id)
      BY <1>1 DEF MessageInit
  <2>2. IsShort(id)
      BY ReplyAssumption
  <2>3. IsShort(33792)
      BY DEF IsShort
  <2>4. <<>> \in Seq(Records)
      OBVIOUS
  <2> QED BY <2>1, <2>2, <2>3, <2>4 DEF MessageInv, mdns_init_reply
<1>2. ASSUME MessageInv, [rr_list_append]_message PROVE MessageInv'
  <2>1. CASE UNCHANGED message
      BY <1>2, <2>1 DEF MessageInv
  <2>2. ASSUME NEW r \in Records, message' = [message EXCEPT !.ans = Append(@, r)]
        PROVE  MessageInv'
    <3>1. Append(message.ans, r) \in Seq(Records)
        BY <1>2 DEF MessageInv
    <3> QED BY <1>2, <2>2, <3>1 DEF MessageInv
  <2>3. ASSUME NEW r \in Records, message' = [message EXCEPT !.add = Append(@, r)]
        PROVE  MessageInv'
    <3>1. Append(message.add, r) \in Seq(Records)
        BY <1>2 DEF MessageInv
    <3> QED BY <1>2, <2>3, <3>1 DEF MessageInv
  <2> QED BY <1>2, <2>1, <2>2, <2>3 DEF rr_list_append
<1> QED BY <1>1, <1>2, PTL DEF MessageSpec

\* A name that is printed is made again from its text.
LEMMA NamePrinted ==
    ASSUME NEW name, IsName(name), Plain(name)
    PROVE  create_nlabel(Front(nlabel_to_str(name))) = name
<1>1. name \in Seq(Seq(Octet)) /\ \A j \in 1..Len(name) : Len(name[j]) \in 1..63
    BY NameOctets
<1>2. PICK n \in Nat \ {0} : n = Len(name)
    BY <1>1 DEF IsName
<1>3. \A j \in 1..n : Len(name[j]) >= 1
  <2>1. \A x \in 1..63 : x >= 1
      OBVIOUS
  <2> QED BY <1>1, <1>2, <2>1
<1>4. PICK txt, end :
          /\ txt \in Seq(Octet) /\ txt = Front(nlabel_to_str(name))
          /\ CutEnds(txt, name, n, end)
    BY <1>1, <1>2, <1>3, CutIs
<1> QED BY <1>1, <1>2, <1>3, <1>4, CutRead

\* Whatever records a reply is made of, whichever names they share: the parser
\* reads from its bytes what its records say, as long as a pointer's bits reach
\* any place in them, and its printed names are made again from their text.
THEOREM RepliesSurvive == MessageSpec => []MessagesSurvive
<1>1. ASSUME MessageInv PROVE MessagesSurvive
  <2> USE <1>1 DEF MessageInv
  <2>1. ASSUME Len(mdns_encode_pkt(message)) <= Reach
        PROVE  mdns_parse_pkt(mdns_encode_pkt(message)) =
                   [id |-> message.id, flags |-> message.flags, qn |-> <<>>,
                    ans |-> [i \in DOMAIN message.ans |-> Legible(message.ans[i])]]
    <3>1. PICK sent, ans : sent = message /\ ans = sent.ans
        OBVIOUS
    <3>2. /\ IsShort(sent.id) /\ IsShort(sent.flags)
          /\ ans \in Seq(Records) /\ sent.add \in Seq(Records)
          /\ Len(mdns_encode_pkt(sent)) <= Reach
        BY <2>1, <3>1
    <3>3. mdns_parse_pkt(mdns_encode_pkt(sent)) =
              [id |-> sent.id, flags |-> sent.flags, qn |-> <<>>,
               ans |-> [i \in DOMAIN ans |-> Legible(ans[i])]]
        BY <3>1, <3>2, ReplyRead
    <3> QED BY <3>1, <3>3
  <2>2. ASSUME NEW i \in DOMAIN message.ans, Plain(message.ans[i].name)
        PROVE  create_nlabel(Front(nlabel_to_str(message.ans[i].name))) = message.ans[i].name
    <3>1. PICK r, name : r = message.ans[i] /\ name = r.name
        OBVIOUS
    <3>2. r \in Records
        BY <3>1
    <3>3. IsName(name) /\ Plain(name)
        BY <2>2, <3>1, <3>2, ReplyAssumption, RecordFields
    <3>4. create_nlabel(Front(nlabel_to_str(name))) = name
        BY <3>3, NamePrinted
    <3> QED BY <3>1, <3>4
  <2> QED BY <2>1, <2>2 DEF MessagesSurvive
<1> QED BY <1>1, MessageInvariant, PTL
=============================================================================
