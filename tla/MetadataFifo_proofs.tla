-------------------------- MODULE MetadataFifo_proofs --------------------------
(***************************************************************************)
(* Theorems about MetadataFifo, for every number of conversations, fields  *)
(* and values: types; that conversations which do not overlap use no freed *)
(* field; and that no update is forgotten.  AloneInv says that one that is *)
(* here is alone, that only the field it is about to store is freed, and   *)
(* that it opens the FIFO only while that is closed.  NewsInv accounts for *)
(* every value that was not printed.                                       *)
(***************************************************************************)
EXTENDS MetadataFifo, TLAPS

Alone == \A c, d \in Conns : at[c] # "idle" /\ at[d] # "idle" => c = d
OneFreed ==
    \A f \in Fields : player_meta[f] = Freed =>
        \E c \in Conns : at[c] = "assign" /\ tag[c].field = f
OpensClosed == \A c \in Conns : at[c] = "opening" => ~fd
AloneInv ==
    /\ TypeOK
    /\ ~overlapped => Alone /\ OneFreed /\ OpensClosed /\ ~broken /\ ~leaked

\* Places, fields and flags keep their types (metadata.c 41-115).
LEMMA MetaTyped == TypeOK /\ [Next]_vars => TypeOK'
<1> SUFFICES ASSUME TypeOK, [Next]_vars PROVE TypeOK'
    OBVIOUS
<1> USE MetadataAssumption DEF Tags, NoTag, conn, pipe, history
<1>1. CASE Reader
    BY <1>1 DEF TypeOK, Reader
<1>2. ASSUME NEW c \in Conns, Converse(c) PROVE TypeOK'
  <2>1. CASE Request(c)
      BY <2>1 DEF TypeOK, Request, GoTo
  <2>2. CASE NextTag(c)
      BY <2>2 DEF TypeOK, NextTag, GoTo
  <2>3. CASE NoMoreTags(c)
      BY <2>3 DEF TypeOK, NoMoreTags, GoTo
  <2>4. CASE CoverImage(c)
      BY <2>4 DEF TypeOK, CoverImage, GoTo
  <2>5. CASE SetSame(c)
      BY <2>5 DEF TypeOK, SetSame, AfterSet, GoTo
  <2>6. CASE FreeField(c)
      BY <2>6 DEF TypeOK, FreeField, GoTo
  <2>7. CASE Assign(c)
      BY <2>7 DEF TypeOK, Assign, GoTo
  <2>8. CASE TestFd(c)
      BY <2>8 DEF TypeOK, TestFd, GoTo
  <2>9. CASE Open(c)
      BY <2>9 DEF TypeOK, Open, GoTo
  <2>10. CASE TestDirty(c)
      BY <2>10 DEF TypeOK, TestDirty, GoTo
  <2>13. CASE Mark(c)
      BY <2>13 DEF TypeOK, Mark, AfterSet, GoTo
  <2>14. CASE ClearDirty(c)
    <3>1. left' \in [Conns -> Seq(Fields)]
        BY <2>14 DEF TypeOK, ClearDirty
    <3> QED
        BY <2>14, <3>1 DEF TypeOK, ClearDirty, GoTo
  <2>11. CASE PrintField(c)
      BY <2>11 DEF TypeOK, PrintField, Writes
  <2>12. CASE EndRecord(c)
      BY <2>12 DEF TypeOK, EndRecord, Writes, GoTo
  <2> QED
      BY <1>2, <2>1, <2>2, <2>3, <2>4, <2>5, <2>6, <2>7, <2>8, <2>9, <2>10,
         <2>11, <2>12, <2>13, <2>14 DEF Converse
<1>3. CASE UNCHANGED vars
    BY <1>3 DEF TypeOK, vars
<1> QED
    BY <1>1, <1>2, <1>3 DEF Next

\* The initial state has the types and nothing in it that could go wrong.
LEMMA MetaInit == Init => AloneInv
<1> SUFFICES ASSUME Init PROVE AloneInv
    OBVIOUS
<1>1. left \in [Conns -> Seq(Fields)] /\ player_meta \in [Fields -> {Unset}]
    BY DEF Init
<1>2. TypeOK
    BY <1>1 DEF Init, TypeOK
<1>3. Alone /\ OneFreed /\ OpensClosed /\ ~broken /\ ~leaked
    BY MetadataAssumption DEF Init, Alone, OneFreed, OpensClosed
<1> QED
    BY <1>2, <1>3 DEF AloneInv

\* A conversation that begins when all are idle is alone.
LEMMA BeginsAlone ==
    ASSUME TypeOK, NEW c \in Conns, GoTo(c, "tags") \/ GoTo(c, "set"),
           \A d \in Conns : at[d] = "idle"
    PROVE  Alone'
BY DEF GoTo, Alone, TypeOK

\* A step of the conversation that is here leaves it alone.
LEMMA StaysAlone ==
    ASSUME TypeOK, Alone, NEW c \in Conns, at[c] # "idle",
           NEW place, GoTo(c, place)
    PROVE  Alone'
BY DEF GoTo, Alone, TypeOK

\* Steps that free nothing and store nothing: the fields stay as they are, and
\* the FIFO does, unless this conversation opens it next.
LEMMA QuietStep ==
    ASSUME TypeOK, Alone, OneFreed, OpensClosed, NEW c \in Conns,
           at[c] # "assign", NEW place, GoTo(c, place), place # "assign",
           UNCHANGED <<player_meta, fd>>, place = "opening" => ~fd,
           UNCHANGED tag \/ \E v : tag' = [tag EXCEPT ![c] = v]
    PROVE  OneFreed' /\ OpensClosed'
<1>1. \A d \in Conns : at'[d] = IF d = c THEN place ELSE at[d]
    BY DEF GoTo, TypeOK
<1>2. \A d \in Conns : d # c => tag'[d] = tag[d]
    BY DEF TypeOK
<1>3. OneFreed'
    BY <1>1, <1>2 DEF OneFreed
<1>4. OpensClosed'
    BY <1>1 DEF OpensClosed
<1> QED
    BY <1>3, <1>4

\* One conversation's step keeps the invariant.
LEMMA ConverseKeeps ==
    ASSUME AloneInv, ~overlapped', NEW c \in Conns, Converse(c), ~broken, TypeOK'
    PROVE  /\ Alone' /\ OneFreed' /\ OpensClosed' /\ ~broken' /\ ~leaked'
<1>1. ~overlapped
    BY DEF Converse, Request, NextTag, NoMoreTags, CoverImage, SetSame,
       FreeField, Assign, Mark, TestFd, Open, TestDirty, ClearDirty, PrintField,
       EndRecord, history,
       AloneInv, TypeOK
<1>2. TypeOK /\ Alone /\ OneFreed /\ OpensClosed /\ ~leaked
    BY <1>1 DEF AloneInv
<1>3. at[c] # "idle" /\ at[c] # "assign" => \A f \in Fields : player_meta[f] # Freed
    BY <1>2 DEF OneFreed, Alone
<1>4. CASE Request(c)
  <2>1. \A d \in Conns : at[d] = "idle"
      BY <1>4 DEF Request
  <2> QED
      BY <1>2, <1>4, <2>1, BeginsAlone, QuietStep DEF Request, pipe
<1>5. CASE CoverImage(c)
  <2>1. \A d \in Conns : at[d] = "idle"
      BY <1>5 DEF CoverImage
  <2>2. \E v : tag' = [tag EXCEPT ![c] = v]
      BY <1>5 DEF CoverImage
  <2> QED
      BY <1>2, <1>5, <2>1, <2>2, BeginsAlone, QuietStep DEF CoverImage, pipe
<1>6. CASE NextTag(c)
  <2>1. \E v : tag' = [tag EXCEPT ![c] = v]
      BY <1>6 DEF NextTag
  <2> QED
      BY <1>2, <1>6, <2>1, StaysAlone, QuietStep DEF NextTag, pipe
<1>7. CASE NoMoreTags(c)
    BY <1>2, <1>7, StaysAlone, QuietStep DEF NoMoreTags, pipe
<1>8. CASE SetSame(c)
  <2>1. PICK place : GoTo(c, place) /\ place \in {"idle", "tags"}
      BY <1>8 DEF SetSame, AfterSet
  <2>2. \E v : tag' = [tag EXCEPT ![c] = v]
      BY <1>8 DEF SetSame, AfterSet
  <2> QED
      BY <1>2, <1>8, <2>1, <2>2, StaysAlone, QuietStep DEF SetSame, pipe
<1>9. CASE FreeField(c)
  <2>1. ~broken'
      BY <1>2, <1>3, <1>9 DEF FreeField, TypeOK, Tags
  <2>2. Alone'
      BY <1>2, <1>9, StaysAlone DEF FreeField
  <2>3. \A f \in Fields : player_meta'[f] = Freed => f = tag[c].field
      BY <1>2, <1>3, <1>9 DEF FreeField, TypeOK, Tags
  <2>4. at'[c] = "assign" /\ tag' = tag
      BY <1>2, <1>9 DEF FreeField, GoTo, TypeOK
  <2>5. OneFreed'
      BY <2>3, <2>4 DEF OneFreed
  <2>6. OpensClosed'
      BY <1>2, <1>9 DEF FreeField, GoTo, OpensClosed, TypeOK, pipe
  <2> QED
      BY <1>2, <1>9, <2>1, <2>2, <2>5, <2>6 DEF FreeField, pipe
<1>10. CASE Assign(c)
  <2>2. Alone'
      BY <1>2, <1>10, StaysAlone DEF Assign
  <2>3. \A f \in Fields : player_meta[f] = Freed => f = tag[c].field
      BY <1>2, <1>10 DEF Assign, OneFreed, Alone
  <2>4. \A f \in Fields : player_meta'[f] # Freed
      BY <1>2, <1>10, <2>3, MetadataAssumption DEF Assign, TypeOK, Tags
  <2>5. OpensClosed'
      BY <1>2, <1>10 DEF Assign, GoTo, OpensClosed, TypeOK, pipe
  <2> QED
      BY <1>2, <1>10, <2>2, <2>4, <2>5 DEF Assign, pipe, history, OneFreed
<1>16. CASE Mark(c)
  <2>1. PICK place : GoTo(c, place) /\ place \in {"idle", "tags"}
      BY <1>16 DEF Mark, AfterSet
  <2>2. \E v : tag' = [tag EXCEPT ![c] = v]
      BY <1>16 DEF Mark, AfterSet
  <2> QED
      BY <1>2, <1>16, <2>1, <2>2, StaysAlone, QuietStep DEF Mark, pipe
<1>17. CASE ClearDirty(c)
    BY <1>2, <1>17, StaysAlone, QuietStep DEF ClearDirty, pipe
<1>11. CASE TestFd(c)
    BY <1>2, <1>11, StaysAlone, QuietStep DEF TestFd, pipe
<1>12. CASE Open(c)
  <2>1. Alone'
      BY <1>2, <1>12, StaysAlone DEF Open
  <2>2. ~leaked'
      BY <1>2, <1>12 DEF Open, OpensClosed
  <2>3. OneFreed'
      BY <1>2, <1>3, <1>12 DEF Open, OneFreed
  <2>4. \A d \in Conns : at'[d] # "opening"
      BY <1>2, <1>12 DEF Open, GoTo, Alone, TypeOK
  <2> QED
      BY <1>2, <1>12, <2>1, <2>2, <2>3, <2>4 DEF Open, OpensClosed
<1>13. CASE TestDirty(c)
    BY <1>2, <1>13, StaysAlone, QuietStep DEF TestDirty, pipe
<1>14. CASE PrintField(c)
  <2>1. Head(left[c]) \in Fields
      BY <1>2, <1>14 DEF PrintField, TypeOK
  <2>2. ~broken'
      BY <1>3, <1>14, <2>1 DEF PrintField
  <2> QED
      BY <1>2, <1>14, <2>2 DEF PrintField, pipe, Alone, OneFreed, OpensClosed
<1>15. CASE EndRecord(c)
  <2>1. Alone'
      BY <1>2, <1>15, StaysAlone DEF EndRecord
  <2>2. OneFreed'
      BY <1>2, <1>3, <1>15 DEF EndRecord, OneFreed
  <2>3. \A d \in Conns : at'[d] # "opening"
      BY <1>2, <1>15 DEF EndRecord, GoTo, Alone, TypeOK
  <2> QED
      BY <1>2, <1>15, <2>1, <2>2, <2>3 DEF EndRecord, OpensClosed
<1> QED
    BY <1>4, <1>5, <1>6, <1>7, <1>8, <1>9, <1>10, <1>11, <1>12, <1>13, <1>14,
       <1>15, <1>16, <1>17 DEF Converse

\* The invariant is inductive.
LEMMA MetaStep == AloneInv /\ [Next]_vars => AloneInv'
<1> SUFFICES ASSUME AloneInv, [Next]_vars PROVE AloneInv'
    OBVIOUS
<1>1. TypeOK'
    BY MetaTyped DEF AloneInv
<1>2. CASE Reader
    BY <1>1, <1>2 DEF Reader, AloneInv, Alone, OneFreed, OpensClosed, conn, history
<1>3. ASSUME NEW c \in Conns, Converse(c), ~broken PROVE AloneInv'
    BY <1>1, <1>3, ConverseKeeps DEF AloneInv
<1>4. CASE UNCHANGED vars
    BY <1>1, <1>4 DEF vars, conn, pipe, history, AloneInv, Alone, OneFreed, OpensClosed
<1> QED
    BY <1>2, <1>3, <1>4 DEF Next

\* The metadata machine is type-correct (metadata.c 41-115).
THEOREM MetadataTypeCorrect == Spec => []TypeOK
<1>1. AloneInv => TypeOK
    BY DEF AloneInv
<1> QED
    BY <1>1, MetaInit, MetaStep, PTL DEF Spec

\* However many conversations, fields and values there are: while the
\* conversations' calls into metadata.c have not overlapped, no freed field
\* was used and no descriptor of the FIFO lost.
THEOREM AloneSafe == Spec => []AloneIsSafe
<1>1. AloneInv => AloneIsSafe
    BY DEF AloneInv, AloneIsSafe
<1> QED
    BY <1>1, MetaInit, MetaStep, PTL DEF Spec
-----------------------------------------------------------------------------
\* A conversation will still print a field: it has begun a record, has the
\* field before it, or is about to mark it as new.
Owes(c, f) ==
    \/ at[c] = "clear"
    \/ at[c] = "print" /\ f \in Range(left[c])
    \/ at[c] \in {"assign", "mark"} /\ tag[c].field = f
Known(f) == shown[f] = player_meta[f]
NewsInv == \A f \in Fields :
    Known(f) \/ dirty \/ lost \/ broken \/ \E c \in Conns : Owes(c, f)

\* What is printed first leaves the rest.
LEMMA RangeHeadTail ==
    ASSUME NEW S, NEW s \in Seq(S), s # <<>>
    PROVE  Range(s) = {Head(s)} \cup Range(Tail(s))
<1>1. \A i \in 1..Len(s) : i = 1 \/ i - 1 \in 1..Len(Tail(s))
    OBVIOUS
<1>2. \A i \in 1..Len(Tail(s)) : Tail(s)[i] = s[i + 1] /\ i + 1 \in 1..Len(s)
    OBVIOUS
<1>3. \A i \in 1..Len(s) : i # 1 => s[i] = Tail(s)[i - 1]
    OBVIOUS
<1>4. Head(s) = s[1] /\ 1 \in 1..Len(s)
    OBVIOUS
<1>5. DOMAIN s = 1..Len(s) /\ DOMAIN Tail(s) = 1..Len(Tail(s))
    OBVIOUS
<1>6. ASSUME NEW x \in Range(s) PROVE x \in {Head(s)} \cup Range(Tail(s))
    BY <1>1, <1>3, <1>4, <1>5 DEF Range
<1>7. ASSUME NEW x \in Range(Tail(s)) PROVE x \in Range(s)
    BY <1>2, <1>5 DEF Range
<1> QED
    BY <1>4, <1>5, <1>6, <1>7 DEF Range

\* A step of one conversation leaves what the others owe.
LEMMA OthersOwe ==
    ASSUME TypeOK, NEW c \in Conns, Converse(c), NEW d \in Conns, d # c,
           NEW f \in Fields
    PROVE  Owes(d, f)' <=> Owes(d, f)
<1>1. at'[d] = at[d] /\ tag'[d] = tag[d] /\ left'[d] = left[d]
    BY DEF Converse, Request, NextTag, NoMoreTags, CoverImage, SetSame, AfterSet,
       FreeField, Assign, Mark, TestFd, Open, TestDirty, ClearDirty, PrintField,
       EndRecord, GoTo, TypeOK
<1> QED
    BY <1>1 DEF Owes

\* What a conversation stops owing is printed, failed, or dirty again.
LEMMA OwedOrKnown ==
    ASSUME TypeOK, ~broken, NEW c \in Conns, Converse(c), NEW f \in Fields,
           Owes(c, f)
    PROVE  Owes(c, f)' \/ dirty' \/ lost' \/ broken' \/ Known(f)'
<1> USE DEF TypeOK, GoTo, Owes
<1>1. CASE Assign(c)
    BY <1>1 DEF Assign
<1>2. CASE Mark(c)
    BY <1>2 DEF Mark
<1>3. CASE ClearDirty(c)
  <2>1. at'[c] = "print" /\ left'[c] = Order
      BY <1>3 DEF ClearDirty
  <2> QED
      BY <2>1, MetadataAssumption
<1>4. CASE PrintField(c)
  <2>1. at[c] = "print" /\ left[c] \in Seq(Fields) /\ left[c] # <<>>
      BY <1>4 DEF PrintField
  <2>2. f = Head(left[c]) \/ f \in Range(Tail(left[c]))
      BY <1>4, <2>1, RangeHeadTail
  <2>3. CASE f = Head(left[c])
      BY <1>4, <2>3 DEF PrintField, Known
  <2>4. CASE f \in Range(Tail(left[c]))
    <3>1. at'[c] = "print" /\ left'[c] = Tail(left[c])
        BY <1>4, <2>1 DEF PrintField
    <3> QED
        BY <2>4, <3>1
  <2> QED
      BY <2>2, <2>3, <2>4
<1>5. CASE EndRecord(c)
    BY <1>5 DEF EndRecord, Range
<1>6. CASE Request(c) \/ NextTag(c) \/ NoMoreTags(c) \/ CoverImage(c)
           \/ SetSame(c) \/ FreeField(c) \/ TestFd(c) \/ Open(c) \/ TestDirty(c)
    BY <1>6 DEF Request, NextTag, NoMoreTags, CoverImage, SetSame, FreeField,
       TestFd, Open, TestDirty
<1> QED
    BY <1>1, <1>2, <1>3, <1>4, <1>5, <1>6 DEF Converse

\* What stops being known, dirty or lost is owed by who changed it.
LEMMA NewsIsOwed ==
    ASSUME TypeOK, ~broken, NEW c \in Conns, Converse(c), NEW f \in Fields,
           Known(f) \/ dirty \/ lost
    PROVE  Owes(c, f)' \/ dirty' \/ lost' \/ broken' \/ Known(f)'
<1> USE DEF TypeOK, GoTo
<1>1. CASE FreeField(c)
  <2>1. at'[c] = "assign" /\ tag' = tag /\ dirty' = dirty /\ lost' = lost
      BY <1>1 DEF FreeField, history
  <2>2. tag[c].field # f => player_meta'[f] = player_meta[f] /\ shown' = shown
      BY <1>1 DEF FreeField, history, Tags
  <2> QED
      BY <2>1, <2>2 DEF Owes, Known
<1>2. CASE Assign(c)
  <2>1. at'[c] = "mark" /\ tag' = tag /\ dirty' = dirty /\ lost' = lost
      BY <1>2 DEF Assign, history
  <2>2. tag[c].field # f => player_meta'[f] = player_meta[f] /\ shown' = shown
      BY <1>2 DEF Assign, history, Tags
  <2> QED
      BY <2>1, <2>2 DEF Owes, Known
<1>3. CASE Mark(c)
    BY <1>3 DEF Mark
<1>4. CASE ClearDirty(c)
  <2>1. at'[c] = "print" /\ left'[c] = Order
      BY <1>4 DEF ClearDirty
  <2> QED
      BY <2>1, MetadataAssumption DEF Owes
<1>5. CASE PrintField(c)
  <2>1. PICK room \in BOOLEAN :
          /\ shown' = IF ~Writes(room) THEN shown ELSE
                [shown EXCEPT ![Head(left[c])] = player_meta[Head(left[c])]]
          /\ lost' = (lost \/ ~Writes(room))
      BY <1>5 DEF PrintField
  <2>2. dirty' = dirty /\ player_meta' = player_meta
      BY <1>5 DEF PrintField
  <2> QED
      BY <2>1, <2>2 DEF Known
<1>6. CASE Request(c) \/ NextTag(c) \/ NoMoreTags(c) \/ CoverImage(c)
           \/ SetSame(c) \/ TestFd(c) \/ Open(c) \/ TestDirty(c) \/ EndRecord(c)
    BY <1>6 DEF Request, NextTag, NoMoreTags, CoverImage, SetSame, TestFd, Open,
       TestDirty, EndRecord, history, Known
<1> QED
    BY <1>1, <1>2, <1>3, <1>4, <1>5, <1>6 DEF Converse

\* Every value that was not printed is accounted for.
LEMMA NewsStep == TypeOK /\ NewsInv /\ [Next]_vars => NewsInv'
<1> SUFFICES ASSUME TypeOK, NewsInv, [Next]_vars, NEW f \in Fields
             PROVE  (Known(f) \/ dirty \/ lost \/ broken \/ \E c \in Conns : Owes(c, f))'
    BY DEF NewsInv
<1>1. Known(f) \/ dirty \/ lost \/ broken \/ \E c \in Conns : Owes(c, f)
    BY DEF NewsInv
<1>2. CASE UNCHANGED vars
    BY <1>1, <1>2 DEF vars, conn, history, Known, Owes
<1>3. CASE Reader
    BY <1>1, <1>3 DEF Reader, conn, history, Known, Owes
<1>4. ASSUME NEW c \in Conns, Converse(c), ~broken
      PROVE  (Known(f) \/ dirty \/ lost \/ broken \/ \E d \in Conns : Owes(d, f))'
  <2>1. CASE Known(f) \/ dirty \/ lost
      BY <1>4, <2>1, NewsIsOwed
  <2>2. CASE \E d \in Conns : Owes(d, f)
    <3>1. PICK d \in Conns : Owes(d, f)
        BY <2>2
    <3>2. CASE d = c
        BY <1>4, <3>1, <3>2, OwedOrKnown
    <3>3. CASE d # c
        BY <1>4, <3>1, <3>3, OthersOwe
    <3> QED
        BY <3>2, <3>3
  <2> QED
      BY <1>1, <1>4, <2>1, <2>2
<1> QED
    BY <1>2, <1>3, <1>4 DEF Next

\* Nothing that was set is forgotten (metadata.c 41-50, 89-112), for any number
\* of conversations, overlapping or not, and of fields that are printed.
THEOREM NothingIsForgotten == Spec => []NothingForgotten
<1>1. Init => NewsInv
    BY DEF Init, NewsInv, Known
<1>2. TypeOK /\ NewsInv => NothingForgotten
  <2> SUFFICES ASSUME TypeOK, NewsInv, Quiet, ~broken, ~dirty, ~lost
               PROVE  shown = player_meta
      BY DEF NothingForgotten
  <2>1. \A f \in Fields : Known(f)
      BY DEF NewsInv, Quiet, Owes
  <2> QED
      BY <2>1 DEF Known, TypeOK
<1> QED
    BY <1>1, <1>2, NewsStep, MetadataTypeCorrect, PTL DEF Spec
=============================================================================
