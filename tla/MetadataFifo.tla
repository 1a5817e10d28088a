----------------------------- MODULE MetadataFifo -----------------------------
(***************************************************************************)
(* The metadata that conversations set and write to a FIFO whose readers   *)
(* come and go: metadata.c 41-165, called by rtsp.c 455-516 from any       *)
(* conversation, playing or not, and without a lock.  A field is a pointer *)
(* that metadata_set frees before it stores the next: Freed in between.    *)
(* Reading a freed field is undefined; the model notes it and stops.       *)
(* SIGPIPE is blocked (shairport.c 204-211), so a write that has no reader *)
(* fails, like one to a FIFO that is full.                                 *)
(***************************************************************************)
EXTENDS Naturals, Sequences, Functions

CONSTANTS Conns, Fields, Values,
          Unset, Freed,   \* a field without a value; one whose value is freed
          Order           \* the fields as metadata_write prints them

ASSUME MetadataAssumption ==
    /\ Unset \notin Values /\ Freed \notin Values /\ Unset # Freed
    /\ Order \in Seq(Fields) /\ Range(Order) = Fields

VARIABLES
    at, tag, left,    \* each conversation's place, its tag, what it will print
    player_meta,      \* the fields
    dirty,
    fd,               \* the FIFO is open for writing
    leaked,           \* a descriptor of it is open and forgotten
    reader,           \* somebody has the FIFO open for reading
    shown,            \* history: what was last printed of each field
    lost,             \* history: a print has failed since the last record began
    overlapped,       \* history: two conversations were here at once
    broken            \* history: a freed field was used

conn == <<at, tag, left>>
pipe == <<fd, leaked, reader>>
history == <<shown, lost, overlapped>>
vars == <<conn, player_meta, dirty, pipe, history, broken>>

NoTag == [field |-> Unset, value |-> Unset, image |-> FALSE]
Tags == [field : Fields, value : Values, image : BOOLEAN]

Init ==
    /\ at = [c \in Conns |-> "idle"] /\ tag = [c \in Conns |-> NoTag]
    /\ left = [c \in Conns |-> <<>>]
    /\ player_meta = [f \in Fields |-> Unset] /\ dirty = FALSE
    /\ fd = FALSE /\ leaked = FALSE /\ reader = FALSE
    /\ shown = [f \in Fields |-> Unset]
    /\ lost = FALSE /\ overlapped = FALSE /\ broken = FALSE

-----------------------------------------------------------------------------
GoTo(c, place) == at' = [at EXCEPT ![c] = place]

\* A request: tags to set, one after the other, and then to write...
Request(c) ==
    /\ at[c] = "idle" /\ GoTo(c, "tags")
    /\ overlapped' = (overlapped \/ \E d \in Conns : at[d] # "idle")
    /\ UNCHANGED <<tag, left, player_meta, dirty, pipe, shown, lost, broken>>

NextTag(c) ==
    /\ at[c] = "tags" /\ GoTo(c, "set")
    /\ \E t \in Tags : ~t.image /\ tag' = [tag EXCEPT ![c] = t]
    /\ UNCHANGED <<left, player_meta, dirty, pipe, history, broken>>

NoMoreTags(c) ==
    /\ at[c] = "tags" /\ GoTo(c, "open")
    /\ UNCHANGED <<tag, left, player_meta, dirty, pipe, history, broken>>

\* ...or a cover image: when its file is written its name is set, and nothing
\* is printed.
CoverImage(c) ==
    /\ at[c] = "idle" /\ GoTo(c, "set")
    /\ \E t \in Tags : t.image /\ tag' = [tag EXCEPT ![c] = t]
    /\ overlapped' = (overlapped \/ \E d \in Conns : at[d] # "idle")
    /\ UNCHANGED <<left, player_meta, dirty, pipe, shown, lost, broken>>

AfterSet(c) ==
    /\ GoTo(c, IF tag[c].image THEN "idle" ELSE "tags")
    /\ tag' = [tag EXCEPT ![c] = NoTag]

\* metadata_set: a field that has the value already is left alone...
SetSame(c) ==
    /\ at[c] = "set" /\ player_meta[tag[c].field] = tag[c].value
    /\ AfterSet(c)
    /\ UNCHANGED <<left, player_meta, dirty, pipe, history, broken>>

\* ...another is freed (a freed one is compared and freed again)...
FreeField(c) ==
    /\ at[c] = "set" /\ player_meta[tag[c].field] # tag[c].value
    /\ broken' = (player_meta[tag[c].field] = Freed)
    /\ player_meta' = [player_meta EXCEPT ![tag[c].field] =
                          IF @ = Unset THEN Unset ELSE Freed]
    /\ GoTo(c, "assign")
    /\ UNCHANGED <<tag, left, dirty, pipe, history>>

\* ...the new value is stored...
Assign(c) ==
    /\ at[c] = "assign" /\ GoTo(c, "mark")
    /\ player_meta' = [player_meta EXCEPT ![tag[c].field] = tag[c].value]
    /\ UNCHANGED <<tag, left, dirty, pipe, history, broken>>

\* Mutant: the value is stored and not marked.
MarkNot(c) ==
    /\ at[c] = "mark" /\ AfterSet(c)
    /\ UNCHANGED <<left, player_meta, dirty, pipe, history, broken>>
\* ...and marked as something to write.
Mark(c) ==
    /\ at[c] = "mark" /\ AfterSet(c)
    /\ dirty' = TRUE
    /\ UNCHANGED <<left, player_meta, pipe, history, broken>>

-----------------------------------------------------------------------------
\* Mutant: the FIFO is opened for each write.
TestFdNever(c) ==
    /\ at[c] = "open" /\ GoTo(c, "opening")
    /\ UNCHANGED <<tag, left, player_meta, dirty, pipe, history, broken>>

\* metadata_write: open the FIFO if it is not, which needs a reader.  The test
\* of fd and the store are apart: "opening" is in between.
TestFd(c) ==
    /\ at[c] = "open" /\ GoTo(c, IF fd THEN "test" ELSE "opening")
    /\ UNCHANGED <<tag, left, player_meta, dirty, pipe, history, broken>>

Open(c) ==
    /\ at[c] = "opening" /\ GoTo(c, IF reader THEN "test" ELSE "idle")
    /\ leaked' = (leaked \/ fd)
    /\ fd' = reader
    /\ UNCHANGED <<tag, left, player_meta, dirty, reader, history, broken>>

\* Begin a record if there is something new.
TestDirty(c) ==
    /\ at[c] = "test" /\ GoTo(c, IF dirty THEN "clear" ELSE "idle")
    /\ UNCHANGED <<tag, left, player_meta, dirty, pipe, history, broken>>

ClearDirty(c) ==
    /\ at[c] = "clear" /\ GoTo(c, "print")
    /\ left' = [left EXCEPT ![c] = Order]
    /\ dirty' = FALSE /\ lost' = FALSE
    /\ UNCHANGED <<tag, player_meta, pipe, shown, overlapped, broken>>

\* A write: the FIFO may be full.
Writes(room) == fd /\ reader /\ room

\* print_one, its four writes as one: the value the field has when it comes to
\* it, and no look at the result.
PrintField(c) ==
    /\ at[c] = "print" /\ left[c] # <<>>
    /\ broken' = (player_meta[Head(left[c])] = Freed)
    /\ \E room \in BOOLEAN :
        /\ shown' = IF ~Writes(room) THEN shown ELSE
              [shown EXCEPT ![Head(left[c])] = player_meta[Head(left[c])]]
        /\ lost' = (lost \/ ~Writes(room))
    /\ left' = [left EXCEPT ![c] = Tail(@)]
    /\ UNCHANGED <<at, tag, player_meta, dirty, pipe, overlapped>>

\* The record's end, the only write whose failure is noticed: it closes fd.
EndRecord(c) ==
    /\ at[c] = "print" /\ left[c] = <<>> /\ GoTo(c, "idle")
    /\ \E room \in BOOLEAN : fd' = Writes(room)
    /\ UNCHANGED <<tag, left, player_meta, dirty, leaked, reader, history, broken>>

-----------------------------------------------------------------------------
\* A reader opens the FIFO or closes it.
Reader ==
    /\ reader' = ~reader
    /\ UNCHANGED <<conn, player_meta, dirty, fd, leaked, history, broken>>

Converse(c) ==
    \/ Request(c) \/ NextTag(c) \/ NoMoreTags(c) \/ CoverImage(c)
    \/ SetSame(c) \/ FreeField(c) \/ Assign(c) \/ Mark(c)
    \/ TestFd(c) \/ Open(c) \/ TestDirty(c) \/ ClearDirty(c) \/ PrintField(c)
    \/ EndRecord(c)
Next == ~broken /\ (Reader \/ \E c \in Conns : Converse(c))
Spec == Init /\ [][Next]_vars

-----------------------------------------------------------------------------
Quiet == \A c \in Conns : at[c] = "idle"

\* Places, fields and flags have the values the code gives them
\* (metadata.c 41-115).
TypeOK ==
    /\ at \in [Conns -> {"idle", "tags", "set", "assign", "mark",
                         "open", "opening", "test", "clear", "print"}]
    /\ tag \in [Conns -> Tags \cup {NoTag}]
    /\ \A c \in Conns : at[c] \in {"set", "assign", "mark"} => tag[c] \in Tags
    /\ left \in [Conns -> Seq(Fields)]
    /\ player_meta \in [Fields -> Values \cup {Unset, Freed}]
    /\ shown \in [Fields -> Values \cup {Unset, Freed}]
    /\ {dirty, fd, leaked, reader, lost, overlapped, broken} \subseteq BOOLEAN

\* Nothing that was set is forgotten (metadata.c 41-50, 89-112): when all
\* conversations are done, either dirty still says that there is something to
\* write, or every field was printed with the value it has, or a print failed.
\* This holds for conversations that overlap, too.
NothingForgotten == Quiet /\ ~broken => dirty \/ lost \/ shown = player_meta

\* Conversations that come one after the other never use a freed field, and
\* the FIFO is opened once (metadata.c 41-49, 92-97).  There is no lock to
\* keep others apart.
AloneIsSafe == ~overlapped => ~broken /\ ~leaked
=============================================================================
