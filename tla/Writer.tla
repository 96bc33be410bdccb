------------------------------- MODULE Writer -------------------------------
(***************************************************************************)
(* The push-event canonical writer of src/writer.rs.                       *)
(*                                                                         *)
(* A caller pushes events; each event is admitted against the stack of     *)
(* open containers and then runs to its end or to a refusal.  What an      *)
(* admitted event still has to do is the sequence `todo`, so that a sink   *)
(* or an allocation may fail between any two of its effects, as in the     *)
(* code.  No event is admitted while another one runs: `&mut self`.        *)
(*                                                                         *)
(* Bytes are abstracted to tokens of one byte each.  A quoted, escaped     *)
(* name or string and the text of a number are single tokens: escaping and *)
(* number formatting keep texts nonempty and names distinct, and nothing   *)
(* here depends on more.  Offsets are zero-based, as in the code; the      *)
(* bytes of span [start, end) are SubSeq(buffer, start + 1, end).          *)
(*                                                                         *)
(* An operator that stands directly before another one of the same         *)
(* parameters and that nothing uses is a mutant of it: the code with a     *)
(* plausible mistake, which the properties are checked to notice.          *)
(***************************************************************************)
EXTENDS Integers, Sequences, FiniteSets, SequencesExt

CONSTANTS
    Names,       \* member and variant names, as quoted tokens
    Rank,        \* their UTF-16 code unit order: cmp_member_names
    Scalars,     \* texts of scalar values
    MaxBytes,    \* Limits::max_bytes
    MaxOffset,   \* stands for u32::MAX, the largest buffer offset
    Containers   \* the kinds of container the caller opens

Punctuation == {"{", "}", "[", "]", ",", ":"}
Byte == Punctuation \cup Names \cup Scalars

ASSUME TokensAssumption ==
    /\ Names \cap Punctuation = {}
    /\ Scalars \cap Punctuation = {}
ASSUME RankAssumption ==
    /\ Rank \in [Names -> Nat \ {0}]
    /\ \A m, n \in Names : Rank[m] = Rank[n] => m = n
ASSUME BoundsAssumption == MaxBytes \in Nat /\ MaxOffset \in Nat

VARIABLES
    produced, stack, frames, buffer, open_members, open_children,
    closed, closed_members, closed_children, started, refused,
    sink,           \* the bytes the sink accepted
    todo,           \* what the running event still has to do
    answer,         \* what the latest event returned
    root_members, root_children, tasks,   \* locals of write_out
    finished        \* what finish returned, which consumes the writer

output  == <<produced, sink>>
text    == <<frames, buffer>>
opened  == <<open_members, open_children>>
records == <<closed, closed_members, closed_children>>
walk    == <<root_members, root_children, tasks>>
control == <<todo, answer, refused>>
vars == <<output, text, opened, records, walk, control, stack, started, finished>>

-----------------------------------------------------------------------------
(* The shapes of the records. *)

Offset == 0 .. MaxOffset
NoOffset == -1                                  \* Option::None
Span == [start : Offset, end : Offset]
Frame == [start : Offset, members : Offset, children : Offset,
          pending : Offset \cup {NoOffset}]
Closed == [start : Offset, end : Offset, members : Span, children : Span]

Array(first)    == [kind |-> "Array", first |-> first]
Object          == [kind |-> "Object"]
Wrapper(filled) == [kind |-> "Wrapper", filled |-> filled]
Open == {Array(b) : b \in BOOLEAN} \cup {Object} \cup {Wrapper(b) : b \in BOOLEAN}

Root == -1
Owner == Nat \cup {Root}
BytesTask(start, end)    == [task |-> "Bytes", start |-> start, end |-> end]
BodyTask(owner, next)    == [task |-> "Body", owner |-> owner, next |-> next]
MemberTask(owner, span)  == [task |-> "Member", owner |-> owner, span |-> span]
Task == [task : {"Bytes"}, start : Offset, end : Offset]
          \cup [task : {"Body"}, owner : Owner, next : Nat]
          \cup [task : {"Member"}, owner : Owner, span : Span]

(* The steps an admitted event is made of. *)
Produce(b)   == [op |-> "produce", byte |-> b]
PushOpen(o)  == [op |-> "push_open", open |-> o]
PushFrame    == [op |-> "push_frame"]
Pop          == [op |-> "pop"]
AfterValue   == [op |-> "after_value"]
Walk         == [op |-> "write_out"]
NoText       == [op |-> "no_text"]
Step == {Produce(b) : b \in Byte} \cup {PushOpen(o) : o \in Open}
          \cup {PushFrame, Pop, AfterValue, Walk, NoText}

ProtocolViolations ==
    {"NameWithoutValue", "ValueWithoutName", "ObjectEndedAfterName",
     "NameOutsideObject", "MismatchedEnd", "SecondValue", "Incomplete",
     "AfterRefusal"}
Errors == ProtocolViolations \cup
    {"CanonicalBytes", "ObjectBytes", "DuplicateMemberName", "Unrepresentable", "Source",
     "Sink", "Allocation", "Internal"}

-----------------------------------------------------------------------------
(* Reading the state. *)

Top(kind) == stack # <<>> /\ Last(stack).kind = kind
TopFrame == Last(frames)
NamePending == frames # <<>> /\ TopFrame.pending # NoOffset
OffsetTooLarge == Len(buffer) > MaxOffset       \* buffer_offset refuses
IndexTooLarge(list) == Len(list) > MaxOffset    \* index_u32 refuses

OverCeilingUncounted(length) == produced > MaxBytes
OverCeiling(length) == produced + length > MaxBytes     \* count refuses

InBuffer(span) == span.start <= span.end /\ span.end <= Len(buffer)
SpanBytes(span) == SubSeq(buffer, span.start + 1, span.end)
InList(list, span) == span.start <= span.end /\ span.end <= Len(list)
SliceOf(list, span) == SubSeq(list, span.start + 1, span.end)

(* A span outside the buffer sorts as empty text. *)
MemberRank(span) ==
    IF InBuffer(span) /\ span.start < span.end
      THEN Rank[buffer[span.start + 1]] ELSE 0

(* The orders sort_unstable may leave `members` in: equal names, which are *)
(* refused next, in any order.                                             *)
UnsortedMembers(members) == {members}
SortedMembers(members) ==
    LET I == DOMAIN members
        Sorts(p) == \A i, j \in I : i < j =>
                        /\ p[i] # p[j]
                        /\ MemberRank(members[p[i]]) <= MemberRank(members[p[j]])
    IN  {[i \in I |-> members[p[i]]] : p \in {q \in [I -> I] : Sorts(q)}}

-----------------------------------------------------------------------------
(* guard: an error ends the event and refuses every later one. *)

Idle == todo = <<>> /\ finished = "no"
AcceptingAnyway == Idle
Accepting == Idle /\ ~refused
At(op) == todo # <<>> /\ Head(todo).op = op

Run(steps) == todo' = steps /\ answer' = "running" /\ UNCHANGED refused
Refuse(error) == todo' = <<>> /\ answer' = error /\ refused' = TRUE
Proceed ==
    /\ todo' = Tail(todo)
    /\ answer' = IF Tail(todo) = <<>> THEN "Ok" ELSE "running"
    /\ UNCHANGED refused

(* While a serde wrapper is innermost, the encoder drives the writer: it   *)
(* pushes exactly one value and then closes the wrapper.                   *)
CallerDrives == Accepting /\ ~Top("Wrapper")
ValueDue == Accepting /\ (Top("Wrapper") => ~Last(stack).filled)

-----------------------------------------------------------------------------
(* before_value, then the steps of the value's own event. *)

BeforeValueErrorUnnamed ==
    IF stack = <<>> /\ started THEN "SecondValue" ELSE "none"
BeforeValueError ==
    CASE stack = <<>>    -> IF started THEN "SecondValue" ELSE "none"
      [] Top("Array")    -> "none"
      [] Top("Object")   -> IF frames = <<>> THEN "Internal"
                            ELSE IF NamePending THEN "none" ELSE "ValueWithoutName"
      [] OTHER           -> IF Last(stack).filled THEN "Internal" ELSE "none"

ValueEvent(steps) ==
    /\ UNCHANGED <<output, text, opened, records, walk, finished>>
    /\ \/ /\ BeforeValueError # "none"
          /\ Refuse(BeforeValueError)
          /\ UNCHANGED <<stack, started>>
       \/ /\ BeforeValueError = "none"
          /\ started' = TRUE
          /\ stack' = IF Top("Array") THEN Append(Front(stack), Array(FALSE))
                      ELSE IF Top("Wrapper") THEN Append(Front(stack), Wrapper(TRUE))
                      ELSE stack
          /\ Run(IF Top("Array") /\ ~Last(stack).first
                   THEN <<Produce(",")>> \o steps ELSE steps)
Value(steps) == ValueDue /\ ValueEvent(steps)

(* null, bool, number, integer and string. *)
Scalar(v) == Value(<<Produce(v), AfterValue>>)

(* number or integer of a value that has no canonical text. *)
Unrepresentable == Value(<<NoText, AfterValue>>)

BeginArray ==
    "Array" \in Containers /\ Value(<<Produce("["), PushOpen(Array(TRUE))>>)

BeginObject == "Object" \in Containers /\ Value(<<Produce("{"), PushFrame>>)

BeginWrapper(variant) ==
    /\ "Wrapper" \in Containers
    /\ Value(<<Produce("{"), PushOpen(Wrapper(FALSE)), Produce(variant), Produce(":")>>)

-----------------------------------------------------------------------------
(* The events that are not values. *)

EndContainer(open, brace) ==
    /\ IF open THEN Run(<<Produce(brace), Pop, AfterValue>>)
               ELSE Refuse("MismatchedEnd")
    /\ UNCHANGED <<output, text, opened, records, walk, stack, started, finished>>

EndArray == CallerDrives /\ EndContainer(Top("Array"), "]")

(* end_wrapper is the encoder's: it follows the wrapper's one value. *)
EndWrapper ==
    /\ Accepting /\ Top("Wrapper") /\ Last(stack).filled
    /\ EndContainer(TRUE, "}")

NameError ==
    CASE ~Top("Object")  -> "NameOutsideObject"
      [] Top("Object") /\ OffsetTooLarge -> "ObjectBytes"
      [] Top("Object") /\ ~OffsetTooLarge /\ frames = <<>> -> "Internal"
      [] Top("Object") /\ ~OffsetTooLarge /\ NamePending -> "NameWithoutValue"
      [] OTHER -> "none"

NameEvent(n) ==
    /\ UNCHANGED <<output, buffer, opened, records, walk, stack, started, finished>>
    /\ \/ NameError # "none" /\ Refuse(NameError) /\ UNCHANGED frames
       \/ /\ NameError = "none"
          /\ frames' = [frames EXCEPT ![Len(frames)].pending = Len(buffer)]
          /\ Run(<<Produce(n), Produce(":")>>)
Name(n) == CallerDrives /\ NameEvent(n)

(* Writer::refuse: an event source found the error. *)
SourceRefuses ==
    /\ CallerDrives
    /\ Refuse("Source")
    /\ UNCHANGED <<output, text, opened, records, walk, stack, started, finished>>

(* Any event once the writer has refused one. *)
EventAfterRefusal ==
    /\ Idle /\ refused
    /\ answer' = "AfterRefusal"
    /\ UNCHANGED <<output, text, opened, records, walk, todo, refused, stack,
                   started, finished>>

Finish ==
    /\ Idle
    /\ finished' = IF refused THEN "AfterRefusal"
                   ELSE IF ~started \/ stack # <<>> THEN "Incomplete" ELSE "Ok"
    /\ UNCHANGED <<output, text, opened, records, walk, control, stack, started>>

-----------------------------------------------------------------------------
(* The steps of an admitted event. *)

(* count, then the sink, or the buffer while an object is open. *)
ProduceStep ==
    /\ At("produce")
    /\ UNCHANGED <<frames, opened, records, walk, stack, started, finished>>
    /\ \/ /\ OverCeiling(1)
          /\ Refuse("CanonicalBytes")
          /\ UNCHANGED <<output, buffer>>
       \/ /\ ~OverCeiling(1)
          /\ produced' = produced + 1
          /\ \/ /\ frames = <<>>
                /\ sink' = Append(sink, Head(todo).byte)
                /\ Proceed /\ UNCHANGED buffer
             \/ /\ frames # <<>>
                /\ buffer' = Append(buffer, Head(todo).byte)
                /\ Proceed /\ UNCHANGED sink
             \/ /\ Refuse(IF frames = <<>> THEN "Sink" ELSE "Allocation")
                /\ UNCHANGED <<sink, buffer>>

NoTextStep ==
    /\ At("no_text")
    /\ Refuse("Unrepresentable")
    /\ UNCHANGED <<output, text, opened, records, walk, stack, started, finished>>

PushOpenStep ==
    /\ At("push_open")
    /\ UNCHANGED <<output, text, opened, records, walk, started, finished>>
    /\ \/ Refuse("Allocation") /\ UNCHANGED stack
       \/ stack' = Append(stack, Head(todo).open) /\ Proceed

(* begin_object after its `{`. *)
PushFrameStep ==
    /\ At("push_frame")
    /\ UNCHANGED <<output, buffer, opened, records, walk, started, finished>>
    /\ \/ /\ Refuse(IF OffsetTooLarge THEN "ObjectBytes" ELSE "Allocation")
          /\ UNCHANGED <<stack, frames>>
       \/ /\ ~OffsetTooLarge
          /\ stack' = Append(stack, Object)
          /\ IF IndexTooLarge(open_members) \/ IndexTooLarge(open_children)
               THEN Refuse("Internal") /\ UNCHANGED frames
               ELSE /\ frames' = Append(frames,
                         [start |-> Len(buffer), members |-> Len(open_members),
                          children |-> Len(open_children), pending |-> NoOffset])
                    /\ Proceed

PopStep ==
    /\ At("pop")
    /\ stack' = Front(stack)
    /\ Proceed
    /\ UNCHANGED <<output, text, opened, records, walk, started, finished>>

(* after_value: inside an object, end_member records the finished member. *)
AfterValueStep ==
    /\ At("after_value")
    /\ UNCHANGED <<output, buffer, open_children, records, walk, stack, started, finished>>
    /\ \/ ~Top("Object") /\ Proceed /\ UNCHANGED <<frames, open_members>>
       \/ /\ Top("Object") /\ (OffsetTooLarge \/ ~NamePending)
          /\ Refuse(IF OffsetTooLarge THEN "ObjectBytes" ELSE "Internal")
          /\ UNCHANGED <<frames, open_members>>
       \/ /\ Top("Object") /\ ~OffsetTooLarge /\ NamePending
          /\ frames' = [frames EXCEPT ![Len(frames)].pending = NoOffset]
          /\ \/ Refuse("Allocation") /\ UNCHANGED open_members
             \/ /\ open_members' = Append(open_members,
                       [start |-> TopFrame.pending, end |-> Len(buffer)])
                /\ Proceed

-----------------------------------------------------------------------------
(* close_object. *)

EndObjectError ==
    CASE ~Top("Object") -> "MismatchedEnd"
      [] Top("Object") /\ frames = <<>> -> "Internal"
      [] Top("Object") /\ NamePending -> "ObjectEndedAfterName"
      [] OTHER -> "none"

(* What the sorted members, the ceiling and the records are refused for. *)
ClosingBytesCommasOnly(members) == Len(members)
ClosingBytes(members) == IF members = <<>> THEN 1 ELSE Len(members)
CloseError(members) ==
    LET Pairs == 1 .. Len(members) - 1
    IN  CASE TopFrame.members > Len(open_members) -> "Internal"
          [] \E i \in Pairs : ~InBuffer(members[i]) \/ ~InBuffer(members[i + 1])
                -> "Internal"
          [] \E i \in Pairs : MemberRank(members[i]) = MemberRank(members[i + 1])
                -> "DuplicateMemberName"
          [] OverCeiling(ClosingBytes(members)) -> "CanonicalBytes"
          [] OTHER -> "none"

(* The outermost object: its entries are the whole of both stacks. *)
CloseOutermost(members) ==
    /\ root_members' = members
    /\ root_children' = open_children
    /\ open_members' = <<>>
    /\ open_children' = <<>>
    /\ tasks' = <<BodyTask(Root, 0)>>
    /\ Run(<<Walk, AfterValue>>)
    /\ UNCHANGED records

(* Vec::truncate. *)
KeptAll(list, n) == list
Kept(list, n) == IF n < Len(list) THEN SubSeq(list, 1, n) ELSE list

(* An object closed inside another leaves a record, in five stages: its    *)
(* members are copied, its children are copied, both leave the open lists, *)
(* its record is pushed, and its id becomes a child of the parent.  A      *)
(* refusal after stage k leaves the first k of them done.                  *)
StageFault(k, members, children) ==
    CASE k = 0 -> IF \/ IndexTooLarge(open_members) \/ IndexTooLarge(open_children)
                     \/ TopFrame.children > Len(open_children) THEN "Internal"
                  ELSE IF OffsetTooLarge THEN "ObjectBytes"
                  ELSE IF IndexTooLarge(closed_members) THEN "Internal" ELSE "Allocation"
      [] k = 1 -> IF \/ Len(closed_members) + Len(members) > MaxOffset
                     \/ IndexTooLarge(closed_children) THEN "Internal" ELSE "Allocation"
      [] k = 2 -> IF Len(closed_children) + Len(children) > MaxOffset
                    THEN "Internal" ELSE "none"
      [] k = 3 -> IF IndexTooLarge(closed) THEN "Internal" ELSE "Allocation"
      [] OTHER -> "Allocation"

CloseNested(members) ==
    LET children == SubSeq(open_children, TopFrame.children + 1, Len(open_children))
        Landed(list, items) == [start |-> Len(list), end |-> Len(list) + Len(items)]
        Passed(k) == StageFault(k, members, children) \in {"Allocation", "none"}
        kept == Kept(open_children, TopFrame.children)
    IN  \E done \in 0 .. 5 :
          /\ \A k \in 0 .. done - 1 : Passed(k)
          /\ closed_members' = IF done >= 1 THEN closed_members \o members
                               ELSE closed_members
          /\ closed_children' = IF done >= 2 THEN closed_children \o children
                                ELSE closed_children
          /\ open_members' = IF done >= 3 THEN Kept(open_members, TopFrame.members)
                             ELSE open_members
          /\ open_children' = IF done = 5 THEN Append(kept, Len(closed))
                              ELSE IF done >= 3 THEN kept ELSE open_children
          /\ closed' = IF done >= 4
                         THEN Append(closed,
                                [start |-> TopFrame.start, end |-> Len(buffer),
                                 members |-> Landed(closed_members, members),
                                 children |-> Landed(closed_children, children)])
                         ELSE closed
          /\ IF done = 5 THEN Run(<<AfterValue>>)
             ELSE /\ StageFault(done, members, children) # "none"
                  /\ Refuse(StageFault(done, members, children))
          /\ UNCHANGED walk

EndObjectEvent ==
    /\ UNCHANGED <<buffer, sink, started, finished>>
    /\ \/ /\ EndObjectError # "none"
          /\ Refuse(EndObjectError)
          /\ UNCHANGED <<produced, stack, frames, opened, records, walk>>
       \/ /\ EndObjectError = "none"
          /\ stack' = Front(stack)
          /\ frames' = Front(frames)
          /\ \E members \in SortedMembers(SubSeq(open_members, TopFrame.members + 1,
                                                 Len(open_members))) :
               \/ /\ CloseError(members) # "none"
                  /\ Refuse(CloseError(members))
                  /\ UNCHANGED <<produced, opened, records, walk>>
               \/ /\ CloseError(members) = "none"
                  /\ produced' = produced + ClosingBytes(members)
                  /\ \/ Len(frames) = 1 /\ CloseOutermost(members)
                     \/ Len(frames) > 1 /\ CloseNested(members)
EndObject == CallerDrives /\ EndObjectEvent

-----------------------------------------------------------------------------
(* write_out: one task of its stack, which grows at the end, per step. *)

IsClosed(id) == id < Len(closed)
ClosedAt(id) == closed[id + 1]
ListsFault(owner) ==
    /\ owner # Root
    /\ \/ ~IsClosed(owner)
       \/ ~InList(closed_members, ClosedAt(owner).members)
       \/ ~InList(closed_children, ClosedAt(owner).children)
OwnMembers(owner) == IF owner = Root THEN root_members
                     ELSE SliceOf(closed_members, ClosedAt(owner).members)
OwnChildren(owner) == IF owner = Root THEN root_children
                      ELSE SliceOf(closed_children, ClosedAt(owner).children)

(* The number of children that start at `offset` or before: they are in    *)
(* written order, so they are the first ones.                              *)
StartsBefore(children, offset) ==
    Cardinality({i \in DOMAIN children :
        IsClosed(children[i]) /\ ClosedAt(children[i]).start < offset})
StartsBy(children, offset) ==
    Cardinality({i \in DOMAIN children :
        IsClosed(children[i]) /\ ClosedAt(children[i]).start <= offset})

Inside(span, children) ==
    SubSeq(children, StartsBy(children, span.start) + 1, StartsBy(children, span.end))

(* The bytes around and the bodies of the children inside a member, the    *)
(* first one topmost.                                                      *)
MemberTasks(span, inside) ==
    LET n == Len(inside)
        Cursor(i) == IF i > n THEN span.end ELSE ClosedAt(inside[i]).start
        Piece(j) == LET i == n - (j - 1) \div 2
                    IN  IF j % 2 = 1
                          THEN BytesTask(ClosedAt(inside[i]).end, Cursor(i + 1))
                          ELSE BodyTask(inside[i], 0)
    IN  Append([j \in 1 .. 2 * n |-> Piece(j)], BytesTask(span.start, Cursor(1)))

Walking(kind) == At("write_out") /\ tasks # <<>> /\ Last(tasks).task = kind
RefuseWalk(error) ==
    /\ Refuse(error)
    /\ root_members' = <<>> /\ root_children' = <<>> /\ tasks' = <<>>

WalkBytesStuckOnEmpty ==
    LET span == [start |-> Last(tasks).start, end |-> Last(tasks).end]
    IN  /\ Walking("Bytes")
        /\ IF span.start < span.end
             THEN sink' = sink \o SpanBytes(span) /\ tasks' = Front(tasks)
             ELSE UNCHANGED <<sink, tasks>>
        /\ UNCHANGED <<produced, text, opened, records, stack, started, finished,
                       control, root_members, root_children>>
WalkBytes ==
    LET span == [start |-> Last(tasks).start, end |-> Last(tasks).end]
    IN  /\ Walking("Bytes")
        /\ UNCHANGED <<produced, text, opened, records, stack, started, finished>>
        /\ \/ /\ span.start >= span.end \/ InBuffer(span)
              /\ sink' = IF span.start < span.end THEN sink \o SpanBytes(span) ELSE sink
              /\ tasks' = Front(tasks)
              /\ UNCHANGED <<control, root_members, root_children>>
           \/ /\ span.start < span.end
              /\ RefuseWalk(IF InBuffer(span) THEN "Sink" ELSE "Internal")
              /\ UNCHANGED sink

WalkBody ==
    LET owner == Last(tasks).owner
        next == Last(tasks).next
        members == OwnMembers(owner)
        comma == IF next > 0 THEN <<",">> ELSE <<>>
    IN  /\ Walking("Body")
        /\ UNCHANGED <<produced, text, opened, records, stack, started, finished>>
        /\ \/ /\ RefuseWalk(CASE ListsFault(owner) -> "Internal"
                              [] ~ListsFault(owner) /\ next = 0 /\ members # <<>>
                                   -> "Allocation"
                              [] OTHER -> "Sink")
              /\ UNCHANGED sink
           \/ /\ ~ListsFault(owner) /\ next \in 1 .. Len(members) - 1
              /\ sink' = sink \o comma
              /\ RefuseWalk("Allocation")
           \/ /\ ~ListsFault(owner) /\ next >= Len(members)
              /\ sink' = Append(sink, "}")
              /\ tasks' = Front(tasks)
              /\ UNCHANGED <<control, root_members, root_children>>
           \/ /\ ~ListsFault(owner) /\ next < Len(members)
              /\ sink' = sink \o comma
              /\ tasks' = Front(tasks) \o
                    <<BodyTask(owner, next + 1), MemberTask(owner, members[next + 1])>>
              /\ UNCHANGED <<control, root_members, root_children>>

WalkMember ==
    LET owner == Last(tasks).owner
        span == Last(tasks).span
        inside == Inside(span, OwnChildren(owner))
        Lost == ListsFault(owner) \/ \E i \in DOMAIN inside : ~IsClosed(inside[i])
    IN  /\ Walking("Member")
        /\ UNCHANGED <<output, text, opened, records, stack, started, finished>>
        /\ \/ RefuseWalk(IF Lost THEN "Internal" ELSE "Allocation")
           \/ /\ ~Lost
              /\ tasks' = Front(tasks) \o MemberTasks(span, inside)
              /\ UNCHANGED <<control, root_members, root_children>>

(* Everything is written: clear the buffer and the records. *)
WalkDoneKeepsClosed ==
    /\ At("write_out") /\ tasks = <<>>
    /\ buffer' = <<>>
    /\ root_members' = <<>> /\ root_children' = <<>>
    /\ Proceed
    /\ UNCHANGED <<output, frames, opened, records, tasks, stack, started, finished>>
WalkDone ==
    /\ At("write_out") /\ tasks = <<>>
    /\ buffer' = <<>>
    /\ closed' = <<>> /\ closed_members' = <<>> /\ closed_children' = <<>>
    /\ root_members' = <<>> /\ root_children' = <<>>
    /\ Proceed
    /\ UNCHANGED <<output, frames, opened, tasks, stack, started, finished>>

-----------------------------------------------------------------------------
Init ==
    /\ produced = 0 /\ stack = <<>> /\ frames = <<>> /\ buffer = <<>>
    /\ open_members = <<>> /\ open_children = <<>>
    /\ closed = <<>> /\ closed_members = <<>> /\ closed_children = <<>>
    /\ started = FALSE /\ refused = FALSE
    /\ sink = <<>> /\ todo = <<>> /\ answer = "none"
    /\ root_members = <<>> /\ root_children = <<>> /\ tasks = <<>>
    /\ finished = "no"

Event ==
    \/ \E v \in Scalars : Scalar(v)
    \/ Unrepresentable
    \/ BeginArray \/ BeginObject \/ \E n \in Names : BeginWrapper(n)
    \/ EndArray \/ EndObject \/ EndWrapper
    \/ \E n \in Names : Name(n)
    \/ SourceRefuses \/ EventAfterRefusal

RunEvent ==
    \/ ProduceStep \/ NoTextStep \/ PushOpenStep \/ PushFrameStep
    \/ PopStep \/ AfterValueStep
    \/ WalkBytes \/ WalkBody \/ WalkMember \/ WalkDone

Next == Event \/ RunEvent \/ Finish

Spec == Init /\ [][Next]_vars
=============================================================================
