---------------------------- MODULE WriterProofs ----------------------------
(***************************************************************************)
(* Theorems about the writer, for every value of its constants: its types, *)
(* its inductive invariant, and what follows from it.                      *)
(***************************************************************************)
EXTENDS WriterSafety, SequenceFacts, FiniteSetTheorems

-----------------------------------------------------------------------------
(* The writer's operators. *)

(* Offsets are natural numbers. *)
LEMMA OffsetNat == Offset \subseteq Nat
  BY BoundsAssumption DEF Offset

(* A range inside a list holds its elements. *)
LEMMA SliceType ==
    ASSUME NEW S, NEW list \in Seq(S), NEW span \in Span, InList(list, span)
    PROVE  SliceOf(list, span) \in Seq(S)
<1> DEFINE m == span.start + 1
           n == span.end
<1>1. span.start \in Nat /\ span.end \in Nat
  BY OffsetNat DEF Span
<1>2. m \in Nat \ {0} /\ n \in Nat /\ n <= Len(list)
  BY <1>1 DEF InList
<1> HIDE DEF m, n
<1>3. SubSeq(list, m, n) \in Seq(S)
  BY <1>2, PieceType
<1>4. QED
  BY <1>3 DEF SliceOf, m, n

(* Sorting permutes: the result has the length and the type of what is     *)
(* sorted.                                                                 *)
LEMMA SortedType ==
    ASSUME NEW S, NEW ms \in Seq(S), NEW sorted \in SortedMembers(ms)
    PROVE  sorted \in Seq(S) /\ Len(sorted) = Len(ms)
<1>1. DOMAIN ms = 1 .. Len(ms) /\ Len(ms) \in Nat
  BY LenProperties
<1>2. PICK p \in [1 .. Len(ms) -> 1 .. Len(ms)] : sorted = [i \in 1 .. Len(ms) |-> ms[p[i]]]
  BY <1>1 DEF SortedMembers
<1>3. sorted \in [1 .. Len(ms) -> S]
  BY <1>2, ElementOfSeq
<1>4. QED
  BY <1>1, <1>3, FunctionIsSeq

(* Truncating keeps the first elements of a list, or all of a shorter one. *)
LEMMA KeptType ==
    ASSUME NEW S, NEW list \in Seq(S), NEW n \in Nat
    PROVE  Kept(list, n) \in Seq(S)
<1>1. CASE n < Len(list)
  BY <1>1, PrefixType, LenProperties DEF Kept
<1>2. CASE ~(n < Len(list))
  BY <1>2 DEF Kept
<1>3. QED
  BY <1>1, <1>2

(* The tasks of one member, given that its children are closed objects. *)
LEMMA MemberTasksType ==
    ASSUME closed \in Seq(Closed), NEW span \in Span, NEW inside \in Seq(Offset),
           \A i \in DOMAIN inside : IsClosed(inside[i])
    PROVE  MemberTasks(span, inside) \in Seq(Task)
<1> DEFINE n == Len(inside)
           Cursor(i) == IF i > n THEN span.end ELSE ClosedAt(inside[i]).start
           Piece(j) == LET i == n - (j - 1) \div 2
                       IN  IF j % 2 = 1
                             THEN BytesTask(ClosedAt(inside[i]).end, Cursor(i + 1))
                             ELSE BodyTask(inside[i], 0)
<1>1. n \in Nat /\ DOMAIN inside = 1 .. n
  BY LenProperties
<1>2. ASSUME NEW i \in 1 .. n
      PROVE  ClosedAt(inside[i]) \in Closed /\ inside[i] \in Offset
  <2>1. inside[i] \in Offset /\ inside[i] < Len(closed)
    BY <1>1, ElementOfSeq DEF IsClosed
  <2>2. inside[i] + 1 \in 1 .. Len(closed)
    <3>1. Len(closed) \in Nat
      BY LenProperties
    <3>2. inside[i] \in Nat
      BY <2>1, OffsetNat
    <3>3. QED
      BY <2>1, <3>1, <3>2
  <2>3. QED
    BY <2>1, <2>2, ElementOfSeq DEF ClosedAt
<1>3. \A i \in 1 .. n + 1 : Cursor(i) \in Offset
  BY <1>1, <1>2 DEF Span, Closed
<1>4. ASSUME NEW j \in 1 .. 2 * n
      PROVE  Piece(j) \in Task
  <2>1. n - (j - 1) \div 2 \in 1 .. n
    BY <1>1
  <2> DEFINE i == n - (j - 1) \div 2
  <2>2. ClosedAt(inside[i]).end \in Offset /\ Cursor(i + 1) \in Offset /\ inside[i] \in Offset
    BY <1>1, <1>2, <1>3, <2>1 DEF Closed
  <2>3. inside[i] \in Owner
    BY <2>2 DEF Offset, Owner
  <2> HIDE DEF i, Cursor
  <2>4. BytesTask(ClosedAt(inside[i]).end, Cursor(i + 1)) \in Task
    BY <2>2 DEF BytesTask, Task
  <2>5. BodyTask(inside[i], 0) \in Task
    BY <2>3 DEF BodyTask, Task
  <2>6. QED
    BY <2>4, <2>5 DEF i
<1>5. [j \in 1 .. 2 * n |-> Piece(j)] \in Seq(Task)
  <2> HIDE DEF Piece
  <2>1. [j \in 1 .. 2 * n |-> Piece(j)] \in [1 .. 2 * n -> Task]
    BY <1>4
  <2>2. 2 * n \in Nat
    BY <1>1
  <2>3. QED
    BY <2>1, <2>2, FunctionIsSeq
<1>6. BytesTask(span.start, Cursor(1)) \in Task
  BY <1>1, <1>3 DEF Span, BytesTask, Task
<1>7. QED
  BY <1>5, <1>6, AppendProperties DEF MemberTasks

-----------------------------------------------------------------------------
(* Control: what a step leaves to do. *)

LEMMA RunType ==
    ASSUME ControlOK, NEW steps \in Seq(Step), Run(steps)
    PROVE  ControlOK'
  BY DEF Run, ControlOK

LEMMA RefuseType ==
    ASSUME ControlOK, NEW error \in Errors, Refuse(error)
    PROVE  ControlOK'
<1>1. <<>> \in Seq(Step)
  BY EmptySeq
<1>2. QED
  BY <1>1 DEF Refuse, ControlOK

LEMMA ProceedType ==
    ASSUME ControlOK, todo # <<>>, Proceed
    PROVE  ControlOK'
<1>1. Tail(todo) \in Seq(Step)
  BY HeadTailProperties DEF ControlOK
<1>2. QED
  BY <1>1 DEF Proceed, ControlOK

-----------------------------------------------------------------------------
(* The innermost container is of one of the three kinds. *)
LEMMA TopKinds ==
    ASSUME StackOK, stack # <<>>
    PROVE  /\ Top("Array") \/ Top("Object") \/ Top("Wrapper")
           /\ Top("Array") => Last(stack).first \in BOOLEAN
           /\ Top("Wrapper") => Last(stack).filled \in BOOLEAN
<1>1. Last(stack) \in Open
  BY FrontLast DEF StackOK
<1>2. QED
  BY <1>1 DEF Open, Top, Array, Object, Wrapper

(* Setting the innermost frame's pending name keeps the frames' type. *)
LEMMA PendingSet ==
    ASSUME frames \in Seq(Frame), frames # <<>>, NEW p \in Offset \cup {NoOffset}
    PROVE  [frames EXCEPT ![Len(frames)].pending = p] \in Seq(Frame)
<1> DEFINE f == [frames[Len(frames)] EXCEPT !.pending = p]
<1>1. Len(frames) \in 1 .. Len(frames) /\ frames[Len(frames)] \in Frame
  BY EmptySeq, ElementOfSeq
<1>2. f \in Frame
  BY <1>1 DEF Frame
<1>3. [frames EXCEPT ![Len(frames)] = f] \in Seq(Frame)
  BY <1>1, <1>2, ExceptSeq
<1>4. QED
  BY <1>3

(* Every byte may be produced. *)
LEMMA ProduceIsStep ==
    ASSUME NEW b \in Byte
    PROVE  Produce(b) \in Step
  BY DEF Step

LEMMA PunctuationIsByte == Punctuation \subseteq Byte
  BY DEF Byte

(* One lemma per action: it preserves the types. *)

LEMMA ValueType ==
    ASSUME TypeOK, NEW steps \in Seq(Step), Value(steps)
    PROVE  TypeOK'
<1>1. OutputOK' /\ TextOK' /\ OpenedOK' /\ RecordsOK' /\ WalkOK'
  BY DEF Value, ValueEvent, TypeOK, OutputOK, TextOK, OpenedOK, RecordsOK, WalkOK,
         output, text, opened, records, walk
<1>2. CASE BeforeValueError # "none"
  <2>1. BeforeValueError \in Errors
    <3>1. CASE stack = <<>>
      BY <1>2, <3>1 DEF BeforeValueError, Errors, ProtocolViolations, Top
    <3>2. CASE stack # <<>>
      <4>1. Top("Array") \/ Top("Object") \/ Top("Wrapper")
        BY <3>2, TopKinds DEF TypeOK
      <4>2. QED
        BY <1>2, <3>2, <4>1 DEF BeforeValueError, Errors, ProtocolViolations, Top
    <3>3. QED
      BY <3>1, <3>2
  <2>2. Refuse(BeforeValueError) /\ UNCHANGED <<stack, started, finished>>
    BY <1>2 DEF Value, ValueEvent
  <2>3. QED
    BY <1>1, <2>1, <2>2, RefuseType DEF TypeOK, StackOK
<1>3. CASE BeforeValueError = "none"
  <2>1. started' = TRUE /\ UNCHANGED finished
    BY <1>3 DEF Value, ValueEvent
  <2>2. stack' \in Seq(Open)
    <3>1. CASE Top("Array") \/ Top("Wrapper")
      <4>1. Front(stack) \in Seq(Open)
        BY <3>1, FrontLast DEF Top, TypeOK, StackOK
      <4>2. Array(FALSE) \in Open /\ Wrapper(TRUE) \in Open
        BY DEF Open
      <4>3. stack' \in {Append(Front(stack), Array(FALSE)), Append(Front(stack), Wrapper(TRUE))}
        BY <1>3, <3>1 DEF Value, ValueEvent
      <4>4. /\ Append(Front(stack), Array(FALSE)) \in Seq(Open)
            /\ Append(Front(stack), Wrapper(TRUE)) \in Seq(Open)
        BY <4>1, <4>2, AppendProperties
      <4>5. QED
        BY <4>3, <4>4
    <3>2. CASE ~(Top("Array") \/ Top("Wrapper"))
      BY <1>3, <3>2 DEF Value, ValueEvent, TypeOK, StackOK
    <3>3. QED
      BY <3>1, <3>2
  <2>3. ControlOK'
    <3>1. Produce(",") \in Step
      BY ProduceIsStep DEF Byte, Punctuation
    <3>2. <<Produce(",")>> \o steps \in Seq(Step)
      <4>1. <<Produce(",")>> \in Seq(Step)
        BY <3>1, TupleType
      <4>2. QED
        BY <4>1, ConcatProperties
    <3>3. QED
      BY <1>3, <3>2, RunType DEF Value, ValueEvent, TypeOK
  <2>4. QED
    BY <1>1, <2>1, <2>2, <2>3 DEF TypeOK, StackOK
<1>4. QED
  BY <1>2, <1>3

(* The steps of each value event are steps. *)
LEMMA ValueEventsType ==
    ASSUME TypeOK,
           \/ \E v \in Scalars : Scalar(v)
           \/ Unrepresentable \/ BeginArray \/ BeginObject
           \/ \E n \in Names : BeginWrapper(n)
    PROVE  TypeOK'
<1>1. /\ AfterValue \in Step /\ NoText \in Step /\ PushFrame \in Step
      /\ \A o \in Open : PushOpen(o) \in Step
  BY DEF Step
<1>2. /\ Array(TRUE) \in Open /\ Wrapper(FALSE) \in Open
      /\ \A b \in Names \cup Scalars \cup Punctuation : Produce(b) \in Step
  BY ProduceIsStep DEF Open, Byte
<1>3. "[" \in Punctuation /\ "{" \in Punctuation /\ ":" \in Punctuation
  BY DEF Punctuation
<1>4. ASSUME NEW v \in Scalars, Scalar(v)
      PROVE  TypeOK'
  <2>1. <<Produce(v), AfterValue>> \in Seq(Step)
    BY <1>1, <1>2, TupleType
  <2>2. QED
    BY <1>4, <2>1, ValueType DEF Scalar
<1>5. CASE Unrepresentable
  <2>1. <<NoText, AfterValue>> \in Seq(Step)
    BY <1>1, TupleType
  <2>2. QED
    BY <1>5, <2>1, ValueType DEF Unrepresentable
<1>6. CASE BeginArray
  <2>1. Produce("[") \in Step /\ PushOpen(Array(TRUE)) \in Step
    BY <1>1, <1>2, <1>3
  <2>2. <<Produce("["), PushOpen(Array(TRUE))>> \in Seq(Step)
    BY <2>1, TupleType
  <2>3. QED
    BY <1>6, <2>2, ValueType DEF BeginArray
<1>7. CASE BeginObject
  <2>1. Produce("{") \in Step /\ PushFrame \in Step
    BY <1>1, <1>2, <1>3
  <2>2. <<Produce("{"), PushFrame>> \in Seq(Step)
    BY <2>1, TupleType
  <2>3. QED
    BY <1>7, <2>2, ValueType DEF BeginObject
<1>8. ASSUME NEW n \in Names, BeginWrapper(n)
      PROVE  TypeOK'
  <2>1. /\ Produce("{") \in Step /\ PushOpen(Wrapper(FALSE)) \in Step
        /\ Produce(n) \in Step /\ Produce(":") \in Step
    BY <1>1, <1>2, <1>3
  <2>2. <<Produce("{"), PushOpen(Wrapper(FALSE)), Produce(n), Produce(":")>> \in Seq(Step)
    BY <2>1, TupleType
  <2>3. QED
    BY <1>8, <2>2, ValueType DEF BeginWrapper
<1>9. QED
  BY <1>4, <1>5, <1>6, <1>7, <1>8

LEMMA EndContainerType ==
    ASSUME TypeOK, NEW open, NEW brace \in Punctuation, EndContainer(open, brace)
    PROVE  TypeOK'
<1>1. /\ OutputOK' /\ TextOK' /\ OpenedOK' /\ RecordsOK' /\ WalkOK' /\ StackOK'
  BY DEF EndContainer, TypeOK, OutputOK, TextOK, OpenedOK, RecordsOK, WalkOK, StackOK,
         output, text, opened, records, walk
<1>2. Produce(brace) \in Step /\ Pop \in Step /\ AfterValue \in Step
  BY ProduceIsStep, PunctuationIsByte DEF Step
<1>3. <<Produce(brace), Pop, AfterValue>> \in Seq(Step)
  BY <1>2, TupleType
<1>4. "MismatchedEnd" \in Errors
  BY DEF Errors, ProtocolViolations
<1>5. Run(<<Produce(brace), Pop, AfterValue>>) \/ Refuse("MismatchedEnd")
  BY DEF EndContainer
<1>6. ControlOK'
  BY <1>3, <1>4, <1>5, RunType, RefuseType DEF TypeOK
<1>7. QED
  BY <1>1, <1>6 DEF TypeOK

LEMMA NameType ==
    ASSUME TypeOK, NEW n \in Names, Name(n)
    PROVE  TypeOK'
<1>1. /\ OutputOK' /\ OpenedOK' /\ RecordsOK' /\ WalkOK' /\ StackOK' /\ buffer' = buffer
  BY DEF Name, NameEvent, TypeOK, OutputOK, OpenedOK, RecordsOK, WalkOK, StackOK,
         output, opened, records, walk
<1>2. CASE NameError # "none"
  <2>1. Refuse(NameError) /\ frames' = frames
    BY <1>2 DEF Name, NameEvent
  <2>2. NameError \in Errors
    BY <1>2 DEF NameError, Errors, ProtocolViolations
  <2>3. QED
    BY <1>1, <2>1, <2>2, RefuseType DEF TypeOK, TextOK
<1>3. CASE NameError = "none"
  <2>1. /\ frames' = [frames EXCEPT ![Len(frames)].pending = Len(buffer)]
        /\ Run(<<Produce(n), Produce(":")>>)
    BY <1>3 DEF Name, NameEvent
  <2>2. frames # <<>> /\ ~OffsetTooLarge
    BY <1>3 DEF NameError
  <2>3. Len(buffer) \in Offset
    <3>1. Len(buffer) \in Nat
      BY LenProperties DEF TypeOK, TextOK
    <3>2. QED
      BY <2>2, <3>1, BoundsAssumption DEF OffsetTooLarge, Offset
  <2>4. TextOK'
    BY <1>1, <2>1, <2>2, <2>3, PendingSet DEF TypeOK, TextOK
  <2>5. Produce(n) \in Step /\ Produce(":") \in Step
    BY ProduceIsStep DEF Byte, Punctuation
  <2>6. <<Produce(n), Produce(":")>> \in Seq(Step)
    BY <2>5, TupleType
  <2>7. QED
    BY <1>1, <2>1, <2>4, <2>6, RunType DEF TypeOK
<1>4. QED
  BY <1>2, <1>3

(* The head of a step at hand. *)
LEMMA AtHead ==
    ASSUME ControlOK, NEW op, At(op)
    PROVE  todo # <<>> /\ Head(todo) \in Step /\ Head(todo).op = op
  BY HeadTailProperties DEF At, ControlOK

LEMMA ProduceStepType ==
    ASSUME TypeOK, ProduceStep
    PROVE  TypeOK'
<1> DEFINE b == Head(todo).byte
<1>1. /\ OpenedOK' /\ RecordsOK' /\ WalkOK' /\ StackOK' /\ frames' = frames
  BY DEF ProduceStep, TypeOK, OpenedOK, RecordsOK, WalkOK, StackOK, opened, records, walk
<1>2. todo # <<>> /\ b \in Byte
  BY AtHead DEF ProduceStep, TypeOK, Step, Produce, PushOpen, PushFrame, Pop, AfterValue,
                Walk, NoText
<1>3. Append(sink, b) \in Seq(Byte) /\ Append(buffer, b) \in Seq(Byte)
  BY <1>2, AppendProperties DEF TypeOK, OutputOK, TextOK
<1>4. /\ sink' \in {sink, Append(sink, b)} /\ buffer' \in {buffer, Append(buffer, b)}
      /\ produced' \in {produced, produced + 1}
      /\ produced' = produced \/ ~OverCeiling(1)
  BY DEF ProduceStep, output
<1>5. produced' \in 0 .. MaxBytes
  BY <1>4, BoundsAssumption DEF OverCeiling, TypeOK, OutputOK
<1>6. OutputOK' /\ TextOK'
  BY <1>1, <1>3, <1>4, <1>5 DEF TypeOK, OutputOK, TextOK
<1>7. \/ Proceed
      \/ Refuse("CanonicalBytes") \/ Refuse(IF frames = <<>> THEN "Sink" ELSE "Allocation")
  BY DEF ProduceStep
<1>8. "CanonicalBytes" \in Errors /\ (IF frames = <<>> THEN "Sink" ELSE "Allocation") \in Errors
  BY DEF Errors
<1>9. ControlOK'
  BY <1>2, <1>7, <1>8, ProceedType, RefuseType DEF TypeOK
<1>10. QED
  BY <1>1, <1>6, <1>9 DEF TypeOK

LEMMA NoTextStepType ==
    ASSUME TypeOK, NoTextStep
    PROVE  TypeOK'
<1>1. "Unrepresentable" \in Errors
  BY DEF Errors
<1>2. QED
  BY <1>1, RefuseType DEF NoTextStep, TypeOK, OutputOK, TextOK, OpenedOK, RecordsOK,
       WalkOK, StackOK, output, text, opened, records, walk

LEMMA PushOpenStepType ==
    ASSUME TypeOK, PushOpenStep
    PROVE  TypeOK'
<1>1. /\ OutputOK' /\ TextOK' /\ OpenedOK' /\ RecordsOK' /\ WalkOK'
      /\ UNCHANGED <<started, finished>>
  BY DEF PushOpenStep, TypeOK, OutputOK, TextOK, OpenedOK, RecordsOK, WalkOK,
         output, text, opened, records, walk
<1>2. todo # <<>> /\ Head(todo).open \in Open
  BY AtHead DEF PushOpenStep, TypeOK, Step, Produce, PushOpen, PushFrame, Pop, AfterValue,
                Walk, NoText
<1>3. stack' \in {stack, Append(stack, Head(todo).open)}
  BY DEF PushOpenStep
<1>4. StackOK'
  BY <1>1, <1>2, <1>3, AppendProperties DEF TypeOK, StackOK
<1>5. "Allocation" \in Errors
  BY DEF Errors
<1>6. ControlOK'
  BY <1>2, <1>5, ProceedType, RefuseType DEF PushOpenStep, TypeOK
<1>7. QED
  BY <1>1, <1>4, <1>6 DEF TypeOK

LEMMA PushFrameStepType ==
    ASSUME TypeOK, PushFrameStep
    PROVE  TypeOK'
<1> DEFINE frame == [start |-> Len(buffer), members |-> Len(open_members),
                     children |-> Len(open_children), pending |-> NoOffset]
<1>1. /\ OutputOK' /\ OpenedOK' /\ RecordsOK' /\ WalkOK'
      /\ UNCHANGED <<buffer, started, finished>>
  BY DEF PushFrameStep, TypeOK, OutputOK, OpenedOK, RecordsOK, WalkOK,
         output, opened, records, walk
<1>2. todo # <<>>
  BY DEF PushFrameStep, At
<1>3. /\ Len(buffer) \in Nat /\ Len(open_members) \in Nat /\ Len(open_children) \in Nat
  BY LenProperties DEF TypeOK, TextOK, OpenedOK
<1>4. \/ frames' = frames
      \/ /\ frames' = Append(frames, frame)
         /\ ~OffsetTooLarge /\ ~IndexTooLarge(open_members) /\ ~IndexTooLarge(open_children)
  BY DEF PushFrameStep
<1>5. TextOK'
  <2>1. CASE frames' = frames
    BY <1>1, <2>1 DEF TypeOK, TextOK
  <2>2. CASE frames' # frames
    <3>1. frame \in Frame
      BY <1>3, <1>4, <2>2, BoundsAssumption DEF Frame, Offset, OffsetTooLarge, IndexTooLarge
    <3>2. QED
      BY <1>1, <1>4, <2>2, <3>1, AppendProperties DEF TypeOK, TextOK
  <2>3. QED
    BY <2>1, <2>2
<1>6. stack' \in {stack, Append(stack, Object)} /\ Object \in Open
  BY DEF PushFrameStep, Open
<1>7. StackOK'
  BY <1>1, <1>6, AppendProperties DEF TypeOK, StackOK
<1>8. \/ Proceed \/ Refuse("Internal")
      \/ Refuse(IF OffsetTooLarge THEN "ObjectBytes" ELSE "Allocation")
  BY DEF PushFrameStep
<1>9. "Internal" \in Errors /\ (IF OffsetTooLarge THEN "ObjectBytes" ELSE "Allocation") \in Errors
  BY DEF Errors
<1>10. ControlOK'
  BY <1>2, <1>8, <1>9, ProceedType, RefuseType DEF TypeOK
<1>11. QED
  BY <1>1, <1>5, <1>7, <1>10 DEF TypeOK

LEMMA PopStepType ==
    ASSUME TypeOK, PopStep
    PROVE  TypeOK'
<1>1. /\ OutputOK' /\ TextOK' /\ OpenedOK' /\ RecordsOK' /\ WalkOK'
      /\ UNCHANGED <<started, finished>>
  BY DEF PopStep, TypeOK, OutputOK, TextOK, OpenedOK, RecordsOK, WalkOK,
         output, text, opened, records, walk
<1>2. StackOK'
  BY <1>1, FrontType DEF PopStep, TypeOK, StackOK
<1>3. ControlOK'
  BY ProceedType DEF PopStep, At, TypeOK
<1>4. QED
  BY <1>1, <1>2, <1>3 DEF TypeOK

LEMMA AfterValueStepType ==
    ASSUME TypeOK, AfterValueStep
    PROVE  TypeOK'
<1> DEFINE span == [start |-> TopFrame.pending, end |-> Len(buffer)]
<1>1. /\ OutputOK' /\ RecordsOK' /\ WalkOK' /\ StackOK' /\ UNCHANGED <<buffer, open_children>>
  BY DEF AfterValueStep, TypeOK, OutputOK, RecordsOK, WalkOK, StackOK,
         output, records, walk
<1>2. todo # <<>>
  BY DEF AfterValueStep, At
<1>3. ControlOK'
  <2>1. \/ Proceed \/ Refuse("Allocation")
        \/ Refuse(IF OffsetTooLarge THEN "ObjectBytes" ELSE "Internal")
    BY DEF AfterValueStep
  <2>2. "Allocation" \in Errors /\ (IF OffsetTooLarge THEN "ObjectBytes" ELSE "Internal") \in Errors
    BY DEF Errors
  <2>3. QED
    BY <1>2, <2>1, <2>2, ProceedType, RefuseType DEF TypeOK
<1>4. CASE UNCHANGED <<frames, open_members>>
  BY <1>1, <1>3, <1>4 DEF TypeOK, TextOK, OpenedOK
<1>5. CASE ~UNCHANGED <<frames, open_members>>
  <2>1. /\ ~OffsetTooLarge /\ NamePending
        /\ frames' = [frames EXCEPT ![Len(frames)].pending = NoOffset]
        /\ open_members' \in {open_members, Append(open_members, span)}
    BY <1>5 DEF AfterValueStep
  <2>2. TextOK'
    <3>1. frames \in Seq(Frame) /\ frames # <<>> /\ NoOffset \in Offset \cup {NoOffset}
      BY <2>1 DEF TypeOK, TextOK, NamePending
    <3>2. [frames EXCEPT ![Len(frames)].pending = NoOffset] \in Seq(Frame)
      BY <3>1, PendingSet
    <3>3. QED
      BY <1>1, <2>1, <3>2 DEF TypeOK, TextOK
  <2>3. span \in Span
    <3>1. TopFrame \in Frame
      BY <2>1, FrontLast DEF TypeOK, TextOK, NamePending, TopFrame
    <3>2. TopFrame.pending \in Offset
      BY <2>1, <3>1 DEF NamePending, Frame
    <3>3. Len(buffer) \in Nat
      BY LenProperties DEF TypeOK, TextOK
    <3>4. Len(buffer) \in Offset
      BY <2>1, <3>3, BoundsAssumption DEF OffsetTooLarge, Offset
    <3>5. QED
      BY <3>2, <3>4 DEF Span
  <2>4. OpenedOK'
    <3> HIDE DEF span
    <3>1. Append(open_members, span) \in Seq(Span)
      BY <2>3, AppendProperties DEF TypeOK, OpenedOK
    <3>2. QED
      BY <1>1, <2>1, <3>1 DEF TypeOK, OpenedOK
  <2>5. QED
    BY <1>1, <1>3, <2>2, <2>4 DEF TypeOK
<1>6. QED
  BY <1>4, <1>5

LEMMA CloseOutermostType ==
    ASSUME TypeOK, NEW members \in Seq(Span), CloseOutermost(members)
    PROVE  OpenedOK' /\ RecordsOK' /\ WalkOK' /\ ControlOK'
<1>1. BodyTask(Root, 0) \in Task
  BY DEF BodyTask, Task, Owner, Root
<1>2. <<BodyTask(Root, 0)>> \in Seq(Task) /\ <<>> \in Seq(Span) /\ <<>> \in Seq(Offset)
  BY <1>1, TupleType, EmptySeq
<1>3. Walk \in Step /\ AfterValue \in Step
  BY DEF Step
<1>4. <<Walk, AfterValue>> \in Seq(Step)
  BY <1>3, TupleType
<1>5. ControlOK'
  BY <1>4, RunType DEF CloseOutermost, TypeOK
<1>6. OpenedOK' /\ WalkOK' /\ RecordsOK'
  BY <1>2 DEF CloseOutermost, TypeOK, OpenedOK, WalkOK, RecordsOK, records
<1>7. QED
  BY <1>5, <1>6

(* The arithmetic of landing b - c entries behind a others. *)
LEMMA CloseNestedType ==
    ASSUME TypeOK, NEW members \in Seq(Span), CloseNested(members), frames # <<>>
    PROVE  OpenedOK' /\ RecordsOK' /\ WalkOK' /\ ControlOK'
<1> DEFINE children == SubSeq(open_children, TopFrame.children + 1, Len(open_children))
           Landed(list, items) == [start |-> Len(list), end |-> Len(list) + Len(items)]
           record == [start |-> TopFrame.start, end |-> Len(buffer),
                      members |-> Landed(closed_members, members),
                      children |-> Landed(closed_children, children)]
           kept == Kept(open_children, TopFrame.children)
           Fault(k) == StageFault(k, members, children)
           Passed(k) == Fault(k) \in {"Allocation", "none"}
<1>1. TopFrame \in Frame
  BY FrontLast DEF TypeOK, TextOK, TopFrame
<1>2. /\ TopFrame.start \in Offset
      /\ TopFrame.members \in Nat /\ TopFrame.children \in Nat
  BY <1>1, OffsetNat DEF Frame
<1>3. /\ Len(buffer) \in Nat /\ Len(open_members) \in Nat /\ Len(open_children) \in Nat
      /\ Len(closed) \in Nat /\ Len(closed_members) \in Nat /\ Len(closed_children) \in Nat
      /\ Len(members) \in Nat
  BY LenProperties DEF TypeOK, TextOK, OpenedOK, RecordsOK
<1>4. children \in Seq(Offset) /\ Len(children) \in Nat
  BY <1>2, SuffixType DEF TypeOK, OpenedOK
<1>5. PICK done \in 0 .. 5 :
        /\ \A k \in 0 .. done - 1 : Passed(k)
        /\ closed_members' = IF done >= 1 THEN closed_members \o members ELSE closed_members
        /\ closed_children' = IF done >= 2 THEN closed_children \o children
                              ELSE closed_children
        /\ open_members' = IF done >= 3 THEN Kept(open_members, TopFrame.members)
                           ELSE open_members
        /\ open_children' = IF done = 5 THEN Append(kept, Len(closed))
                            ELSE IF done >= 3 THEN kept ELSE open_children
        /\ closed' = IF done >= 4 THEN Append(closed, record) ELSE closed
        /\ IF done = 5 THEN Run(<<AfterValue>>) ELSE Fault(done) # "none" /\ Refuse(Fault(done))
        /\ UNCHANGED walk
  BY DEF CloseNested
<1> HIDE DEF children
<1>6. ASSUME NEW k \in 0 .. 4, k < done
      PROVE  Passed(k)
  <2>1. k \in 0 .. done - 1
    BY <1>6
  <2>2. \A j \in 0 .. done - 1 : Passed(j)
    BY <1>5
  <2> HIDE DEF Passed
  <2>3. QED
    BY <2>1, <2>2
<1>7. done >= 1 => /\ TopFrame.children <= Len(open_children) /\ Len(buffer) \in Offset
                   /\ Len(closed_members) \in Offset
  <2>1. SUFFICES ASSUME done >= 1
                 PROVE  /\ TopFrame.children <= Len(open_children) /\ Len(buffer) \in Offset
                        /\ Len(closed_members) \in Offset
    OBVIOUS
  <2>2. Fault(0) \in {"Allocation", "none"}
    BY <1>6, <2>1
  <2>3. /\ ~(TopFrame.children > Len(open_children)) /\ ~OffsetTooLarge
        /\ ~IndexTooLarge(closed_members)
    BY <2>2 DEF StageFault
  <2>4. QED
    BY <1>2, <1>3, <2>3, BoundsAssumption DEF OffsetTooLarge, IndexTooLarge, Offset
<1>8. done >= 2 => /\ Len(closed_members) + Len(members) \in Offset
                   /\ Len(closed_children) \in Offset
  <2>1. SUFFICES ASSUME done >= 2
                 PROVE  /\ Len(closed_members) + Len(members) \in Offset
                        /\ Len(closed_children) \in Offset
    OBVIOUS
  <2>2. Fault(1) \in {"Allocation", "none"}
    BY <1>6, <2>1
  <2>3. /\ ~(Len(closed_members) + Len(members) > MaxOffset)
        /\ ~IndexTooLarge(closed_children)
    BY <2>2 DEF StageFault
  <2>4. QED
    BY <1>3, <2>3, BoundsAssumption DEF IndexTooLarge, Offset
<1>9. done >= 3 => Len(closed_children) + Len(children) \in Offset
  <2>1. SUFFICES ASSUME done >= 3
                 PROVE  Len(closed_children) + Len(children) \in Offset
    OBVIOUS
  <2>2. Fault(2) \in {"Allocation", "none"}
    BY <1>6, <2>1
  <2>3. ~(Len(closed_children) + Len(children) > MaxOffset)
    BY <2>2 DEF StageFault
  <2>4. QED
    BY <1>3, <1>4, <2>3, BoundsAssumption DEF Offset
<1>10. done >= 4 => Len(closed) \in Offset
  <2>1. SUFFICES ASSUME done >= 4
                 PROVE  Len(closed) \in Offset
    OBVIOUS
  <2>2. Fault(3) \in {"Allocation", "none"}
    BY <1>6, <2>1
  <2>3. ~IndexTooLarge(closed)
    BY <2>2 DEF StageFault
  <2>4. QED
    BY <1>3, <2>3, BoundsAssumption DEF IndexTooLarge, Offset
<1>11. done >= 4 => record \in Closed
  <2>1. SUFFICES ASSUME done >= 4
                 PROVE  record \in Closed
    OBVIOUS
  <2>2. Landed(closed_members, members) \in Span
    BY <1>7, <1>8, <2>1 DEF Span
  <2>3. Landed(closed_children, children) \in Span
    BY <1>8, <1>9, <2>1 DEF Span
  <2> HIDE DEF Landed
  <2>4. QED
    BY <1>2, <1>7, <2>1, <2>2, <2>3 DEF Closed
<1>12. RecordsOK'
  <2>1. closed_members \o members \in Seq(Span) /\ closed_children \o children \in Seq(Offset)
    BY <1>4, ConcatProperties DEF TypeOK, RecordsOK
  <2> HIDE DEF record
  <2>2. done >= 4 => Append(closed, record) \in Seq(Closed)
    BY <1>11, AppendProperties DEF TypeOK, RecordsOK
  <2>3. QED
    BY <1>5, <2>1, <2>2 DEF TypeOK, RecordsOK
<1>13. OpenedOK'
  <2>1. Kept(open_members, TopFrame.members) \in Seq(Span)
    BY <1>2, KeptType DEF TypeOK, OpenedOK
  <2>2. kept \in Seq(Offset)
    BY <1>2, KeptType DEF TypeOK, OpenedOK
  <2> HIDE DEF kept
  <2>3. done = 5 => Append(kept, Len(closed)) \in Seq(Offset)
    BY <1>10, <2>2, AppendProperties
  <2>4. QED
    BY <1>5, <2>1, <2>2, <2>3 DEF TypeOK, OpenedOK
<1>14. ControlOK'
  <2>1. AfterValue \in Step
    BY DEF Step
  <2>2. CASE done = 5
    BY <1>5, <2>1, <2>2, TupleType, RunType DEF TypeOK
  <2>3. CASE done # 5
    <3>1. Fault(done) # "none" /\ Refuse(Fault(done))
      BY <1>5, <2>3
    <3>2. Fault(done) \in Errors
      BY <3>1 DEF StageFault, Errors
    <3>3. QED
      BY <3>1, <3>2, RefuseType DEF TypeOK
  <2>4. QED
    BY <2>2, <2>3
<1>15. QED
  BY <1>5, <1>12, <1>13, <1>14 DEF TypeOK, WalkOK, walk

LEMMA EndObjectType ==
    ASSUME TypeOK, EndObject
    PROVE  TypeOK'
<1> DEFINE own == SubSeq(open_members, TopFrame.members + 1, Len(open_members))
<1>1. UNCHANGED <<buffer, sink, started, finished>>
  BY DEF EndObject, EndObjectEvent
<1>2. CASE EndObjectError # "none"
  <2>1. /\ Refuse(EndObjectError)
        /\ UNCHANGED <<produced, stack, frames, opened, records, walk>>
    BY <1>2 DEF EndObject, EndObjectEvent
  <2>2. EndObjectError \in Errors
    BY <1>2 DEF EndObjectError, Errors, ProtocolViolations
  <2>3. ControlOK'
    BY <2>1, <2>2, RefuseType DEF TypeOK
  <2>4. QED
    BY <1>1, <2>1, <2>3 DEF TypeOK, OutputOK, TextOK, OpenedOK, RecordsOK, WalkOK, StackOK,
       opened, records, walk
<1>3. CASE EndObjectError = "none"
  <2>1. frames # <<>>
    BY <1>3 DEF EndObjectError
  <2>2. PICK members \in SortedMembers(own) :
          \/ /\ CloseError(members) # "none"
             /\ Refuse(CloseError(members))
             /\ UNCHANGED <<produced, opened, records, walk>>
          \/ /\ CloseError(members) = "none"
             /\ produced' = produced + ClosingBytes(members)
             /\ CloseOutermost(members) \/ CloseNested(members)
    BY <1>3 DEF EndObject, EndObjectEvent
  <2>3. stack' = Front(stack) /\ frames' = Front(frames)
    BY <1>3 DEF EndObject, EndObjectEvent
  <2>4. StackOK' /\ TextOK'
    BY <1>1, <2>3, FrontType DEF TypeOK, StackOK, TextOK
  <2>5. TopFrame \in Frame
    BY <2>1, FrontLast DEF TypeOK, TextOK, TopFrame
  <2>6. TopFrame.members \in Nat
    BY <2>5, OffsetNat DEF Frame
  <2>7. /\ own \in Seq(Span)
        /\ Len(own) = IF TopFrame.members <= Len(open_members)
                        THEN Len(open_members) - TopFrame.members ELSE 0
    BY <2>6, SuffixType DEF TypeOK, OpenedOK
  <2> HIDE DEF own
  <2>8. members \in Seq(Span) /\ Len(members) = Len(own)
    BY <2>7, SortedType
  <2>9. CASE CloseError(members) # "none"
    <3>1. CloseError(members) \in Errors
      BY <2>9 DEF CloseError, Errors
    <3>2. ControlOK'
      BY <2>2, <2>9, <3>1, RefuseType DEF TypeOK
    <3>3. QED
      BY <1>1, <2>2, <2>4, <2>9, <3>2 DEF TypeOK, OutputOK, OpenedOK, RecordsOK, WalkOK,
         opened, records, walk
  <2>10. CASE CloseError(members) = "none"
    <3>1. TopFrame.members <= Len(open_members) /\ ~OverCeiling(ClosingBytes(members))
      <4>1. ~(TopFrame.members > Len(open_members)) /\ ~OverCeiling(ClosingBytes(members))
        BY <2>10 DEF CloseError
      <4>2. Len(open_members) \in Nat
        BY LenProperties DEF TypeOK, OpenedOK
      <4>3. QED
        BY <2>6, <4>1, <4>2
    <3>2. ClosingBytes(members) \in Nat
      BY <2>8, LenProperties DEF ClosingBytes
    <3>3. OutputOK'
      BY <1>1, <2>2, <2>10, <3>1, <3>2, BoundsAssumption DEF TypeOK, OutputOK, OverCeiling
    <3>4. OpenedOK' /\ RecordsOK' /\ WalkOK' /\ ControlOK'
      BY <2>1, <2>2, <2>8, <2>10, CloseOutermostType, CloseNestedType
    <3>5. QED
      BY <2>4, <3>3, <3>4 DEF TypeOK
  <2>11. QED
    BY <2>9, <2>10
<1>4. QED
  BY <1>2, <1>3

LEMMA RefuseWalkType ==
    ASSUME TypeOK, NEW error \in Errors, RefuseWalk(error)
    PROVE  WalkOK' /\ ControlOK'
<1>1. ControlOK'
  BY RefuseType DEF RefuseWalk, TypeOK
<1>2. <<>> \in Seq(Span) /\ <<>> \in Seq(Offset) /\ <<>> \in Seq(Task)
  BY EmptySeq
<1>3. WalkOK'
  BY <1>2 DEF RefuseWalk, WalkOK
<1>4. QED
  BY <1>1, <1>3

(* The topmost task, by its kind. *)
LEMMA TopTask ==
    ASSUME WalkOK, NEW kind, Walking(kind)
    PROVE  /\ tasks # <<>> /\ Last(tasks) \in Task /\ Front(tasks) \in Seq(Task)
           /\ kind = "Bytes" => Last(tasks).start \in Offset /\ Last(tasks).end \in Offset
           /\ kind = "Body" => Last(tasks).owner \in Owner /\ Last(tasks).next \in Nat
           /\ kind = "Member" => Last(tasks).owner \in Owner /\ Last(tasks).span \in Span
<1>1. tasks # <<>> /\ Last(tasks).task = kind
  BY DEF Walking
<1>2. Last(tasks) \in Task /\ Front(tasks) \in Seq(Task)
  BY <1>1, FrontLast DEF WalkOK
<1>3. QED
  BY <1>1, <1>2 DEF Task

(* The lists of an owner whose records are in place. *)
LEMMA OwnLists ==
    ASSUME RecordsOK, WalkOK, NEW owner \in Owner, ~ListsFault(owner)
    PROVE  OwnMembers(owner) \in Seq(Span) /\ OwnChildren(owner) \in Seq(Offset)
<1>1. CASE owner = Root
  BY <1>1 DEF OwnMembers, OwnChildren, WalkOK
<1>2. CASE owner # Root
  <2>1. owner \in Nat /\ owner < Len(closed)
    BY <1>2 DEF Owner, ListsFault, IsClosed
  <2>2. owner + 1 \in 1 .. Len(closed)
    <3>1. Len(closed) \in Nat
      BY LenProperties DEF RecordsOK
    <3>2. QED
      BY <2>1, <3>1
  <2>3. ClosedAt(owner) \in Closed
    BY <2>2, ElementOfSeq DEF RecordsOK, ClosedAt
  <2>4. /\ InList(closed_members, ClosedAt(owner).members)
        /\ InList(closed_children, ClosedAt(owner).children)
    BY <1>2 DEF ListsFault
  <2>5. ClosedAt(owner).members \in Span /\ ClosedAt(owner).children \in Span
    BY <2>3 DEF Closed
  <2>6. /\ SliceOf(closed_members, ClosedAt(owner).members) \in Seq(Span)
        /\ SliceOf(closed_children, ClosedAt(owner).children) \in Seq(Offset)
    BY <2>4, <2>5, SliceType DEF RecordsOK
  <2>7. QED
    BY <1>2, <2>6 DEF OwnMembers, OwnChildren
<1>3. QED
  BY <1>1, <1>2

(* A count of some of a list's elements is at most its length. *)
LEMMA StartsByBound ==
    ASSUME NEW children \in Seq(Offset), NEW offset
    PROVE  StartsBy(children, offset) \in Nat /\ StartsBy(children, offset) <= Len(children)
<1> DEFINE T == {i \in DOMAIN children :
                   IsClosed(children[i]) /\ ClosedAt(children[i]).start <= offset}
<1>1. DOMAIN children = 1 .. Len(children) /\ Len(children) \in Nat
  BY LenProperties
<1>2. IsFiniteSet(1 .. Len(children)) /\ Cardinality(1 .. Len(children)) = Len(children)
  <2>1. /\ IsFiniteSet(1 .. Len(children))
        /\ Cardinality(1 .. Len(children))
             = IF 1 > Len(children) THEN 0 ELSE Len(children) - 1 + 1
    BY <1>1, FS_Interval
  <2>2. QED
    BY <1>1, <2>1
<1>3. T \subseteq 1 .. Len(children)
  BY <1>1
<1> HIDE DEF T
<1>4. IsFiniteSet(T) /\ Cardinality(T) <= Len(children)
  BY <1>2, <1>3, FS_Subset
<1>5. Cardinality(T) \in Nat
  BY <1>4, FS_CardinalityType
<1>6. QED
  BY <1>4, <1>5 DEF T, StartsBy

(* The children inside a member are a piece of its object's list. *)
LEMMA InsideType ==
    ASSUME NEW span \in Span, NEW children \in Seq(Offset)
    PROVE  Inside(span, children) \in Seq(Offset)
<1> DEFINE m == StartsBy(children, span.start) + 1
           n == StartsBy(children, span.end)
<1>1. m \in Nat \ {0} /\ n \in Nat /\ n <= Len(children)
  BY StartsByBound
<1> HIDE DEF m, n
<1>2. SubSeq(children, m, n) \in Seq(Offset)
  BY <1>1, PieceType
<1>3. QED
  BY <1>2 DEF Inside, m, n

LEMMA WalkBytesType ==
    ASSUME TypeOK, WalkBytes
    PROVE  TypeOK'
<1> DEFINE span == [start |-> Last(tasks).start, end |-> Last(tasks).end]
<1>1. /\ TextOK' /\ OpenedOK' /\ RecordsOK' /\ StackOK' /\ produced' = produced
  BY DEF WalkBytes, TypeOK, TextOK, OpenedOK, RecordsOK, StackOK, text, opened, records
<1>2. Last(tasks).start \in Offset /\ Last(tasks).end \in Offset /\ Front(tasks) \in Seq(Task)
  BY TopTask DEF WalkBytes, TypeOK
<1>3. CASE /\ span.start >= span.end \/ InBuffer(span)
           /\ sink' = IF span.start < span.end THEN sink \o SpanBytes(span) ELSE sink
           /\ tasks' = Front(tasks)
           /\ UNCHANGED <<control, root_members, root_children>>
  <2>1. sink' \in Seq(Byte)
    <3>1. CASE span.start < span.end
      <4>1. InBuffer(span)
        <5>1. span.start \in Nat /\ span.end \in Nat
          BY <1>2, OffsetNat
        <5> HIDE DEF span
        <5>2. ~(span.start >= span.end)
          BY <3>1, <5>1
        <5>3. QED
          BY <1>3, <5>2
      <4>2. span \in Span /\ InList(buffer, span)
        BY <1>2, <4>1 DEF Span, InBuffer, InList
      <4>3. SpanBytes(span) \in Seq(Byte)
        <5> HIDE DEF span
        <5>1. SliceOf(buffer, span) \in Seq(Byte)
          BY <4>2, SliceType DEF TypeOK, TextOK
        <5>2. QED
          BY <5>1 DEF SpanBytes, SliceOf
      <4>4. QED
        BY <1>3, <3>1, <4>3, ConcatProperties DEF TypeOK, OutputOK
    <3>2. CASE ~(span.start < span.end)
      BY <1>3, <3>2 DEF TypeOK, OutputOK
    <3>3. QED
      BY <3>1, <3>2
  <2>2. QED
    BY <1>1, <1>2, <1>3, <2>1 DEF TypeOK, OutputOK, WalkOK, ControlOK, control
<1>4. CASE /\ RefuseWalk(IF InBuffer(span) THEN "Sink" ELSE "Internal")
           /\ UNCHANGED sink
  <2>1. (IF InBuffer(span) THEN "Sink" ELSE "Internal") \in Errors
    BY DEF Errors
  <2>2. WalkOK' /\ ControlOK'
    BY <1>4, <2>1, RefuseWalkType
  <2>3. QED
    BY <1>1, <1>4, <2>2 DEF TypeOK, OutputOK
<1>5. \/ /\ span.start >= span.end \/ InBuffer(span)
         /\ sink' = IF span.start < span.end THEN sink \o SpanBytes(span) ELSE sink
         /\ tasks' = Front(tasks)
         /\ UNCHANGED <<control, root_members, root_children>>
      \/ /\ RefuseWalk(IF InBuffer(span) THEN "Sink" ELSE "Internal")
         /\ UNCHANGED sink
  <2> HIDE DEF span
  <2>1. QED
    BY DEF WalkBytes, span
<1> HIDE DEF span
<1>6. QED
  BY <1>3, <1>4, <1>5

LEMMA WalkBodyType ==
    ASSUME TypeOK, WalkBody
    PROVE  TypeOK'
<1> DEFINE owner == Last(tasks).owner
           next == Last(tasks).next
           members == OwnMembers(owner)
           comma == IF next > 0 THEN <<",">> ELSE <<>>
<1>1. /\ TextOK' /\ OpenedOK' /\ RecordsOK' /\ StackOK' /\ produced' = produced
  BY DEF WalkBody, TypeOK, TextOK, OpenedOK, RecordsOK, StackOK, text, opened, records
<1>2. owner \in Owner /\ next \in Nat /\ Front(tasks) \in Seq(Task)
  BY TopTask DEF WalkBody, TypeOK
<1>3. sink \o comma \in Seq(Byte) /\ Append(sink, "}") \in Seq(Byte)
  <2>1. "," \in Byte /\ "}" \in Byte
    BY DEF Byte, Punctuation
  <2>2. comma \in Seq(Byte)
    BY <2>1, TupleType
  <2> HIDE DEF comma
  <2>3. QED
    BY <2>1, <2>2, ConcatProperties, AppendProperties DEF TypeOK, OutputOK
<1>4. ASSUME NEW error \in Errors, RefuseWalk(error), sink' \in Seq(Byte)
      PROVE  TypeOK'
  BY <1>1, <1>4, RefuseWalkType DEF TypeOK, OutputOK
<1>5. ASSUME NEW more \in Seq(Task), sink' \in Seq(Byte), tasks' = Front(tasks) \o more,
             UNCHANGED <<control, root_members, root_children>>
      PROVE  TypeOK'
  <2>1. tasks' \in Seq(Task)
    BY <1>2, <1>5, ConcatProperties
  <2>2. QED
    BY <1>1, <1>5, <2>1 DEF TypeOK, OutputOK, WalkOK, ControlOK, control
<1>6. ASSUME sink' \in Seq(Byte), tasks' = Front(tasks),
             UNCHANGED <<control, root_members, root_children>>
      PROVE  TypeOK'
  BY <1>1, <1>2, <1>6 DEF TypeOK, OutputOK, WalkOK, ControlOK, control
<1>7. ASSUME ~ListsFault(owner), next < Len(members)
      PROVE  <<BodyTask(owner, next + 1), MemberTask(owner, members[next + 1])>> \in Seq(Task)
  <2>1. members \in Seq(Span)
    BY <1>2, <1>7, OwnLists DEF TypeOK
  <2> HIDE DEF members
  <2>2. Len(members) \in Nat
    BY <2>1, LenProperties
  <2>3. next + 1 \in 1 .. Len(members)
    BY <1>2, <1>7, <2>2
  <2>4. members[next + 1] \in Span
    BY <2>1, <2>3, ElementOfSeq
  <2>5. BodyTask(owner, next + 1) \in Task /\ MemberTask(owner, members[next + 1]) \in Task
    <3> HIDE DEF owner, next
    <3>1. next + 1 \in Nat
      BY <1>2
    <3>2. QED
      BY <1>2, <2>4, <3>1 DEF BodyTask, MemberTask, Task
  <2>6. QED
    BY <2>5, TupleType
<1>8. {"Internal", "Allocation", "Sink"} \subseteq Errors
  BY DEF Errors
<1>9. \/ /\ RefuseWalk("Internal") \/ RefuseWalk("Allocation") \/ RefuseWalk("Sink")
         /\ UNCHANGED sink
      \/ sink' = sink \o comma /\ RefuseWalk("Allocation")
      \/ /\ sink' = Append(sink, "}") /\ tasks' = Front(tasks)
         /\ UNCHANGED <<control, root_members, root_children>>
      \/ /\ ~ListsFault(owner) /\ next < Len(members)
         /\ sink' = sink \o comma
         /\ tasks' = Front(tasks) \o
               <<BodyTask(owner, next + 1), MemberTask(owner, members[next + 1])>>
         /\ UNCHANGED <<control, root_members, root_children>>
  <2> HIDE DEF owner, next, members, comma
  <2>1. QED
    BY DEF WalkBody, owner, next, members, comma
<1>10. sink \in Seq(Byte)
  BY DEF TypeOK, OutputOK
<1> HIDE DEF owner, next, members, comma
<1>11. QED
  BY <1>3, <1>4, <1>5, <1>6, <1>7, <1>8, <1>9, <1>10

LEMMA WalkMemberType ==
    ASSUME TypeOK, WalkMember
    PROVE  TypeOK'
<1> DEFINE owner == Last(tasks).owner
           span == Last(tasks).span
           inside == Inside(span, OwnChildren(owner))
           Lost == ListsFault(owner) \/ \E i \in DOMAIN inside : ~IsClosed(inside[i])
<1>1. /\ OutputOK' /\ TextOK' /\ OpenedOK' /\ RecordsOK' /\ StackOK'
  BY DEF WalkMember, TypeOK, OutputOK, TextOK, OpenedOK, RecordsOK, StackOK,
         output, text, opened, records
<1>2. owner \in Owner /\ span \in Span /\ Front(tasks) \in Seq(Task)
  BY TopTask DEF WalkMember, TypeOK
<1>3. ASSUME ~Lost
      PROVE  MemberTasks(span, inside) \in Seq(Task)
  <2>1. OwnChildren(owner) \in Seq(Offset)
    BY <1>2, <1>3, OwnLists DEF TypeOK
  <2> HIDE DEF owner, span
  <2>2. inside \in Seq(Offset)
    BY <1>2, <2>1, InsideType
  <2> HIDE DEF inside
  <2>3. \A i \in DOMAIN inside : IsClosed(inside[i])
    BY <1>3
  <2>4. QED
    BY <1>2, <2>2, <2>3, MemberTasksType DEF TypeOK, RecordsOK
<1>4. \/ RefuseWalk("Internal") \/ RefuseWalk("Allocation")
      \/ /\ ~Lost
         /\ tasks' = Front(tasks) \o MemberTasks(span, inside)
         /\ UNCHANGED <<control, root_members, root_children>>
  <2> HIDE DEF owner, span, inside, Lost
  <2>1. QED
    BY DEF WalkMember, owner, span, inside, Lost
<1> HIDE DEF owner, span, inside, Lost
<1>5. CASE RefuseWalk("Internal") \/ RefuseWalk("Allocation")
  <2>1. "Internal" \in Errors /\ "Allocation" \in Errors
    BY DEF Errors
  <2>2. WalkOK' /\ ControlOK'
    BY <1>5, <2>1, RefuseWalkType
  <2>3. QED
    BY <1>1, <2>2 DEF TypeOK
<1>6. CASE /\ ~Lost
           /\ tasks' = Front(tasks) \o MemberTasks(span, inside)
           /\ UNCHANGED <<control, root_members, root_children>>
  <2>1. tasks' \in Seq(Task)
    BY <1>2, <1>3, <1>6, ConcatProperties
  <2>2. QED
    BY <1>1, <1>6, <2>1 DEF TypeOK, WalkOK, ControlOK, control
<1>7. QED
  BY <1>4, <1>5, <1>6

LEMMA WalkDoneType ==
    ASSUME TypeOK, WalkDone
    PROVE  TypeOK'
<1>1. /\ OutputOK' /\ OpenedOK' /\ StackOK' /\ UNCHANGED <<frames, tasks>>
  BY DEF WalkDone, TypeOK, OutputOK, OpenedOK, StackOK, output, opened
<1>2. /\ buffer' = <<>> /\ closed' = <<>> /\ closed_members' = <<>>
      /\ closed_children' = <<>> /\ root_members' = <<>> /\ root_children' = <<>>
      /\ Proceed /\ todo # <<>>
  BY DEF WalkDone, At
<1>3. /\ <<>> \in Seq(Byte) /\ <<>> \in Seq(Closed) /\ <<>> \in Seq(Span)
      /\ <<>> \in Seq(Offset)
  BY EmptySeq
<1>4. ControlOK'
  BY <1>2, ProceedType DEF TypeOK
<1>5. QED
  BY <1>1, <1>2, <1>3, <1>4 DEF TypeOK, TextOK, RecordsOK, WalkOK

(* The events that change nothing but the control state or `finished`. *)
LEMMA SmallEventsType ==
    ASSUME TypeOK, EndArray \/ EndWrapper \/ SourceRefuses \/ EventAfterRefusal \/ Finish
    PROVE  TypeOK'
<1>1. CASE EndArray \/ EndWrapper
  <2>1. "]" \in Punctuation /\ "}" \in Punctuation
    BY DEF Punctuation
  <2>2. QED
    BY <1>1, <2>1, EndContainerType DEF EndArray, EndWrapper
<1>2. CASE SourceRefuses
  <2>1. "Source" \in Errors
    BY DEF Errors
  <2>2. Refuse("Source")
    BY <1>2 DEF SourceRefuses
  <2>3. ControlOK'
    BY <2>1, <2>2, RefuseType DEF TypeOK
  <2>4. QED
    BY <1>2, <2>3 DEF SourceRefuses, TypeOK, OutputOK, TextOK, OpenedOK, RecordsOK,
       WalkOK, StackOK, output, text, opened, records, walk
<1>3. CASE EventAfterRefusal
  <2>1. "AfterRefusal" \in Errors
    BY DEF Errors, ProtocolViolations
  <2>2. QED
    BY <1>3, <2>1 DEF EventAfterRefusal, TypeOK, OutputOK, TextOK, OpenedOK, RecordsOK,
       WalkOK, ControlOK, StackOK, output, text, opened, records, walk
<1>4. CASE Finish
  BY <1>4 DEF Finish, TypeOK, OutputOK, TextOK, OpenedOK, RecordsOK, WalkOK, ControlOK,
     StackOK, output, text, opened, records, walk, control
<1>5. QED
  BY <1>1, <1>2, <1>3, <1>4

LEMMA InitType ==
    ASSUME Init
    PROVE  TypeOK
<1>1. /\ <<>> \in Seq(Byte) /\ <<>> \in Seq(Frame) /\ <<>> \in Seq(Span)
      /\ <<>> \in Seq(Offset) /\ <<>> \in Seq(Closed) /\ <<>> \in Seq(Task)
      /\ <<>> \in Seq(Step) /\ <<>> \in Seq(Open)
  BY EmptySeq
<1>2. OutputOK /\ TextOK /\ OpenedOK /\ RecordsOK /\ WalkOK
  BY <1>1, BoundsAssumption DEF Init, OutputOK, TextOK, OpenedOK, RecordsOK, WalkOK
<1>3. ControlOK /\ StackOK
  BY <1>1 DEF Init, ControlOK, StackOK
<1>4. QED
  BY <1>2, <1>3 DEF TypeOK

(* No step leaves the types. *)
LEMMA TypeStays ==
    ASSUME TypeOK, [Next]_vars
    PROVE  TypeOK'
<1>1. CASE Event
  <2>1. CASE \/ \E v \in Scalars : Scalar(v)
             \/ Unrepresentable \/ BeginArray \/ BeginObject
             \/ \E n \in Names : BeginWrapper(n)
    BY <2>1, ValueEventsType
  <2>2. CASE EndArray \/ EndWrapper \/ SourceRefuses \/ EventAfterRefusal
    BY <2>2, SmallEventsType
  <2>3. CASE EndObject
    BY <2>3, EndObjectType
  <2>4. CASE \E n \in Names : Name(n)
    BY <2>4, NameType
  <2>5. QED
    BY <1>1, <2>1, <2>2, <2>3, <2>4 DEF Event
<1>2. CASE RunEvent
  <2>1. CASE ProduceStep
    BY <2>1, ProduceStepType
  <2>2. CASE NoTextStep
    BY <2>2, NoTextStepType
  <2>3. CASE PushOpenStep
    BY <2>3, PushOpenStepType
  <2>4. CASE PushFrameStep
    BY <2>4, PushFrameStepType
  <2>5. CASE PopStep
    BY <2>5, PopStepType
  <2>6. CASE AfterValueStep
    BY <2>6, AfterValueStepType
  <2>7. CASE WalkBytes
    BY <2>7, WalkBytesType
  <2>8. CASE WalkBody
    BY <2>8, WalkBodyType
  <2>9. CASE WalkMember
    BY <2>9, WalkMemberType
  <2>10. CASE WalkDone
    BY <2>10, WalkDoneType
  <2>11. QED
    BY <1>2, <2>1, <2>2, <2>3, <2>4, <2>5, <2>6, <2>7, <2>8, <2>9, <2>10 DEF RunEvent
<1>3. CASE Finish
  BY <1>3, SmallEventsType
<1>4. CASE UNCHANGED vars
  BY <1>4 DEF TypeOK, OutputOK, TextOK, OpenedOK, RecordsOK, WalkOK, ControlOK, StackOK,
     vars, output, text, opened, records, walk, control
<1>5. QED
  BY <1>1, <1>2, <1>3, <1>4 DEF Next

-----------------------------------------------------------------------------
(* Type correctness: whatever the caller pushes and whatever fails, every  *)
(* offset and index that the writer records fits MaxOffset (u32), every    *)
(* list holds records of its own kind, no answer lies outside the errors   *)
(* of error.rs, and no more than MaxBytes is ever counted as produced.     *)
THEOREM TypeCorrect == Spec => []TypeOK
<1>1. Init => TypeOK
  BY InitType
<1>2. TypeOK /\ [Next]_vars => TypeOK'
  BY TypeStays
<1>3. QED
  BY <1>1, <1>2, PTL DEF Spec

-----------------------------------------------------------------------------
(* Refusal.  An event that was refused has nothing left to do, neither has *)
(* a finished writer, and what finish accepted was not refused: with this  *)
(* no step but EventAfterRefusal and Finish is enabled after a refusal.    *)
Settled ==
    /\ refused => todo = <<>> /\ finished # "Ok"
    /\ finished # "no" => todo = <<>>

(* An event is admitted only while nothing is refused. *)
LEMMA EventsAdmitted ==
    ASSUME Event, ~EventAfterRefusal
    PROVE  Accepting /\ finished' = finished
  BY DEF Event, EventAfterRefusal, Scalar, Unrepresentable, BeginArray, BeginObject,
         BeginWrapper, Value, ValueEvent, ValueDue, EndArray, EndWrapper, EndContainer,
         CallerDrives, EndObject, EndObjectEvent, Name, NameEvent, SourceRefuses

(* The steps of an event need one, and every one of them either goes on    *)
(* or refuses, which ends the event.                                       *)
LEMMA StepsRun ==
    ASSUME RunEvent
    PROVE  /\ todo # <<>> /\ finished' = finished
           /\ Proceed \/ (UNCHANGED control) \/ todo' = <<>>
<1>1. todo # <<>> /\ finished' = finished
  BY DEF RunEvent, ProduceStep, NoTextStep, PushOpenStep, PushFrameStep, PopStep,
         AfterValueStep, WalkBytes, WalkBody, WalkMember, WalkDone, Walking, At
<1>2. ProduceStep => Proceed \/ todo' = <<>>
  BY DEF ProduceStep, Refuse
<1>3. NoTextStep \/ PushOpenStep \/ PopStep \/ WalkDone => Proceed \/ todo' = <<>>
  BY DEF NoTextStep, PushOpenStep, PopStep, WalkDone, Refuse
<1>4. PushFrameStep => Proceed \/ todo' = <<>>
  BY DEF PushFrameStep, Refuse
<1>5. AfterValueStep => Proceed \/ todo' = <<>>
  BY DEF AfterValueStep, Refuse
<1>6. WalkBytes => (UNCHANGED control) \/ todo' = <<>>
  BY DEF WalkBytes, RefuseWalk, Refuse
<1>7. WalkBody => (UNCHANGED control) \/ todo' = <<>>
  BY DEF WalkBody, RefuseWalk, Refuse
<1>8. WalkMember => (UNCHANGED control) \/ todo' = <<>>
  BY DEF WalkMember, RefuseWalk, Refuse
<1>9. QED
  BY <1>1, <1>2, <1>3, <1>4, <1>5, <1>6, <1>7, <1>8 DEF RunEvent

LEMMA SettledStays ==
    ASSUME Settled, [Next]_vars
    PROVE  Settled'
<1>1. CASE Event /\ ~EventAfterRefusal
  <2>1. Accepting /\ finished' = finished
    BY <1>1, EventsAdmitted
  <2>2. ~refused /\ finished = "no"
    BY <2>1 DEF Accepting, Idle
  <2>3. refused' = refused \/ todo' = <<>>
    BY <1>1 DEF Event, Scalar, Unrepresentable, BeginArray, BeginObject, BeginWrapper,
       Value, ValueEvent, EndArray, EndWrapper, EndContainer, EndObject, EndObjectEvent,
       CloseOutermost, CloseNested, Name, NameEvent, SourceRefuses, Run, Refuse
  <2>4. QED
    BY <2>1, <2>2, <2>3 DEF Settled
<1>2. CASE EventAfterRefusal
  BY <1>2 DEF EventAfterRefusal, Settled
<1>3. CASE RunEvent
  BY <1>3, StepsRun DEF Settled, Proceed, control
<1>4. CASE Finish
  BY <1>4 DEF Finish, Idle, Settled, control
<1>5. CASE UNCHANGED vars
  BY <1>5 DEF vars, control, Settled
<1>6. QED
  BY <1>1, <1>2, <1>3, <1>4, <1>5 DEF Next, Event

(* After a refusal the writer changes nothing but its answer, which is     *)
(* AfterRefusal from then on, and finish never accepts: Writer::guard and  *)
(* the `refused` flag that only it sets.                                   *)
THEOREM RefusalFinal == Spec => RefusalIsFinal
<1>1. Init => Settled
  BY DEF Init, Settled
<1>2. Settled /\ [Next]_vars => Settled'
  BY SettledStays
<1>3. ASSUME Settled, Next, refused
      PROVE  /\ refused'
             /\ UNCHANGED <<output, text, opened, records, stack, started>>
             /\ answer' \in {answer, "AfterRefusal"}
             /\ finished' # "Ok"
  <2>1. CASE Event /\ ~EventAfterRefusal
    <3>1. Accepting
      BY <2>1, EventsAdmitted
    <3>2. QED
      BY <1>3, <3>1 DEF Accepting
  <2>2. CASE RunEvent
    <3>1. todo # <<>>
      BY <2>2, StepsRun
    <3>2. QED
      BY <1>3, <3>1 DEF Settled
  <2>3. CASE EventAfterRefusal \/ Finish
    BY <1>3, <2>3 DEF EventAfterRefusal, Finish, Settled, control
  <2>4. QED
    BY <1>3, <2>1, <2>2, <2>3 DEF Next
<1>4. Settled /\ [Next]_vars =>
        [refused =>
          /\ refused'
          /\ UNCHANGED <<output, text, opened, records, stack, started>>
          /\ answer' \in {answer, "AfterRefusal"}
          /\ finished' # "Ok"]_vars
  BY <1>3
<1>5. QED
  BY <1>1, <1>2, <1>4, PTL DEF Spec, RefusalIsFinal

-----------------------------------------------------------------------------
(***************************************************************************)
(* The inductive invariant of the writer: what makes its lookups succeed   *)
(* and its indexes fit while nothing is refused.                           *)
(***************************************************************************)

Ahead(op) == \E i \in DOMAIN todo : todo[i].op = op

-----------------------------------------------------------------------------
(* Control.  A value is recorded and an object opened at the end of an     *)
(* event; a bracket is pushed or popped after the bytes before it, and     *)
(* what is pushed as one is no object.                                     *)
Planned(steps) ==
    /\ \A i \in DOMAIN steps : steps[i].op \in {"after_value", "push_frame"} => i = Len(steps)
    /\ \A i \in DOMAIN steps : steps[i].op \in {"push_frame", "pop"} =>
            \A j \in 1 .. i - 1 : steps[j].op = "produce"
    /\ \A i \in DOMAIN steps : steps[i].op = "write_out" => i = 1
    /\ \A i \in DOMAIN steps : steps[i].op = "push_open" => steps[i].open.kind # "Object"

PopsOther == Ahead("pop") => stack # <<>> /\ ~Top("Object")

Control == Planned(todo) /\ PopsOther

-----------------------------------------------------------------------------
(* One frame for each open object.  A name is pending in every object      *)
(* around the innermost one, and in that one too while an event runs or an *)
(* array or a wrapper in it is open.                                       *)
ObjectsOf(containers) == {i \in DOMAIN containers : containers[i].kind = "Object"}
FramesMatch == Len(frames) = Cardinality(ObjectsOf(stack))

NamesPend ==
    /\ \A k \in 1 .. Len(frames) - 1 : frames[k].pending # NoOffset
    /\ frames # <<>> /\ (todo # <<>> \/ ~Top("Object")) => NamePending

(* The frames' places in the buffer and in the open lists ascend.  The     *)
(* name of the innermost is in the buffer unless it is its turn now, and   *)
(* then no object is about to open.                                        *)
Named == NamePending /\ TopFrame.pending < Len(buffer)
FramesFit ==
    /\ \A k \in DOMAIN frames :
          /\ frames[k].start <= Len(buffer) /\ frames[k].pending <= Len(buffer)
          /\ frames[k].members <= Len(open_members)
          /\ frames[k].children <= Len(open_children)
    /\ \A j, k \in DOMAIN frames : j < k =>
          /\ frames[j].pending < frames[k].start
          /\ frames[j].members <= frames[k].members
          /\ frames[j].children <= frames[k].children
    /\ NamePending /\ ~Named => At("produce") /\ ~Ahead("push_frame")

Framing == FramesMatch /\ NamesPend /\ FramesFit

-----------------------------------------------------------------------------
(* Counting: every record of an object stands for bytes of its own in the  *)
(* buffer, so indexes fit wherever offsets do.                             *)
Used == Len(open_members) + Len(closed_members) + Len(closed)
          + 2 * (Len(frames) - 1) + (IF Named THEN 1 ELSE 0)
BytesForRecords ==
    frames # <<>> => Used + (IF At("push_frame") THEN 1 ELSE 0) <= Len(buffer)
OneOwner == frames # <<>> => Len(open_children) + Len(closed_children) = Len(closed)
IndexesFit == Len(open_members) <= MaxOffset /\ Len(open_children) <= MaxOffset

Counting == BytesForRecords /\ OneOwner /\ IndexesFit

-----------------------------------------------------------------------------
(* What is recorded lies inside the buffer and the lists.                  *)
SpansFit(members) ==
    \A i \in DOMAIN members :
        members[i].start < members[i].end /\ members[i].end <= Len(buffer)
ChildrenClosed(children) == \A i \in DOMAIN children : IsClosed(children[i])
ClosedFit ==
    \A i \in DOMAIN closed :
        /\ closed[i].start <= closed[i].end /\ closed[i].end <= Len(buffer)
        /\ InList(closed_members, closed[i].members)
        /\ InList(closed_children, closed[i].children)
OwnerClosed(owner) == owner = Root \/ IsClosed(owner)
TaskFits(task) ==
    /\ task.task = "Bytes" => task.end <= Len(buffer)
    /\ task.task \in {"Body", "Member"} => OwnerClosed(task.owner)
    /\ task.task = "Member" => /\ task.span.start < task.span.end
                              /\ task.span.end <= Len(buffer)
TasksFit == \A i \in DOMAIN tasks : TaskFits(tasks[i])

Recorded ==
    /\ SpansFit(open_members) /\ SpansFit(root_members) /\ SpansFit(closed_members)
    /\ ChildrenClosed(open_children) /\ ChildrenClosed(root_children)
    /\ ChildrenClosed(closed_children)
    /\ ClosedFit /\ TasksFit

-----------------------------------------------------------------------------
(* Outside all objects, and outside the walk, nothing is held.             *)
WalkAlone ==
    IF Ahead("write_out") THEN frames = <<>> /\ open_members = <<>> /\ open_children = <<>>
    ELSE root_members = <<>> /\ root_children = <<>> /\ tasks = <<>>
NothingHeld ==
    frames = <<>> /\ ~Ahead("write_out") =>
        /\ buffer = <<>>
        /\ open_members = <<>> /\ open_children = <<>>
        /\ closed = <<>> /\ closed_members = <<>> /\ closed_children = <<>>

Holding == WalkAlone /\ NothingHeld

-----------------------------------------------------------------------------
(* Members and children are recorded in written order, each after what is  *)
(* around it began.                                                        *)
MembersAscend ==
    \A i, j \in DOMAIN open_members :
        i < j => open_members[i].end <= open_members[j].start
MembersBeforeName ==
    \A k \in DOMAIN frames : \A i \in DOMAIN open_members :
        /\ frames[k].pending # NoOffset
        /\ k = Len(frames) \/ i <= frames[k + 1].members
        => open_members[i].end <= frames[k].pending
ChildrenBeforeFrame ==
    \A k \in DOMAIN frames : \A i \in 1 .. frames[k].children :
        ClosedAt(open_children[i]).end <= frames[k].start

Ordered ==
    /\ MembersAscend /\ MembersBeforeName /\ ChildrenBeforeFrame
    /\ RecordsInWrittenOrder

-----------------------------------------------------------------------------
Consistent == Control /\ Framing /\ Counting /\ Recorded /\ Holding
Faultless == ~refused => Consistent
OrderKept == ~refused => Ordered

-----------------------------------------------------------------------------
(* Plans. *)

LEMMA TailElements ==
    ASSUME NEW S, NEW s \in Seq(S), s # <<>>
    PROVE  /\ Tail(s) \in Seq(S)
           /\ Len(Tail(s)) = Len(s) - 1 /\ Len(s) \in Nat \ {0}
           /\ DOMAIN Tail(s) = 1 .. Len(s) - 1 /\ DOMAIN s = 1 .. Len(s)
           /\ \A i \in 1 .. Len(s) - 1 : Tail(s)[i] = s[i + 1]
           /\ Head(s) = s[1]
  BY HeadTailProperties, LenProperties, EmptySeq

(* What is left of a plan is one. *)
LEMMA PlannedTail ==
    ASSUME NEW steps \in Seq(Step), steps # <<>>, Planned(steps)
    PROVE  Planned(Tail(steps))
<1> DEFINE rest == Tail(steps)
           n == Len(steps)
<1>1. /\ Len(rest) = n - 1 /\ n \in Nat \ {0}
      /\ DOMAIN rest = 1 .. n - 1 /\ DOMAIN steps = 1 .. n
      /\ \A i \in 1 .. n - 1 : rest[i] = steps[i + 1]
  BY TailElements
<1> HIDE DEF rest
<1>2. ASSUME NEW i \in DOMAIN rest
      PROVE  /\ rest[i].op \in {"after_value", "push_frame"} => i = Len(rest)
             /\ rest[i].op \in {"push_frame", "pop"} =>
                    \A j \in 1 .. i - 1 : rest[j].op = "produce"
             /\ rest[i].op # "write_out"
             /\ rest[i].op = "push_open" => rest[i].open.kind # "Object"
  <2>1. i \in 1 .. n - 1 /\ i + 1 \in DOMAIN steps /\ rest[i] = steps[i + 1]
    BY <1>1
  <2>2. /\ steps[i + 1].op \in {"after_value", "push_frame"} => i + 1 = n
        /\ steps[i + 1].op \in {"push_frame", "pop"} =>
               \A j \in 1 .. i : steps[j].op = "produce"
        /\ steps[i + 1].op = "write_out" => i + 1 = 1
        /\ steps[i + 1].op = "push_open" => steps[i + 1].open.kind # "Object"
    BY <2>1 DEF Planned
  <2>3. \A j \in 1 .. i - 1 : rest[j] = steps[j + 1] /\ j + 1 \in 1 .. i
    BY <1>1, <2>1
  <2>4. QED
    BY <1>1, <2>1, <2>2, <2>3
<1>3. Planned(rest)
  BY <1>2 DEF Planned
<1>4. QED
  BY <1>3 DEF rest

(* A byte may come before a plan that is not the walk's. *)
LEMMA PlannedByte ==
    ASSUME NEW b \in Byte, NEW steps \in Seq(Step), Planned(steps),
           \A i \in DOMAIN steps : steps[i].op # "write_out"
    PROVE  /\ Planned(<<Produce(b)>> \o steps)
           /\ \A i \in DOMAIN (<<Produce(b)>> \o steps) :
                 /\ (<<Produce(b)>> \o steps)[i].op # "write_out"
                 /\ (<<Produce(b)>> \o steps)[i].op = "pop"
                       => \E j \in DOMAIN steps : steps[j].op = "pop"
<1> DEFINE all == <<Produce(b)>> \o steps
           n == Len(steps)
<1>1. n \in Nat /\ DOMAIN steps = 1 .. n
  BY LenProperties
<1>2. /\ Len(all) = n + 1 /\ DOMAIN all = 1 .. n + 1
      /\ all[1] = Produce(b) /\ \A i \in 2 .. n + 1 : all[i] = steps[i - 1]
  <2>1. Produce(b) \in Step
    BY ProduceIsStep
  <2> DEFINE one == <<Produce(b)>>
  <2>2. one \in Seq(Step) /\ Len(one) = 1 /\ one[1] = Produce(b)
    BY <2>1
  <2> HIDE DEF one
  <2>3. /\ Len(one \o steps) = 1 + n /\ one \o steps \in Seq(Step)
        /\ \A i \in 1 .. 1 + n : (one \o steps)[i] = IF i <= 1 THEN one[i] ELSE steps[i - 1]
    BY <2>2, ConcatProperties, SMTT(30)
  <2>4. all = one \o steps
    BY DEF one
  <2> HIDE DEF all
  <2>5. all \in Seq(Step) /\ Len(all) = n + 1
    BY <1>1, <2>3, <2>4
  <2>6. DOMAIN all = 1 .. n + 1
    BY <2>5, LenProperties
  <2>7. all[1] = Produce(b)
    BY <1>1, <2>2, <2>3, <2>4
  <2>8. \A i \in 2 .. n + 1 : all[i] = steps[i - 1]
    BY <1>1, <2>3, <2>4
  <2>9. QED
    BY <2>5, <2>6, <2>7, <2>8
<1>3. all[1].op = "produce"
  BY <1>2 DEF Produce
<1> HIDE DEF all
<1>4. ASSUME NEW i \in 2 .. n + 1
      PROVE  /\ all[i].op \in {"after_value", "push_frame"} => i = n + 1
             /\ all[i].op \in {"push_frame", "pop"} =>
                    \A j \in 1 .. i - 1 : all[j].op = "produce"
             /\ all[i].op # "write_out"
             /\ all[i].op = "push_open" => all[i].open.kind # "Object"
             /\ all[i].op = "pop" => \E j \in DOMAIN steps : steps[j].op = "pop"
  <2>1. i - 1 \in DOMAIN steps /\ all[i] = steps[i - 1]
    BY <1>1, <1>2
  <2>2. \A j \in 1 .. i - 1 : j = 1 \/ (j \in 2 .. n + 1 /\ j - 1 \in 1 .. (i - 1) - 1)
    BY <1>1
  <2>3. /\ steps[i - 1].op \in {"after_value", "push_frame"} => i - 1 = n
        /\ steps[i - 1].op \in {"push_frame", "pop"} =>
               \A j \in 1 .. (i - 1) - 1 : steps[j].op = "produce"
        /\ steps[i - 1].op # "write_out"
        /\ steps[i - 1].op = "push_open" => steps[i - 1].open.kind # "Object"
    BY <2>1 DEF Planned
  <2>4. \A j \in 2 .. n + 1 : all[j] = steps[j - 1]
    BY <1>2
  <2>5. QED
    BY <1>1, <1>3, <2>1, <2>2, <2>3, <2>4
<1>5. ASSUME NEW i \in DOMAIN all
      PROVE  /\ all[i].op \in {"after_value", "push_frame"} => i = Len(all)
             /\ all[i].op \in {"push_frame", "pop"} =>
                    \A j \in 1 .. i - 1 : all[j].op = "produce"
             /\ all[i].op # "write_out"
             /\ all[i].op = "push_open" => all[i].open.kind # "Object"
             /\ all[i].op = "pop" => \E j \in DOMAIN steps : steps[j].op = "pop"
  <2>1. i = 1 \/ i \in 2 .. n + 1
    BY <1>1, <1>2
  <2>2. CASE i = 1
    BY <1>3, <2>2
  <2>3. CASE i \in 2 .. n + 1
    BY <1>2, <1>4, <2>3
  <2>4. QED
    BY <2>1, <2>2, <2>3
<1>6. Planned(all)
  BY <1>5 DEF Planned
<1>7. QED
  BY <1>5, <1>6 DEF all

(* The plans of the events, after which no walk and no bracket's end come. *)
ValuePlan(steps) ==
    /\ steps \in Seq(Step) /\ steps # <<>> /\ Planned(steps)
    /\ \A i \in DOMAIN steps : steps[i].op \notin {"write_out", "pop"}
    /\ steps[1].op # "push_frame"

LEMMA ValuePlans ==
    ASSUME NEW b \in Byte, NEW c \in Byte, NEW d \in Byte,
           NEW o \in Open, o.kind # "Object"
    PROVE  /\ ValuePlan(<<Produce(b), AfterValue>>)
           /\ ValuePlan(<<NoText, AfterValue>>)
           /\ ValuePlan(<<Produce(b), PushOpen(o)>>)
           /\ ValuePlan(<<Produce(b), PushFrame>>)
           /\ ValuePlan(<<Produce(b), PushOpen(o), Produce(c), Produce(d)>>)
           /\ ValuePlan(<<Produce(b), Produce(c)>>)
           /\ ValuePlan(<<AfterValue>>)
<1>1. /\ Produce(b) \in Step /\ Produce(c) \in Step /\ Produce(d) \in Step
      /\ PushOpen(o) \in Step /\ PushFrame \in Step
      /\ AfterValue \in Step /\ NoText \in Step
  BY DEF Step
<1>2. /\ Produce(b).op = "produce" /\ Produce(c).op = "produce" /\ Produce(d).op = "produce"
      /\ PushOpen(o).op = "push_open" /\ PushOpen(o).open = o /\ PushFrame.op = "push_frame"
      /\ AfterValue.op = "after_value" /\ NoText.op = "no_text"
  BY DEF Produce, PushOpen, PushFrame, AfterValue, NoText
<1>3. ASSUME NEW x \in Step, x.op \notin {"write_out", "pop", "push_frame", "push_open"}
      PROVE  ValuePlan(<<x>>)
  BY <1>3 DEF ValuePlan, Planned
<1>4. ASSUME NEW x \in Step, NEW y \in Step, x.op \in {"produce", "no_text"},
             y.op \notin {"write_out", "pop"}, y.op = "push_frame" => x.op = "produce",
             y.op = "push_open" => y.open.kind # "Object"
      PROVE  ValuePlan(<<x, y>>)
  BY <1>4 DEF ValuePlan, Planned
<1>5. ASSUME NEW x \in Step, NEW y \in Step, NEW z \in Step, NEW t \in Step,
             x.op = "produce", y.op = "push_open", y.open.kind # "Object", z.op = "produce", t.op = "produce"
      PROVE  ValuePlan(<<x, y, z, t>>)
  BY <1>5 DEF ValuePlan, Planned
<1>6. QED
  BY <1>1, <1>2, <1>3, <1>4, <1>5

(* Closing an array or a wrapper, and the outermost object. *)
LEMMA EndPlans ==
    ASSUME NEW b \in Byte
    PROVE  /\ <<Produce(b), Pop, AfterValue>> \in Seq(Step)
           /\ Planned(<<Produce(b), Pop, AfterValue>>)
           /\ \A i \in DOMAIN <<Produce(b), Pop, AfterValue>> :
                  <<Produce(b), Pop, AfterValue>>[i].op # "write_out"
           /\ <<Walk, AfterValue>> \in Seq(Step)
           /\ Planned(<<Walk, AfterValue>>)
           /\ \A i \in DOMAIN <<Walk, AfterValue>> : <<Walk, AfterValue>>[i].op # "pop"
<1>1. Produce(b) \in Step /\ Pop \in Step /\ AfterValue \in Step /\ Walk \in Step
  BY DEF Step
<1>2. /\ Produce(b).op = "produce" /\ Pop.op = "pop"
      /\ AfterValue.op = "after_value" /\ Walk.op = "write_out"
  BY DEF Produce, Pop, AfterValue, Walk
<1>3. ASSUME NEW x \in Step, NEW y \in Step, NEW z \in Step,
             x.op = "produce", y.op = "pop", z.op = "after_value"
      PROVE  /\ Planned(<<x, y, z>>) /\ <<x, y, z>> \in Seq(Step)
             /\ \A i \in DOMAIN <<x, y, z>> : <<x, y, z>>[i].op # "write_out"
  BY <1>3 DEF Planned
<1>4. ASSUME NEW x \in Step, NEW y \in Step, x.op = "write_out", y.op = "after_value"
      PROVE  /\ Planned(<<x, y>>) /\ <<x, y>> \in Seq(Step)
             /\ \A i \in DOMAIN <<x, y>> : <<x, y>>[i].op # "pop"
  BY <1>4 DEF Planned
<1>5. QED
  BY <1>1, <1>2, <1>3, <1>4

-----------------------------------------------------------------------------
(* What a step does not touch. *)

LEMMA RecordedGrown ==
    ASSUME TypeOK, TypeOK', Recorded, Len(buffer) <= Len(buffer'),
           UNCHANGED <<opened, records, walk>>
    PROVE  Recorded'
<1>1. Len(buffer) \in Nat /\ Len(buffer') \in Nat
  BY LenProperties DEF TypeOK, TextOK
<1>2. ASSUME NEW ms \in Seq(Span), SpansFit(ms)
      PROVE  \A i \in DOMAIN ms : ms[i].start < ms[i].end /\ ms[i].end <= Len(buffer')
  <2> SUFFICES ASSUME NEW i \in DOMAIN ms
               PROVE  ms[i].start < ms[i].end /\ ms[i].end <= Len(buffer')
    OBVIOUS
  <2>1. ms[i].start < ms[i].end /\ ms[i].end <= Len(buffer)
    BY <1>2 DEF SpansFit
  <2>2. ms[i] \in Span
    BY LenProperties, ElementOfSeq
  <2>3. ms[i].end \in Nat
    BY <2>2, OffsetNat DEF Span
  <2>4. QED
    BY <1>1, <2>1, <2>3
<1>3. SpansFit(open_members)' /\ SpansFit(root_members)' /\ SpansFit(closed_members)'
  BY <1>2 DEF SpansFit, Recorded, opened, records, walk, TypeOK, OpenedOK, RecordsOK, WalkOK
<1>4. /\ ChildrenClosed(open_children)' /\ ChildrenClosed(root_children)'
      /\ ChildrenClosed(closed_children)'
  BY DEF Recorded, ChildrenClosed, IsClosed, opened, records, walk
<1>5. ClosedFit'
  <2> SUFFICES ASSUME NEW i \in DOMAIN closed
               PROVE  /\ closed[i].start <= closed[i].end /\ closed[i].end <= Len(buffer')
                      /\ InList(closed_members, closed[i].members)
                      /\ InList(closed_children, closed[i].children)
    BY DEF ClosedFit, records, InList
  <2>1. closed[i] \in Closed
    BY LenProperties, ElementOfSeq DEF TypeOK, RecordsOK
  <2>2. closed[i].end \in Nat
    BY <2>1, OffsetNat DEF Closed
  <2>3. QED
    BY <1>1, <2>2 DEF Recorded, ClosedFit
<1>6. TasksFit'
  <2> SUFFICES ASSUME NEW i \in DOMAIN tasks
               PROVE  /\ tasks[i].task = "Bytes" => tasks[i].end <= Len(buffer')
                      /\ tasks[i].task \in {"Body", "Member"} => OwnerClosed(tasks[i].owner)
                      /\ tasks[i].task = "Member" =>
                            /\ tasks[i].span.start < tasks[i].span.end
                            /\ tasks[i].span.end <= Len(buffer')
    BY DEF TasksFit, TaskFits, walk, records, OwnerClosed, IsClosed
  <2>1. tasks[i] \in Task /\ TaskFits(tasks[i])
    BY LenProperties, ElementOfSeq DEF TypeOK, WalkOK, Recorded, TasksFit
  <2>2. tasks[i].task = "Bytes" => tasks[i].end \in Nat
    BY <2>1, OffsetNat DEF Task
  <2>3. tasks[i].task = "Member" => tasks[i].span.end \in Nat
    BY <2>1, OffsetNat DEF Task, Span
  <2>4. QED
    BY <1>1, <2>1, <2>2, <2>3 DEF TaskFits
<1>7. QED
  BY <1>3, <1>4, <1>5, <1>6 DEF Recorded

-----------------------------------------------------------------------------
(* Events. *)

(* Marking the innermost container leaves all containers of their kinds.   *)
LEMMA MarkKeepsKinds ==
    ASSUME StackOK, NEW s \in Seq(Open),
           \/ s = stack
           \/ Top("Array") /\ s = Append(Front(stack), Array(FALSE))
           \/ Top("Wrapper") /\ s = Append(Front(stack), Wrapper(TRUE))
    PROVE  /\ ObjectsOf(s) = ObjectsOf(stack)
           /\ (s # <<>> /\ Last(s).kind = "Object") = Top("Object")
<1>1. CASE s = stack
  BY <1>1 DEF Top
<1>2. ASSUME NEW o \in Open, s = Append(Front(stack), o), stack # <<>>, o.kind = Last(stack).kind
      PROVE  /\ ObjectsOf(s) = ObjectsOf(stack)
             /\ (s # <<>> /\ Last(s).kind = "Object") = Top("Object")
  <2> DEFINE n == Len(stack)
             f == Front(stack)
  <2>1. /\ f \in Seq(Open) /\ Len(f) = n - 1 /\ n \in Nat \ {0}
        /\ \A i \in 1 .. n - 1 : f[i] = stack[i]
    BY <1>2, FrontLast DEF StackOK
  <2> HIDE DEF f, n
  <2>2. /\ s = Append(f, o) /\ Len(s) = n /\ s[n] = o
        /\ \A i \in 1 .. n - 1 : s[i] = f[i]
    <3>1. s = Append(f, o)
      BY <1>2 DEF f
    <3>2. Len(s) = Len(f) + 1 /\ s[Len(f) + 1] = o /\ \A i \in 1 .. Len(f) : s[i] = f[i]
      BY <3>1, <2>1, AppendProperties, SMTT(30)
    <3>3. QED
      BY <2>1, <3>1, <3>2
  <2>3. DOMAIN s = 1 .. n /\ DOMAIN stack = 1 .. n
    <3>1. DOMAIN s = 1 .. Len(s) /\ DOMAIN stack = 1 .. Len(stack)
      BY LenProperties DEF StackOK
    <3>2. QED
      BY <3>1, <2>2 DEF n
  <2>4. Last(stack) = stack[n] /\ Last(s) = s[n] /\ s # <<>>
    BY <2>1, <2>2 DEF Last, n
  <2>5. \A i \in 1 .. n : s[i].kind = stack[i].kind
    <3> SUFFICES ASSUME NEW i \in 1 .. n PROVE s[i].kind = stack[i].kind
      OBVIOUS
    <3>1. CASE i = n
      BY <1>2, <2>2, <2>4, <3>1
    <3>2. CASE i # n
      <4>1. i \in 1 .. n - 1
        BY <2>1, <3>2
      <4>2. QED
        BY <4>1, <2>1, <2>2
    <3>3. QED
      BY <3>1, <3>2
  <2>6. ObjectsOf(s) = ObjectsOf(stack)
    BY <2>3, <2>5 DEF ObjectsOf
  <2>7. Last(s).kind = Last(stack).kind
    BY <2>1, <2>4, <2>5
  <2>8. QED
    BY <1>2, <2>4, <2>6, <2>7 DEF Top
<1>3. Array(FALSE) \in Open /\ Array(FALSE).kind = "Array" /\ Wrapper(TRUE) \in Open /\ Wrapper(TRUE).kind = "Wrapper"
  BY DEF Open, Array, Wrapper
<1>4. QED
  BY <1>1, <1>2, <1>3 DEF Top

(* No object is open without a frame, and no frame without an object.      *)
LEMMA FramesOfObjects ==
    ASSUME StackOK, TextOK, FramesMatch
    PROVE  /\ Top("Object") => frames # <<>>
           /\ stack = <<>> => frames = <<>>
           /\ ObjectsOf(stack) \subseteq 1 .. Len(stack) /\ IsFiniteSet(ObjectsOf(stack))
<1>1. DOMAIN stack = 1 .. Len(stack) /\ Len(stack) \in Nat
  BY LenProperties DEF StackOK
<1>2. ObjectsOf(stack) \subseteq 1 .. Len(stack) /\ IsFiniteSet(ObjectsOf(stack))
  <2>1. ObjectsOf(stack) \subseteq 1 .. Len(stack)
    BY <1>1 DEF ObjectsOf
  <2>2. IsFiniteSet(1 .. Len(stack))
    BY <1>1, FS_Interval
  <2>3. QED
    BY <2>1, <2>2, FS_Subset
<1>3. ASSUME Top("Object")
      PROVE  frames # <<>>
  <2>1. Last(stack) = stack[Len(stack)] /\ Len(stack) \in DOMAIN stack
    <3>1. stack # <<>>
      BY <1>3 DEF Top
    <3>2. Len(stack) # 0
      BY <3>1, EmptySeq DEF StackOK
    <3>3. QED
      BY <1>1, <3>2 DEF Last
  <2>2. Len(stack) \in ObjectsOf(stack)
    BY <1>3, <2>1 DEF ObjectsOf, Top
  <2>3. Cardinality(ObjectsOf(stack)) # 0
    BY <1>2, <2>2, FS_EmptySet
  <2>4. QED
    BY <2>3 DEF FramesMatch
<1>4. ASSUME stack = <<>>
      PROVE  frames = <<>>
  <2>1. ObjectsOf(stack) = {}
    BY <1>4 DEF ObjectsOf
  <2>2. Len(frames) = 0
    BY <2>1, FS_EmptySet DEF FramesMatch
  <2>3. QED
    BY <2>2, EmptySeq DEF TextOK
<1>5. QED
  BY <1>2, <1>3, <1>4

(* Between events every open name is in the buffer. *)
LEMMA IdleNamed ==
    ASSUME TypeOK, Consistent, todo = <<>>
    PROVE  /\ NamePending => Named
           /\ ~At("produce") /\ ~At("push_frame")
           /\ ~Ahead("write_out") /\ ~Ahead("pop")
<1>1. ~At("produce") /\ ~At("push_frame")
  BY DEF At
<1>2. ~Ahead("write_out") /\ ~Ahead("pop")
  BY DEF Ahead
<1>3. QED
  BY <1>1, <1>2 DEF Consistent, Framing, FramesFit

(* An admitted value finds the name of its member pending. *)
LEMMA ValueIsNamed ==
    ASSUME TypeOK, Consistent, BeforeValueError = "none", frames # <<>>
    PROVE  NamePending
<1>1. stack # <<>>
  BY FramesOfObjects DEF TypeOK, Consistent, Framing
<1>2. CASE Top("Object")
  <2>1. ~Top("Array")
    BY <1>2 DEF Top
  <2>2. QED
    BY <1>1, <1>2, <2>1 DEF BeforeValueError
<1>3. CASE ~Top("Object")
  BY <1>3 DEF Consistent, Framing, NamesPend
<1>4. QED
  BY <1>2, <1>3

LEMMA ValueStays ==
    ASSUME TypeOK, TypeOK', Consistent, todo = <<>>, NEW steps, ValuePlan(steps),
           ValueEvent(steps), ~refused'
    PROVE  Consistent' /\ ValuePlan(todo')
<1>1. /\ BeforeValueError = "none"
      /\ stack' = IF Top("Array") THEN Append(Front(stack), Array(FALSE))
                  ELSE IF Top("Wrapper") THEN Append(Front(stack), Wrapper(TRUE))
                  ELSE stack
      /\ UNCHANGED <<output, text, opened, records, walk>>
  BY DEF ValueEvent, Refuse, Run
<1>2. PICK b \in Byte : todo' \in {steps, <<Produce(b)>> \o steps}
  BY DEF ValueEvent, Refuse, Run, Byte, Punctuation
<1>3. ValuePlan(todo')
  <2>1. CASE todo' = steps
    BY <2>1
  <2>2. CASE todo' = <<Produce(b)>> \o steps
    <3>1. Produce(b) \in Step /\ Produce(b).op = "produce" /\ steps \in Seq(Step)
      BY ProduceIsStep DEF Produce, ValuePlan
    <3> DEFINE one == <<Produce(b)>>
    <3>2. one \in Seq(Step) /\ Len(one) = 1 /\ one[1] = Produce(b)
      BY <3>1
    <3>3. /\ Planned(<<Produce(b)>> \o steps)
          /\ \A i \in DOMAIN (<<Produce(b)>> \o steps) :
               (<<Produce(b)>> \o steps)[i].op \notin {"write_out", "pop"}
      BY <3>1, PlannedByte DEF ValuePlan
    <3> HIDE DEF one
    <3>4. one \o steps \in Seq(Step) /\ (one \o steps)[1] = one[1] /\ Len(one \o steps) # 0
      BY <3>1, <3>2, ConcatProperties, LenProperties, SMTT(30)
    <3>5. (one \o steps)[1].op # "push_frame" /\ one \o steps # <<>>
      BY <3>1, <3>2, <3>4, EmptySeq
    <3>6. QED
      BY <2>2, <3>3, <3>4, <3>5 DEF ValuePlan, one
  <2>3. QED
    BY <1>2, <2>1, <2>2
<1>4. ~Ahead("write_out")' /\ ~Ahead("pop")'
  BY <1>3 DEF Ahead, ValuePlan
<1>5. todo' # <<>> /\ ~At("push_frame")'
  <2>1. Head(todo') = todo'[1]
    BY <1>3 DEF ValuePlan
  <2>2. QED
    BY <1>3, <2>1 DEF At, ValuePlan
<1>6. ObjectsOf(stack') = ObjectsOf(stack)
  <2>1. stack' \in Seq(Open)
    BY DEF TypeOK, StackOK
  <2>2. QED
    BY <1>1, <2>1, MarkKeepsKinds DEF TypeOK
<1>7. (NamePending => Named) /\ ~At("push_frame") /\ ~Ahead("write_out")
  BY IdleNamed
<1>8. Control'
  BY <1>3, <1>4 DEF Control, PopsOther, ValuePlan
<1>9. Framing'
  <2>1. FramesMatch'
    BY <1>1, <1>6 DEF Consistent, Framing, FramesMatch, text
  <2>2. NamesPend'
    BY <1>1, ValueIsNamed DEF Consistent, Framing, NamesPend, NamePending, TopFrame, text
  <2>3. FramesFit'
    BY <1>1, <1>7 DEF Consistent, Framing, FramesFit, NamePending, TopFrame, Named, text, opened
  <2>4. QED
    BY <2>1, <2>2, <2>3 DEF Framing
<1>10. Counting'
  <2>1. Used' = Used
    BY <1>1 DEF Used, Named, NamePending, TopFrame, text, opened, records
  <2>2. BytesForRecords'
    BY <1>1, <1>5, <1>7, <2>1 DEF BytesForRecords, Consistent, Counting, text
  <2>3. OneOwner' /\ IndexesFit'
    BY <1>1 DEF OneOwner, IndexesFit, Consistent, Counting, text, opened, records
  <2>4. QED
    BY <2>2, <2>3 DEF Counting
<1>11. Recorded'
  <2>1. Len(buffer) <= Len(buffer')
    BY <1>1, LenProperties DEF text, TypeOK, TextOK
  <2>2. QED
    BY <1>1, <2>1, RecordedGrown DEF Consistent
<1>12. Holding'
  BY <1>1, <1>4, <1>7 DEF Consistent, Holding, WalkAlone, NothingHeld, text, opened, records, walk
<1>13. QED
  BY <1>3, <1>8, <1>9, <1>10, <1>11, <1>12 DEF Consistent

(* No value is refused for a fault of the writer's own. *)
LEMMA ValueWithoutFault ==
    ASSUME TypeOK, Consistent, todo = <<>>, NEW steps, ValueEvent(steps),
           Top("Wrapper") => ~Last(stack).filled
    PROVE  answer' # "Internal"
<1>1. Top("Object") => frames # <<>>
  BY FramesOfObjects DEF TypeOK, Consistent, Framing
<1>2. BeforeValueError # "Internal"
  <2>1. CASE stack = <<>>
    BY <2>1 DEF BeforeValueError, Top
  <2>2. CASE stack # <<>>
    <3>1. Top("Array") \/ Top("Object") \/ Top("Wrapper")
      BY <2>2, TopKinds DEF TypeOK
    <3>2. QED
      BY <1>1, <2>2, <3>1 DEF BeforeValueError, Top
  <2>3. QED
    BY <2>1, <2>2
<1>3. QED
  BY <1>2 DEF ValueEvent, Refuse, Run

(* What an event that only makes a plan leaves as it is. *)
LEMMA PlanKeeps ==
    ASSUME TypeOK, TypeOK', Consistent, todo = <<>>, UNCHANGED <<text, opened, records, walk, stack>>,
           ~Ahead("write_out")', ~At("push_frame")'
    PROVE  FramesMatch' /\ FramesFit' /\ Counting' /\ Recorded' /\ Holding'
<1>1. (NamePending => Named) /\ ~At("push_frame") /\ ~Ahead("write_out")
  BY IdleNamed
<1>2. FramesMatch' /\ FramesFit'
  BY <1>1 DEF Consistent, Framing, FramesMatch, FramesFit, NamePending, TopFrame, Named, text, opened
<1>3. Counting'
  <2>1. Used' = Used
    BY DEF Used, Named, NamePending, TopFrame, text, opened, records
  <2>2. BytesForRecords'
    BY <1>1, <2>1 DEF BytesForRecords, Consistent, Counting, text
  <2>3. OneOwner' /\ IndexesFit'
    BY DEF OneOwner, IndexesFit, Consistent, Counting, text, opened, records
  <2>4. QED
    BY <2>2, <2>3 DEF Counting
<1>4. Recorded'
  <2>1. Len(buffer) <= Len(buffer')
    BY LenProperties DEF text, TypeOK, TextOK
  <2>2. QED
    BY <2>1, RecordedGrown DEF Consistent
<1>5. Holding'
  BY <1>1 DEF Consistent, Holding, WalkAlone, NothingHeld, text, opened, records, walk
<1>6. QED
  BY <1>2, <1>3, <1>4, <1>5

LEMMA EndContainerStays ==
    ASSUME TypeOK, TypeOK', Consistent, todo = <<>>, NEW open, NEW b \in Byte,
           open => stack # <<>> /\ ~Top("Object"), EndContainer(open, b), ~refused'
    PROVE  Consistent'
<1>1. /\ open
      /\ todo' = <<Produce(b), Pop, AfterValue>>
      /\ UNCHANGED <<output, text, opened, records, walk, stack>>
  BY DEF EndContainer, Run, Refuse
<1>2. Planned(todo') /\ ~Ahead("write_out")'
  BY <1>1, EndPlans DEF Ahead
<1>3. todo' # <<>> /\ ~At("push_frame")'
  BY <1>1 DEF At, Produce
<1>4. stack' # <<>> /\ ~Top("Object")'
  BY <1>1 DEF Top
<1>5. Control'
  BY <1>2, <1>4 DEF Control, PopsOther
<1>6. FramesMatch' /\ FramesFit' /\ Counting' /\ Recorded' /\ Holding'
  BY <1>1, <1>2, <1>3, PlanKeeps
<1>7. NamesPend'
  BY <1>1, <1>4 DEF Consistent, Framing, NamesPend, NamePending, TopFrame, text, Top
<1>8. QED
  BY <1>5, <1>6, <1>7 DEF Consistent, Framing

LEMMA NameStays ==
    ASSUME TypeOK, TypeOK', Consistent, todo = <<>>, NEW n \in Names, NameEvent(n), ~refused'
    PROVE  Consistent'
<1>1. /\ NameError = "none"
      /\ frames' = [frames EXCEPT ![Len(frames)].pending = Len(buffer)]
      /\ todo' = <<Produce(n), Produce(":")>>
      /\ UNCHANGED <<output, buffer, opened, records, walk, stack>>
  BY DEF NameEvent, Run, Refuse
<1>2. Top("Object") /\ frames # <<>> /\ ~NamePending
  BY <1>1 DEF NameError
<1> DEFINE last == Len(frames)
<1>3. /\ last \in Nat \ {0} /\ DOMAIN frames = 1 .. last
      /\ Len(frames') = last /\ DOMAIN frames' = 1 .. last
      /\ \A k \in 1 .. last - 1 : frames'[k] = frames[k]
      /\ frames'[last].pending = Len(buffer) /\ frames'[last].start = frames[last].start
      /\ frames'[last].members = frames[last].members
      /\ frames'[last].children = frames[last].children
      /\ Len(buffer) \in Nat
  <2>1. last \in Nat \ {0} /\ DOMAIN frames = 1 .. last /\ Len(buffer) \in Nat
    BY <1>2, LenProperties, EmptySeq DEF TypeOK, TextOK
  <2>2. frames' \in Seq(Frame) /\ DOMAIN frames' = 1 .. last
    BY <1>1, <2>1 DEF TypeOK, TextOK
  <2>3. Len(frames') = last
    BY <2>1, <2>2, LenProperties
  <2>4. frames[last] \in Frame
    BY <2>1, ElementOfSeq DEF TypeOK, TextOK
  <2>5. frames'[last] = [frames[last] EXCEPT !.pending = Len(buffer)]
    BY <1>1, <2>1
  <2>6. QED
    BY <1>1, <2>1, <2>2, <2>3, <2>4, <2>5 DEF Frame
<1> HIDE DEF last
<1>4. frames' # <<>> /\ TopFrame' = frames'[last] /\ TopFrame = frames[last]
  BY <1>2, <1>3 DEF TopFrame, Last, last
<1>5. NamePending' /\ ~Named' /\ ~Named
  BY <1>1, <1>2, <1>3, <1>4 DEF NamePending, Named, NoOffset
<1>6. ValuePlan(todo')
  <2>1. PICK c \in Byte : todo' = <<Produce(n), Produce(c)>>
    BY <1>1 DEF Byte, Punctuation
  <2>2. n \in Byte /\ Array(TRUE) \in Open /\ Array(TRUE).kind # "Object"
    BY DEF Byte, Open, Array
  <2>3. QED
    BY <2>1, <2>2, ValuePlans
<1>7. At("produce")' /\ ~At("push_frame")' /\ todo' # <<>>
  BY <1>1 DEF At, Produce
<1>8. ~Ahead("write_out")' /\ ~Ahead("pop")' /\ ~Ahead("push_frame")'
  <2>1. ~Ahead("write_out")' /\ ~Ahead("pop")'
    BY <1>6 DEF Ahead, ValuePlan
  <2>2. DOMAIN todo' = 1 .. 2 /\ todo'[1].op = "produce" /\ todo'[2].op = "produce"
    <3>1. PICK c \in Byte : todo' = <<Produce(n), Produce(c)>>
      BY <1>1 DEF Byte, Punctuation
    <3>2. QED
      BY <3>1 DEF Produce
  <2>3. ~Ahead("push_frame")'
    BY <2>2 DEF Ahead
  <2>4. QED
    BY <2>1, <2>3
<1>9. ~Ahead("write_out") /\ ~At("push_frame")
  BY IdleNamed
<1>10. Control'
  BY <1>6, <1>8 DEF Control, PopsOther, ValuePlan
<1>11. FramesMatch'
  BY <1>1, <1>3 DEF Consistent, Framing, FramesMatch, last
<1>12. NamesPend'
  BY <1>3, <1>5 DEF Consistent, Framing, NamesPend, last
<1>13. FramesFit'
  <2>1. \A k \in 1 .. last :
          /\ frames'[k].start = frames[k].start /\ frames'[k].members = frames[k].members
          /\ frames'[k].children = frames[k].children
          /\ k # last => frames'[k].pending = frames[k].pending
    BY <1>3
  <2>2. /\ \A k \in 1 .. last :
              /\ frames[k].start <= Len(buffer) /\ frames[k].pending <= Len(buffer)
              /\ frames[k].members <= Len(open_members)
              /\ frames[k].children <= Len(open_children)
        /\ \A j, k \in 1 .. last : j < k =>
              /\ frames[j].pending < frames[k].start
              /\ frames[j].members <= frames[k].members
              /\ frames[j].children <= frames[k].children
    BY <1>3 DEF Consistent, Framing, FramesFit, last
  <2>3. \A k \in 1 .. last :
          /\ frames'[k].start <= Len(buffer') /\ frames'[k].pending <= Len(buffer')
          /\ frames'[k].members <= Len(open_members')
          /\ frames'[k].children <= Len(open_children')
    BY <1>1, <1>3, <2>1, <2>2 DEF opened
  <2>4. \A j, k \in 1 .. last : j < k =>
          /\ frames'[j].pending < frames'[k].start
          /\ frames'[j].members <= frames'[k].members
          /\ frames'[j].children <= frames'[k].children
    <3>1. \A j, k \in 1 .. last : j < k => j # last
      BY <1>3
    <3>2. QED
      BY <2>1, <2>2, <3>1
  <2>5. QED
    BY <1>3, <1>7, <1>8, <2>3, <2>4 DEF FramesFit
<1>14. Counting'
  <2>1. Used' = Used
    BY <1>1, <1>3, <1>5 DEF Used, last, opened, records
  <2>2. BytesForRecords'
    BY <1>1, <1>2, <1>7, <1>9, <2>1 DEF BytesForRecords, Consistent, Counting
  <2>3. OneOwner' /\ IndexesFit'
    BY <1>1, <1>2 DEF OneOwner, IndexesFit, Consistent, Counting, opened, records
  <2>4. QED
    BY <2>2, <2>3 DEF Counting
<1>15. Recorded'
  <2>1. Len(buffer) <= Len(buffer')
    BY <1>1, <1>3
  <2>2. QED
    BY <1>1, <2>1, RecordedGrown DEF Consistent
<1>16. Holding'
  BY <1>1, <1>4, <1>8, <1>9 DEF Consistent, Holding, WalkAlone, NothingHeld, opened, records, walk
<1>17. QED
  BY <1>10, <1>11, <1>12, <1>13, <1>14, <1>15, <1>16 DEF Consistent, Framing

(* Nor is a name, nor the end of a container. *)
LEMMA NameWithoutFault ==
    ASSUME TypeOK, Consistent, NEW n, NameEvent(n)
    PROVE  answer' # "Internal"
<1>1. Top("Object") => frames # <<>>
  BY FramesOfObjects DEF TypeOK, Consistent, Framing
<1>2. NameError # "Internal"
  BY <1>1 DEF NameError
<1>3. QED
  BY <1>2 DEF NameEvent, Refuse, Run

-----------------------------------------------------------------------------
(* The steps of an event. *)

(* What is left of a plan after its first step. *)
LEMMA ProceedPlan ==
    ASSUME TypeOK, Control, todo # <<>>, Proceed
    PROVE  /\ Planned(todo') /\ todo' = Tail(todo) /\ ~Ahead("write_out")'
           /\ Ahead("pop")' => Ahead("pop") /\ todo[1].op = "produce"
           /\ Ahead("push_frame")' => Ahead("push_frame")
           /\ At("push_frame")' => Ahead("push_frame")
           /\ refused' = refused /\ answer' # "Internal"
<1>1. todo' = Tail(todo) /\ refused' = refused /\ answer' \in {"Ok", "running"}
  BY DEF Proceed
<1>2. todo \in Seq(Step)
  BY DEF TypeOK, ControlOK
<1>3. Planned(todo')
  BY <1>1, <1>2, PlannedTail DEF Control
<1>4. /\ Tail(todo) \in Seq(Step)
      /\ Len(Tail(todo)) = Len(todo) - 1 /\ Len(todo) \in Nat \ {0}
      /\ DOMAIN Tail(todo) = 1 .. Len(todo) - 1 /\ DOMAIN todo = 1 .. Len(todo)
      /\ \A i \in 1 .. Len(todo) - 1 : Tail(todo)[i] = todo[i + 1]
  BY <1>2, TailElements
<1>5. \A i \in DOMAIN todo' : i + 1 \in DOMAIN todo /\ todo'[i] = todo[i + 1] /\ i + 1 # 1
  BY <1>1, <1>4
<1>6. /\ ~Ahead("write_out")'
      /\ Ahead("pop")' => Ahead("pop")
      /\ Ahead("push_frame")' => Ahead("push_frame")
  BY <1>5 DEF Ahead, Control, Planned
<1>7. Ahead("pop")' => todo[1].op = "produce"
  <2> SUFFICES ASSUME NEW i \in DOMAIN todo', todo'[i].op = "pop"
               PROVE  todo[1].op = "produce"
    BY DEF Ahead
  <2>1. i + 1 \in DOMAIN todo /\ todo[i + 1].op = "pop" /\ 1 \in 1 .. (i + 1) - 1
    BY <1>1, <1>4
  <2>2. \A j \in 1 .. (i + 1) - 1 : todo[j].op = "produce"
    BY <2>1 DEF Control, Planned
  <2>3. QED
    BY <2>1, <2>2
<1>8. At("push_frame")' => Ahead("push_frame")'
  <2> SUFFICES ASSUME At("push_frame")' PROVE Ahead("push_frame")'
    OBVIOUS
  <2>1. todo' # <<>> /\ Head(todo').op = "push_frame"
    BY DEF At
  <2>2. Head(todo') = todo'[1] /\ 1 \in DOMAIN todo'
    BY <1>1, <1>4, <2>1, TailElements
  <2>3. QED
    BY <2>1, <2>2 DEF Ahead
<1>9. QED
  BY <1>1, <1>3, <1>6, <1>8, <1>7

(* What the step at hand says of the plan. *)
LEMMA AtPlan ==
    ASSUME TypeOK, Control, NEW op, At(op)
    PROVE  /\ todo # <<>> /\ 1 \in DOMAIN todo /\ todo[1].op = op /\ Ahead(op)
           /\ op # "write_out" => ~Ahead("write_out")
           /\ op \in {"after_value", "push_frame"} => Tail(todo) = <<>>
           /\ op \notin {"produce", "push_frame"} => ~Ahead("push_frame")
           /\ op \notin {"produce", "pop"} => ~Ahead("pop")
           /\ \A o \in {"produce", "after_value", "push_frame"} : At(o) => o = op
<1>1. todo # <<>> /\ todo \in Seq(Step) /\ Head(todo).op = op
  BY DEF At, TypeOK, ControlOK
<1>2. /\ Tail(todo) \in Seq(Step)
      /\ Len(Tail(todo)) = Len(todo) - 1 /\ Len(todo) \in Nat \ {0}
      /\ DOMAIN todo = 1 .. Len(todo) /\ Head(todo) = todo[1]
  BY <1>1, TailElements
<1>3. 1 \in DOMAIN todo /\ todo[1].op = op
  BY <1>1, <1>2
<1>4. op # "write_out" => ~Ahead("write_out")
  BY <1>3 DEF Ahead, Control, Planned
<1>5. op \in {"after_value", "push_frame"} => Tail(todo) = <<>>
  <2> SUFFICES ASSUME op \in {"after_value", "push_frame"} PROVE Tail(todo) = <<>>
    OBVIOUS
  <2>1. Len(todo) = 1
    BY <1>3 DEF Control, Planned
  <2>2. Len(Tail(todo)) = 0
    BY <1>2, <2>1
  <2>3. QED
    BY <1>2, <2>2, EmptySeq
<1>6. ASSUME NEW i \in DOMAIN todo, todo[i].op \in {"push_frame", "pop"}, todo[i].op # op
      PROVE  op = "produce"
  <2>1. i \in 1 .. Len(todo) /\ i # 1
    BY <1>2, <1>3, <1>6
  <2>2. 1 \in 1 .. i - 1
    BY <1>2, <2>1
  <2>3. \A j \in 1 .. i - 1 : todo[j].op = "produce"
    BY <1>6 DEF Control, Planned
  <2>4. QED
    BY <1>3, <2>2, <2>3
<1>7. QED
  BY <1>1, <1>3, <1>4, <1>5, <1>6 DEF At, Ahead

LEMMA FrameTypes ==
    ASSUME TextOK, NEW k \in DOMAIN frames
    PROVE  /\ frames[k] \in Frame
           /\ frames[k].start \in Nat /\ frames[k].members \in Nat
           /\ frames[k].children \in Nat /\ frames[k].pending \in Int
           /\ frames[k].pending # NoOffset => frames[k].pending \in Nat
<1>1. frames[k] \in Frame
  BY LenProperties, ElementOfSeq DEF TextOK
<1>2. /\ frames[k].start \in Offset /\ frames[k].members \in Offset
      /\ frames[k].children \in Offset /\ frames[k].pending \in Offset \cup {NoOffset}
  BY <1>1 DEF Frame
<1>3. NoOffset \in Int /\ \A x \in Offset : x \in Nat /\ x \in Int
  BY OffsetNat DEF NoOffset
<1>4. QED
  BY <1>1, <1>2, <1>3

LEMMA TopFrameAt ==
    ASSUME TextOK, frames # <<>>
    PROVE  /\ TopFrame = frames[Len(frames)] /\ Len(frames) \in DOMAIN frames
           /\ Len(frames) \in Nat \ {0} /\ DOMAIN frames = 1 .. Len(frames)
<1>1. Len(frames) \in Nat \ {0} /\ DOMAIN frames = 1 .. Len(frames)
  BY LenProperties, EmptySeq DEF TextOK
<1>2. QED
  BY <1>1 DEF TopFrame, Last

(* A byte produced while an object is open lands in the buffer. *)
LEMMA ProduceStays ==
    ASSUME TypeOK, TypeOK', Consistent, ProduceStep, ~refused'
    PROVE  Consistent'
<1>1. Control /\ Framing /\ Counting /\ Recorded /\ Holding
  BY DEF Consistent
<1>2. /\ Proceed /\ UNCHANGED <<frames, opened, records, walk, stack>>
      /\ \/ frames = <<>> /\ UNCHANGED buffer
         \/ frames # <<>> /\ \E b : buffer' = Append(buffer, b)
  BY DEF ProduceStep, Refuse
<1>3. At("produce") /\ todo # <<>> /\ ~Ahead("write_out") /\ ~At("push_frame")
  BY <1>1, AtPlan DEF ProduceStep
<1>4. /\ Planned(todo') /\ ~Ahead("write_out")'
      /\ Ahead("pop")' => Ahead("pop")
      /\ Ahead("push_frame")' => Ahead("push_frame")
      /\ At("push_frame")' => Ahead("push_frame")
  BY <1>1, <1>2, <1>3, ProceedPlan
<1>5. Control'
  BY <1>1, <1>2, <1>4 DEF Control, PopsOther, Top
<1>6. /\ Len(buffer) \in Nat /\ Len(buffer') \in Nat
      /\ Len(buffer') = IF frames = <<>> THEN Len(buffer) ELSE Len(buffer) + 1
  BY <1>2, LenProperties, AppendProperties DEF TypeOK, TextOK
<1>7. NamesPend'
  <2>1. frames # <<>> => NamePending
    BY <1>1, <1>3 DEF Framing, NamesPend
  <2>2. QED
    BY <1>1, <1>2, <2>1 DEF Framing, NamesPend, NamePending, TopFrame
<1>8. \A k \in DOMAIN frames : frames[k].start \in Nat /\ frames[k].pending \in Int
  BY FrameTypes DEF TypeOK
<1>9. NamePending => Named'
  <2> SUFFICES ASSUME NamePending PROVE Named'
    OBVIOUS
  <2>1. frames # <<>> /\ Len(frames) \in DOMAIN frames /\ TopFrame = frames[Len(frames)]
    BY TopFrameAt DEF NamePending, TypeOK
  <2>2. TopFrame.pending # NoOffset
    BY DEF NamePending
  <2>3. TopFrame.pending \in Int /\ TopFrame.pending <= Len(buffer)
    BY <1>1, <1>8, <2>1 DEF Framing, FramesFit
  <2>4. TopFrame.pending < Len(buffer') /\ TopFrame' = TopFrame /\ frames' = frames
    BY <1>2, <1>6, <2>1, <2>3 DEF TopFrame
  <2>5. QED
    BY <2>1, <2>2, <2>4 DEF Named, NamePending
<1>10. FramesFit'
  <2>1. ASSUME NEW k \in DOMAIN frames
        PROVE  /\ frames[k].start <= Len(buffer') /\ frames[k].pending <= Len(buffer')
    <3>1. frames[k].start <= Len(buffer) /\ frames[k].pending <= Len(buffer)
      BY <1>1 DEF Framing, FramesFit
    <3>2. frames[k].start \in Int /\ frames[k].pending \in Int
      BY <1>8
    <3>3. QED
      BY <1>6, <3>1, <3>2
  <2>2. NamePending' => Named'
    BY <1>2, <1>9 DEF NamePending, TopFrame
  <2>3. QED
    BY <1>1, <1>2, <2>1, <2>2 DEF Framing, FramesFit, opened
<1>11. Framing'
  BY <1>1, <1>2, <1>7, <1>10 DEF Framing, FramesMatch
<1>12. Counting'
  <2>1. BytesForRecords'
    <3> SUFFICES ASSUME frames # <<>>
                 PROVE  Used' + (IF At("push_frame")' THEN 1 ELSE 0) <= Len(buffer')
      BY <1>2 DEF BytesForRecords
    <3> DEFINE base == Len(open_members) + Len(closed_members) + Len(closed)
                         + 2 * (Len(frames) - 1)
    <3>1. base \in Int
      BY LenProperties DEF TypeOK, OpenedOK, RecordsOK, TextOK
    <3>2. Used = base + (IF Named THEN 1 ELSE 0)
      BY DEF Used
    <3>3. Used' = base + (IF Named' THEN 1 ELSE 0)
      BY <1>2 DEF Used, opened, records
    <3> HIDE DEF base
    <3>4. Used + (IF At("push_frame") THEN 1 ELSE 0) <= Len(buffer)
      BY <1>1 DEF Counting, BytesForRecords
    <3>5. Len(buffer') = Len(buffer) + 1
      BY <1>6
    <3>6. CASE Named
      BY <1>3, <1>6, <3>1, <3>2, <3>3, <3>4, <3>5, <3>6
    <3>7. CASE ~Named
      <4>1. NamePending
        BY <1>1, <1>3 DEF Framing, NamesPend
      <4>2. ~At("push_frame")'
        BY <1>1, <1>4, <4>1, <3>7 DEF Framing, FramesFit
      <4>3. QED
        BY <1>3, <1>6, <3>1, <3>2, <3>3, <3>4, <3>5, <3>7, <4>2
    <3>8. QED
      BY <3>6, <3>7
  <2>2. OneOwner' /\ IndexesFit'
    BY <1>1, <1>2 DEF OneOwner, IndexesFit, Counting, opened, records
  <2>3. QED
    BY <2>1, <2>2 DEF Counting
<1>13. Recorded'
  BY <1>1, <1>2, <1>6, RecordedGrown
<1>14. Holding'
  BY <1>1, <1>2, <1>3, <1>4 DEF Holding, WalkAlone, NothingHeld, opened, records, walk
<1>15. QED
  BY <1>5, <1>11, <1>12, <1>13, <1>14 DEF Consistent

(* What a step leaves as it is that neither produces nor opens an object. *)
LEMMA StepKeeps ==
    ASSUME TypeOK, TypeOK', Consistent, UNCHANGED <<text, opened, records, walk>>, Proceed,
           At("push_open") \/ At("pop") \/ At("after_value")
    PROVE  /\ Planned(todo') /\ NamesPend' /\ FramesFit' /\ Counting' /\ Recorded' /\ Holding'
           /\ ~Ahead("pop")' /\ (frames # <<>> => Named)
<1>1. Control /\ Framing /\ Counting /\ Recorded /\ Holding
  BY DEF Consistent
<1>2. PICK op \in {"push_open", "pop", "after_value"} : At(op)
  OBVIOUS
<1>3. /\ todo # <<>> /\ todo[1].op = op
      /\ ~Ahead("write_out") /\ ~Ahead("push_frame") /\ ~At("produce") /\ ~At("push_frame")
  BY <1>1, <1>2, AtPlan
<1>4. /\ Planned(todo') /\ ~Ahead("write_out")' /\ ~Ahead("pop")' /\ ~At("push_frame")'
  BY <1>1, <1>3, ProceedPlan
<1>5. (NamePending => Named) /\ (frames # <<>> => NamePending)
  BY <1>1, <1>3 DEF Framing, FramesFit, NamesPend
<1>6. NamesPend' /\ FramesFit'
  BY <1>1, <1>5 DEF Framing, NamesPend, FramesFit, NamePending, TopFrame, Named, text, opened
<1>7. Counting'
  <2>1. Used' = Used
    BY DEF Used, Named, NamePending, TopFrame, text, opened, records
  <2>2. BytesForRecords'
    BY <1>1, <1>3, <1>4, <2>1 DEF BytesForRecords, Counting, text
  <2>3. OneOwner' /\ IndexesFit'
    BY <1>1 DEF OneOwner, IndexesFit, Counting, text, opened, records
  <2>4. QED
    BY <2>2, <2>3 DEF Counting
<1>8. Recorded'
  <2>1. Len(buffer) <= Len(buffer')
    BY LenProperties DEF text, TypeOK, TextOK
  <2>2. QED
    BY <1>1, <2>1, RecordedGrown
<1>9. Holding'
  BY <1>1, <1>3, <1>4 DEF Holding, WalkAlone, NothingHeld, text, opened, records, walk
<1>10. QED
  BY <1>4, <1>5, <1>6, <1>7, <1>8, <1>9

(* Opening a container adds it to the objects if it is one. *)
LEMMA ObjectsAppend ==
    ASSUME NEW s \in Seq(Open), NEW o \in Open
    PROVE  /\ ObjectsOf(Append(s, o)) = IF o.kind = "Object" THEN ObjectsOf(s) \cup {Len(s) + 1}
                                        ELSE ObjectsOf(s)
           /\ Len(s) + 1 \notin ObjectsOf(s) /\ IsFiniteSet(ObjectsOf(s))
           /\ Append(s, o) # <<>> /\ Last(Append(s, o)) = o
<1> DEFINE n == Len(s)
           t == Append(s, o)
<1>1. /\ t \in Seq(Open) /\ Len(t) = n + 1 /\ n \in Nat
      /\ t[n + 1] = o /\ \A i \in 1 .. n : t[i] = s[i]
      /\ DOMAIN s = 1 .. n
  BY AppendProperties, LenProperties
<1> HIDE DEF t, n
<1>2. DOMAIN t = 1 .. n + 1
  BY <1>1, LenProperties
<1>3. ObjectsOf(t) = IF o.kind = "Object" THEN ObjectsOf(s) \cup {n + 1} ELSE ObjectsOf(s)
  <2>1. \A i : i \in 1 .. n + 1 <=> i \in 1 .. n \/ i = n + 1
    BY <1>1
  <2>2. n + 1 \notin 1 .. n
    BY <1>1
  <2>3. QED
    BY <1>1, <1>2, <2>1, <2>2 DEF ObjectsOf
<1>4. n + 1 \notin ObjectsOf(s)
  BY <1>1 DEF ObjectsOf
<1>5. IsFiniteSet(ObjectsOf(s))
  <2>1. ObjectsOf(s) \subseteq 1 .. n
    BY <1>1 DEF ObjectsOf
  <2>2. IsFiniteSet(1 .. n)
    BY <1>1, FS_Interval
  <2>3. QED
    BY <2>1, <2>2, FS_Subset
<1>6. t # <<>> /\ Last(t) = o
  <2>1. Len(t) # 0
    BY <1>1
  <2>2. t # <<>>
    BY <1>1, <2>1, EmptySeq
  <2>3. QED
    BY <1>1, <2>2 DEF Last
<1>7. QED
  BY <1>3, <1>4, <1>5, <1>6 DEF t, n

LEMMA ObjectsFront ==
    ASSUME NEW s \in Seq(Open), s # <<>>
    PROVE  /\ ObjectsOf(s) = IF Last(s).kind = "Object" THEN ObjectsOf(Front(s)) \cup {Len(s)}
                             ELSE ObjectsOf(Front(s))
           /\ Len(s) \notin ObjectsOf(Front(s)) /\ IsFiniteSet(ObjectsOf(Front(s)))
<1> DEFINE f == Front(s)
           l == Last(s)
           n == Len(s)
<1>1. /\ f \in Seq(Open) /\ l \in Open /\ Len(f) = n - 1 /\ n \in Nat \ {0}
      /\ \A i \in 1 .. n - 1 : f[i] = s[i]
  BY FrontLast
<1>2. DOMAIN s = 1 .. n /\ l = s[n]
  BY LenProperties DEF Last
<1> HIDE DEF f, l, n
<1>3. DOMAIN f = 1 .. n - 1
  BY <1>1, LenProperties
<1>4. IsFiniteSet(ObjectsOf(f)) /\ Len(f) + 1 \notin ObjectsOf(f)
  BY <1>1, ObjectsAppend
<1>5. ObjectsOf(s) = IF l.kind = "Object" THEN ObjectsOf(f) \cup {n} ELSE ObjectsOf(f)
  <2>1. \A i : i \in 1 .. n <=> i \in 1 .. n - 1 \/ i = n
    BY <1>1
  <2>2. n \notin 1 .. n - 1
    BY <1>1
  <2>3. QED
    BY <1>1, <1>2, <1>3, <2>1, <2>2 DEF ObjectsOf
<1>6. n \notin ObjectsOf(f)
  BY <1>1, <1>3 DEF ObjectsOf
<1>7. QED
  BY <1>4, <1>5, <1>6 DEF f, l, n

LEMMA PushOpenStays ==
    ASSUME TypeOK, TypeOK', Consistent, PushOpenStep, ~refused'
    PROVE  Consistent'
<1> DEFINE o == Head(todo).open
<1>1. /\ At("push_open") /\ Proceed /\ stack' = Append(stack, o)
      /\ UNCHANGED <<text, opened, records, walk>>
  BY DEF PushOpenStep, Refuse
<1>2. /\ Planned(todo') /\ NamesPend' /\ FramesFit' /\ Counting' /\ Recorded' /\ Holding'
      /\ ~Ahead("pop")'
  BY <1>1, StepKeeps
<1>3. o \in Open /\ o.kind # "Object"
  <2>1. todo # <<>> /\ Head(todo) \in Step /\ Head(todo).op = "push_open"
    BY <1>1, AtHead DEF TypeOK
  <2>2. o \in Open
    BY <2>1 DEF Step, Produce, PushOpen, PushFrame, Pop, AfterValue, Walk, NoText
  <2>3. Head(todo) = todo[1] /\ 1 \in DOMAIN todo
    BY <2>1, TailElements DEF TypeOK, ControlOK
  <2>4. o.kind # "Object"
    BY <2>1, <2>3 DEF Consistent, Control, Planned
  <2>5. QED
    BY <2>2, <2>4
<1> HIDE DEF o
<1>4. ObjectsOf(stack') = ObjectsOf(stack)
  BY <1>1, <1>3, ObjectsAppend DEF TypeOK, StackOK
<1>5. FramesMatch'
  BY <1>1, <1>4 DEF Consistent, Framing, FramesMatch, text
<1>6. QED
  BY <1>2, <1>5 DEF Consistent, Control, PopsOther, Framing

LEMMA PopStays ==
    ASSUME TypeOK, TypeOK', Consistent, PopStep, ~refused'
    PROVE  Consistent'
<1>1. /\ At("pop") /\ Proceed /\ stack' = Front(stack)
      /\ UNCHANGED <<text, opened, records, walk>>
  BY DEF PopStep
<1>2. /\ Planned(todo') /\ NamesPend' /\ FramesFit' /\ Counting' /\ Recorded' /\ Holding'
      /\ ~Ahead("pop")'
  BY <1>1, StepKeeps
<1>3. stack # <<>> /\ ~Top("Object")
  BY <1>1, AtPlan DEF Consistent, Control, PopsOther
<1>4. ObjectsOf(stack') = ObjectsOf(stack)
  BY <1>1, <1>3, ObjectsFront DEF TypeOK, StackOK, Top
<1>5. FramesMatch'
  BY <1>1, <1>4 DEF Consistent, Framing, FramesMatch, text
<1>6. QED
  BY <1>2, <1>5 DEF Consistent, Control, PopsOther, Framing

(* The counts are natural numbers. *)
LEMMA Lengths ==
    ASSUME TypeOK
    PROVE  /\ Len(buffer) \in Nat /\ Len(frames) \in Nat /\ Len(stack) \in Nat
           /\ Len(open_members) \in Nat /\ Len(open_children) \in Nat
           /\ Len(closed) \in Nat /\ Len(closed_members) \in Nat
           /\ Len(closed_children) \in Nat
  BY LenProperties DEF TypeOK, TextOK, StackOK, OpenedOK, RecordsOK

LEMMA PushFrameStays ==
    ASSUME TypeOK, TypeOK', Consistent, PushFrameStep, ~refused'
    PROVE  Consistent'
<1> DEFINE new == [start |-> Len(buffer), members |-> Len(open_members),
                   children |-> Len(open_children), pending |-> NoOffset]
           n == Len(frames)
<1>1. Control /\ Framing /\ Counting /\ Recorded /\ Holding
  BY DEF Consistent
<1>2. /\ At("push_frame") /\ Proceed /\ stack' = Append(stack, Object)
      /\ frames' = Append(frames, new)
      /\ UNCHANGED <<buffer, opened, records, walk>>
  BY DEF PushFrameStep, Refuse
<1>3. /\ todo # <<>> /\ Tail(todo) = <<>> /\ todo[1].op = "push_frame"
      /\ ~Ahead("write_out") /\ ~At("produce")
  BY <1>1, <1>2, AtPlan
<1>4. /\ Planned(todo') /\ todo' = <<>> /\ ~Ahead("write_out")' /\ ~Ahead("pop")'
  BY <1>1, <1>2, <1>3, ProceedPlan
<1>5. ~At("push_frame")' /\ ~Ahead("push_frame")'
  BY <1>4 DEF At, Ahead
<1>6. frames # <<>> => NamePending /\ Named
  BY <1>1, <1>3 DEF Framing, FramesFit, NamesPend
<1>7. /\ n \in Nat /\ Len(frames') = n + 1 /\ frames'[n + 1] = new
      /\ \A k \in 1 .. n : frames'[k] = frames[k]
      /\ DOMAIN frames = 1 .. n /\ DOMAIN frames' = 1 .. n + 1 /\ frames' # <<>>
  <2>1. new \in Frame
    <3>1. frames' \in Seq(Frame) /\ frames \in Seq(Frame)
      BY DEF TypeOK, TextOK
    <3>2. /\ Len(buffer) \in Offset /\ Len(open_members) \in Offset
          /\ Len(open_children) \in Offset
      <4>1. ~OffsetTooLarge
        BY DEF PushFrameStep, Refuse
      <4>2. QED
        BY <1>1, <4>1, Lengths, BoundsAssumption DEF OffsetTooLarge, Offset, Counting, IndexesFit
    <3>3. QED
      BY <3>2 DEF Frame
  <2> HIDE DEF new
  <2>2. frames \in Seq(Frame) /\ frames' \in Seq(Frame)
    BY DEF TypeOK, TextOK
  <2>3. /\ n \in Nat /\ Len(frames') = n + 1 /\ frames'[n + 1] = new
        /\ \A k \in 1 .. n : frames'[k] = frames[k]
    BY <1>2, <2>1, <2>2, AppendProperties, LenProperties
  <2>4. DOMAIN frames = 1 .. n /\ DOMAIN frames' = 1 .. Len(frames')
    BY <2>2, LenProperties
  <2>5. QED
    BY <2>2, <2>3, <2>4, EmptySeq
<1>8. \A k \in 1 .. n : k = n \/ k \in 1 .. n - 1
  <2>1. n \in Nat
    BY Lengths
  <2> HIDE DEF n
  <2>2. QED
    BY <2>1
<1>9. TopFrame' = new /\ ~NamePending' /\ ~Named' /\ Top("Object")'
  <2>1. TopFrame' = new
    BY <1>7 DEF TopFrame, Last
  <2>2. stack' # <<>> /\ Last(stack') = Object
    BY <1>2, ObjectsAppend DEF TypeOK, StackOK, Open
  <2>3. QED
    BY <2>1, <2>2 DEF NamePending, Named, Top, Object
<1>10. Control'
  BY <1>4 DEF Control, PopsOther
<1>11. FramesMatch'
  <2>1. Object \in Open /\ Object.kind = "Object" /\ stack \in Seq(Open)
    BY DEF Open, Object, TypeOK, StackOK
  <2>2. /\ ObjectsOf(stack') = ObjectsOf(stack) \cup {Len(stack) + 1}
        /\ Len(stack) + 1 \notin ObjectsOf(stack) /\ IsFiniteSet(ObjectsOf(stack))
    BY <1>2, <2>1, ObjectsAppend
  <2>3. Cardinality(ObjectsOf(stack')) = Cardinality(ObjectsOf(stack)) + 1
    BY <2>2, FS_AddElement
  <2>4. QED
    BY <1>1, <1>7, <2>3 DEF Framing, FramesMatch
<1>12. NamesPend'
  <2>1. \A k \in 1 .. n : frames[k].pending # NoOffset
    <3> SUFFICES ASSUME NEW k \in 1 .. n PROVE frames[k].pending # NoOffset
      OBVIOUS
    <3>1. CASE k \in 1 .. n - 1
      BY <1>1, <3>1 DEF Framing, NamesPend
    <3>2. CASE k = n
      BY <1>6, <1>7, <3>2, EmptySeq DEF NamePending, TopFrame, Last
    <3>3. QED
      BY <1>8, <3>1, <3>2
  <2>2. \A k \in 1 .. Len(frames') - 1 : frames'[k].pending # NoOffset
    BY <1>7, <2>1
  <2>3. QED
    BY <1>4, <1>9, <2>2 DEF NamesPend
<1>13. FramesFit'
  <2>1. \A k \in 1 .. n : /\ frames[k].start <= Len(buffer) /\ frames[k].pending <= Len(buffer)
                          /\ frames[k].members <= Len(open_members)
                          /\ frames[k].children <= Len(open_children)
    BY <1>1, <1>7 DEF Framing, FramesFit
  <2>2. /\ new.start = Len(buffer) /\ new.pending = -1
        /\ new.members = Len(open_members) /\ new.children = Len(open_children)
    BY DEF NoOffset
  <2>3. n # 0 => frames[n].pending < Len(buffer)
    <3>1. n # 0 => frames # <<>>
      BY EmptySeq
    <3>2. QED
      BY <1>6, <3>1 DEF Named, TopFrame, Last
  <2> HIDE DEF new
  <2>4. ASSUME NEW k \in 1 .. n + 1
        PROVE  /\ frames'[k].start <= Len(buffer) /\ frames'[k].pending <= Len(buffer)
               /\ frames'[k].members <= Len(open_members)
               /\ frames'[k].children <= Len(open_children)
    <3>1. CASE k \in 1 .. n
      BY <1>7, <2>1, <3>1
    <3>2. CASE k = n + 1
      BY <1>7, <2>2, <3>2, Lengths, SMTT(30)
    <3>3. QED
      BY <1>7, <3>1, <3>2
  <2>5. ASSUME NEW j \in 1 .. n + 1, NEW k \in 1 .. n + 1, j < k
        PROVE  /\ frames'[j].pending < frames'[k].start
               /\ frames'[j].members <= frames'[k].members
               /\ frames'[j].children <= frames'[k].children
    <3>1. j \in 1 .. n /\ frames'[j] = frames[j]
      BY <1>7, <2>5
    <3>2. CASE k = n + 1
      <4>1. frames'[k] = new /\ n # 0 /\ n \in 1 .. n
        BY <1>7, <3>1, <3>2
      <4>2. frames[j].pending < Len(buffer)
        <5>1. CASE j = n
          BY <2>3, <4>1, <5>1
        <5>2. CASE j # n
          <6>1. j < n
            <7>1. j \in 1 .. n - 1 /\ n \in Nat
              BY <1>8, <3>1, <5>2, Lengths
            <7> HIDE DEF n
            <7>2. QED
              BY <7>1
          <6>2. frames[j].pending < frames[n].start /\ frames[n].start <= Len(buffer)
            BY <1>1, <1>7, <2>1, <3>1, <4>1, <6>1 DEF Framing, FramesFit
          <6>3. frames[j].pending \in Int /\ frames[n].start \in Int
            BY <1>7, <3>1, <4>1, FrameTypes DEF TypeOK
          <6>4. QED
            BY <6>2, <6>3, Lengths, SMTT(30)
        <5>3. QED
          BY <5>1, <5>2
      <4>3. QED
        BY <2>1, <2>2, <3>1, <4>1, <4>2
    <3>3. CASE k # n + 1
      <4>1. k \in 1 .. n /\ frames'[k] = frames[k]
        BY <1>7, <3>3
      <4>2. QED
        BY <1>1, <1>7, <2>5, <3>1, <4>1 DEF Framing, FramesFit
    <3>4. QED
      BY <3>2, <3>3
  <2>6. QED
    BY <1>2, <1>7, <1>9, <2>4, <2>5 DEF FramesFit, opened
<1>14. Counting'
  <2>1. Used' = Len(open_members) + Len(closed_members) + Len(closed) + 2 * n
    BY <1>2, <1>7, <1>9, Lengths DEF Used, opened, records
  <2>2. CASE frames = <<>>
    <3>1. /\ Len(open_members) = 0 /\ Len(closed_members) = 0 /\ Len(closed) = 0
          /\ Len(open_children) = 0 /\ Len(closed_children) = 0 /\ n = 0
      BY <1>1, <1>3, <2>2, EmptySeq DEF Holding, NothingHeld
    <3>2. Used' <= Len(buffer)
      BY <2>1, <3>1, Lengths
    <3>3. Used' \in Nat /\ Used' + 0 = Used'
      BY <1>7, <2>1, Lengths
    <3>4. BytesForRecords'
      BY <1>2, <1>5, <3>2, <3>3 DEF BytesForRecords
    <3>5. OneOwner'
      BY <1>1, <1>2, <3>1 DEF Counting, OneOwner, opened, records
    <3>6. IndexesFit'
      BY <1>1, <1>2 DEF Counting, IndexesFit, opened
    <3>7. QED
      BY <3>4, <3>5, <3>6 DEF Counting
  <2>3. CASE frames # <<>>
    <3>1. Used + 1 <= Len(buffer) /\ Used = Len(open_members) + Len(closed_members)
                                              + Len(closed) + 2 * (n - 1) + 1
      BY <1>1, <1>2, <1>6, <2>3 DEF Counting, BytesForRecords, Used
    <3>2. Used' <= Len(buffer)
      BY <1>7, <2>1, <3>1, Lengths
    <3>3. Used' \in Nat /\ Used' + 0 = Used'
      BY <1>7, <2>1, Lengths
    <3>4. BytesForRecords'
      BY <1>2, <1>5, <3>2, <3>3 DEF BytesForRecords
    <3>5. OneOwner'
      BY <1>1, <1>2, <2>3 DEF Counting, OneOwner, opened, records
    <3>6. IndexesFit'
      BY <1>1, <1>2 DEF Counting, IndexesFit, opened
    <3>7. QED
      BY <3>4, <3>5, <3>6 DEF Counting
  <2>4. QED
    BY <2>2, <2>3
<1>15. Recorded'
  BY <1>1, <1>2, RecordedGrown, Lengths
<1>16. Holding'
  BY <1>1, <1>2, <1>3, <1>4, <1>7 DEF Holding, WalkAlone, NothingHeld, opened, records, walk
<1>17. QED
  BY <1>10, <1>11, <1>12, <1>13, <1>14, <1>15, <1>16 DEF Consistent, Framing

LEMMA PushFrameWithoutFault ==
    ASSUME TypeOK, Consistent, PushFrameStep
    PROVE  answer' # "Internal"
<1>1. ~IndexTooLarge(open_members) /\ ~IndexTooLarge(open_children)
  BY Lengths, BoundsAssumption DEF IndexTooLarge, Consistent, Counting, IndexesFit
<1>2. QED
  BY <1>1 DEF PushFrameStep, Refuse, Proceed

(* The innermost frame with another pending name. *)
LEMMA PendingFrames ==
    ASSUME TextOK, TextOK', frames # <<>>, NEW p,
           frames' = [frames EXCEPT ![Len(frames)].pending = p]
    PROVE  /\ Len(frames') = Len(frames) /\ DOMAIN frames' = 1 .. Len(frames) /\ frames' # <<>>
           /\ \A k \in 1 .. Len(frames) - 1 : frames'[k] = frames[k]
           /\ \A k \in 1 .. Len(frames) :
                 /\ frames'[k].start = frames[k].start
                 /\ frames'[k].members = frames[k].members
                 /\ frames'[k].children = frames[k].children
           /\ TopFrame' = frames'[Len(frames)] /\ TopFrame'.pending = p
<1> DEFINE n == Len(frames)
<1>1. n \in Nat \ {0} /\ DOMAIN frames = 1 .. n
  BY TopFrameAt
<1>2. frames' \in Seq(Frame) /\ DOMAIN frames' = 1 .. n
  BY <1>1 DEF TextOK
<1>3. Len(frames') = n
  BY <1>1, <1>2, LenProperties
<1>4. frames[n] \in Frame
  BY <1>1, ElementOfSeq DEF TextOK
<1>5. frames'[n] = [frames[n] EXCEPT !.pending = p]
  BY <1>1
<1> HIDE DEF n
<1>6. /\ frames'[n].pending = p /\ frames'[n].start = frames[n].start
      /\ frames'[n].members = frames[n].members
      /\ frames'[n].children = frames[n].children
  BY <1>4, <1>5 DEF Frame
<1>7. \A k \in 1 .. n - 1 : frames'[k] = frames[k]
  BY <1>1 DEF n
<1>8. \A k \in 1 .. n : k = n \/ k \in 1 .. n - 1
  BY <1>1
<1>9. Len(frames') # 0
  BY <1>1, <1>3
<1>10. frames' # <<>>
  BY <1>2, <1>9, EmptySeq
<1>11. TopFrame' = frames'[n]
  BY <1>3, <1>10 DEF TopFrame, Last
<1>12. QED
  BY <1>1, <1>2, <1>3, <1>6, <1>7, <1>8, <1>10, <1>11 DEF n

(* An object's finished member joins the open ones. *)
LEMMA AfterValueStays ==
    ASSUME TypeOK, TypeOK', Consistent, AfterValueStep, ~refused'
    PROVE  Consistent'
<1> DEFINE n == Len(frames)
           span == [start |-> TopFrame.pending, end |-> Len(buffer)]
<1>1. Control /\ Framing /\ Counting /\ Recorded /\ Holding
  BY DEF Consistent
<1>2. /\ At("after_value") /\ Proceed
      /\ UNCHANGED <<buffer, open_children, records, walk, stack>>
  BY DEF AfterValueStep, Refuse
<1>3. CASE ~Top("Object")
  <2>1. UNCHANGED <<text, opened, records, walk>>
    BY <1>2, <1>3 DEF AfterValueStep, text, opened
  <2>2. /\ Planned(todo') /\ NamesPend' /\ FramesFit' /\ Counting' /\ Recorded' /\ Holding'
        /\ ~Ahead("pop")'
    BY <1>2, <2>1, StepKeeps
  <2>3. FramesMatch'
    BY <1>1, <1>2, <2>1 DEF Framing, FramesMatch, text
  <2>4. QED
    BY <2>2, <2>3 DEF Consistent, Control, PopsOther, Framing
<1>4. CASE Top("Object")
  <2>1. /\ ~OffsetTooLarge /\ NamePending
        /\ frames' = [frames EXCEPT ![Len(frames)].pending = NoOffset]
        /\ open_members' = Append(open_members, span)
    BY <1>4 DEF AfterValueStep, Refuse
  <2>2. /\ todo # <<>> /\ Tail(todo) = <<>> /\ todo[1].op = "after_value"
        /\ ~Ahead("write_out") /\ ~At("produce") /\ ~At("push_frame")
    BY <1>1, <1>2, AtPlan
  <2>3. /\ Planned(todo') /\ todo' = <<>> /\ ~Ahead("write_out")' /\ ~Ahead("pop")'
    BY <1>1, <1>2, <2>2, ProceedPlan
  <2>4. ~At("push_frame")' /\ Top("Object")'
    BY <1>2, <1>4, <2>3 DEF At, Top
  <2>5. Named /\ frames # <<>>
    BY <1>1, <2>1, <2>2 DEF Framing, FramesFit, NamePending
  <2>6. /\ n \in Nat \ {0} /\ DOMAIN frames = 1 .. n
        /\ Len(frames') = n /\ DOMAIN frames' = 1 .. n /\ frames' # <<>>
        /\ \A k \in 1 .. n - 1 : frames'[k] = frames[k]
        /\ \A k \in 1 .. n :
              /\ frames'[k].start = frames[k].start
              /\ frames'[k].members = frames[k].members
              /\ frames'[k].children = frames[k].children
        /\ TopFrame' = frames'[n] /\ TopFrame'.pending = NoOffset
    BY <2>1, <2>5, TopFrameAt, PendingFrames DEF TypeOK
  <2>7. ~NamePending' /\ ~Named'
    BY <2>6 DEF NamePending, Named
  <2>8. /\ Len(open_members') = Len(open_members) + 1
        /\ open_members'[Len(open_members) + 1] = span
        /\ \A i \in 1 .. Len(open_members) : open_members'[i] = open_members[i]
    <3>1. open_members \in Seq(Span)
      BY DEF TypeOK, OpenedOK
    <3> HIDE DEF span
    <3>2. QED
      BY <2>1, <3>1, AppendProperties
  <2>9. Control'
    BY <2>3 DEF Control, PopsOther
  <2>10. FramesMatch'
    BY <1>1, <1>2, <2>6 DEF Framing, FramesMatch
  <2>11. NamesPend'
    BY <1>1, <2>3, <2>4, <2>6 DEF Framing, NamesPend
  <2> HIDE DEF n, span
  <2>12. FramesFit'
    <3>1. /\ \A k \in 1 .. n :
                /\ frames[k].start <= Len(buffer) /\ frames[k].pending <= Len(buffer)
                /\ frames[k].members <= Len(open_members)
                /\ frames[k].children <= Len(open_children)
          /\ \A j, k \in 1 .. n : j < k =>
                /\ frames[j].pending < frames[k].start
                /\ frames[j].members <= frames[k].members
                /\ frames[j].children <= frames[k].children
      BY <1>1, <2>6 DEF Framing, FramesFit, n
    <3>2. ASSUME NEW k \in 1 .. n
          PROVE  /\ frames'[k].start <= Len(buffer') /\ frames'[k].pending <= Len(buffer')
                 /\ frames'[k].members <= Len(open_members')
                 /\ frames'[k].children <= Len(open_children')
      <4>1. frames[k].members \in Nat
        BY <2>6, FrameTypes DEF TypeOK
      <4>2. frames[k].members <= Len(open_members) + 1
        BY <3>1, <4>1, Lengths
      <4>3. frames'[k].pending <= Len(buffer)
        <5>1. CASE k = n
          BY <2>6, <5>1, Lengths DEF NoOffset
        <5>2. CASE k # n
          <6>1. k \in 1 .. n - 1
            BY <2>6, <5>2
          <6>2. QED
            BY <2>6, <3>1, <6>1
        <5>3. QED
          BY <5>1, <5>2
      <4>4. QED
        BY <1>2, <2>6, <2>8, <3>1, <4>2, <4>3
    <3>3. \A j, k \in 1 .. n : j < k =>
            /\ frames'[j].pending < frames'[k].start
            /\ frames'[j].members <= frames'[k].members
            /\ frames'[j].children <= frames'[k].children
      <4>1. \A j, k \in 1 .. n : j < k => j \in 1 .. n - 1
        BY <2>6
      <4>2. QED
        BY <2>6, <3>1, <4>1
    <3>4. QED
      BY <2>6, <2>7, <3>2, <3>3 DEF FramesFit
  <2>13. Counting'
    <3>1. Used = Len(open_members) + Len(closed_members) + Len(closed) + 2 * (n - 1) + 1
      BY <2>5 DEF Used, n
    <3>2. Used' = Len(open_members) + 1 + Len(closed_members) + Len(closed) + 2 * (n - 1) + 0
      BY <1>2, <2>6, <2>7, <2>8 DEF Used, records
    <3>3. Used + 0 <= Len(buffer)
      BY <1>1, <2>2, <2>5 DEF Counting, BytesForRecords
    <3>4. Used' + 0 <= Len(buffer)
      BY <2>6, <3>1, <3>2, <3>3, Lengths
    <3>5. BytesForRecords'
      BY <1>2, <2>4, <3>4 DEF BytesForRecords
    <3>6. OneOwner'
      BY <1>1, <1>2, <2>5 DEF Counting, OneOwner, records
    <3>7. Len(buffer) <= MaxOffset
      BY <2>1, Lengths, BoundsAssumption DEF OffsetTooLarge
    <3>8. Len(open_members) + 1 <= MaxOffset
      BY <2>6, <3>2, <3>4, <3>7, Lengths, BoundsAssumption
    <3>9. IndexesFit'
      BY <1>1, <1>2, <2>8, <3>8 DEF Counting, IndexesFit
    <3>10. QED
      BY <3>5, <3>6, <3>9 DEF Counting
  <2>14. Recorded'
    <3>1. span.start < span.end /\ span.end <= Len(buffer)
      BY <2>5, Lengths DEF Named, span
    <3>2. DOMAIN open_members = 1 .. Len(open_members) /\ DOMAIN open_members' = 1 .. Len(open_members')
      BY LenProperties DEF TypeOK, OpenedOK
    <3>3. SpansFit(open_members)'
      <4> SUFFICES ASSUME NEW i \in DOMAIN open_members'
                   PROVE  open_members'[i].start < open_members'[i].end
                          /\ open_members'[i].end <= Len(buffer)
        BY <1>2 DEF SpansFit
      <4>1. i = Len(open_members) + 1 \/ i \in 1 .. Len(open_members)
        BY <2>8, <3>2, Lengths
      <4>2. CASE i = Len(open_members) + 1
        BY <2>8, <3>1, <4>2
      <4>3. CASE i \in 1 .. Len(open_members)
        BY <1>1, <2>8, <3>2, <4>3 DEF Recorded, SpansFit
      <4>4. QED
        BY <4>1, <4>2, <4>3
    <3>4. /\ SpansFit(root_members)' /\ SpansFit(closed_members)'
          /\ ChildrenClosed(open_children)' /\ ChildrenClosed(root_children)'
          /\ ChildrenClosed(closed_children)'
      BY <1>1, <1>2 DEF Recorded, SpansFit, ChildrenClosed, IsClosed, records, walk
    <3>5. ClosedFit' /\ TasksFit'
      BY <1>1, <1>2 DEF Recorded, ClosedFit, TasksFit, TaskFits, InList, OwnerClosed, IsClosed,
         records, walk
    <3>6. QED
      BY <3>3, <3>4, <3>5 DEF Recorded
  <2>15. Holding'
    BY <1>1, <1>2, <2>2, <2>3, <2>6 DEF Holding, WalkAlone, NothingHeld, walk
  <2>16. QED
    BY <2>9, <2>10, <2>11, <2>12, <2>13, <2>14, <2>15 DEF Consistent, Framing
<1>5. QED
  BY <1>3, <1>4

LEMMA AfterValueWithoutFault ==
    ASSUME TypeOK, Consistent, AfterValueStep
    PROVE  answer' # "Internal"
<1>1. Top("Object") => NamePending
  <2>1. Top("Object") => frames # <<>>
    BY FramesOfObjects DEF TypeOK, Consistent, Framing
  <2>2. todo # <<>>
    BY DEF AfterValueStep, At
  <2>3. QED
    BY <2>1, <2>2 DEF Consistent, Framing, NamesPend
<1>2. QED
  BY <1>1 DEF AfterValueStep, Refuse, Proceed

-----------------------------------------------------------------------------
(* Closing an object. *)

(* Sorting adds no member. *)
LEMMA SortedElements ==
    ASSUME NEW S, NEW ms \in Seq(S), NEW sorted \in SortedMembers(ms), NEW i \in DOMAIN sorted
    PROVE  \E j \in DOMAIN ms : sorted[i] = ms[j]
<1>1. PICK p \in [DOMAIN ms -> DOMAIN ms] : sorted = [k \in DOMAIN ms |-> ms[p[k]]]
  BY DEF SortedMembers
<1>2. i \in DOMAIN ms /\ sorted[i] = ms[p[i]]
  BY <1>1
<1>3. QED
  BY <1>1, <1>2

(* What is known of the innermost object when it may close. *)
LEMMA Closing ==
    ASSUME TypeOK, Consistent, todo = <<>>, EndObjectError = "none"
    PROVE  /\ Top("Object") /\ frames # <<>> /\ Len(frames) \in Nat \ {0}
           /\ TopFrame = frames[Len(frames)] /\ Len(frames) \in DOMAIN frames
           /\ DOMAIN frames = 1 .. Len(frames)
           /\ TopFrame.members \in Nat /\ TopFrame.members <= Len(open_members)
           /\ TopFrame.children \in Nat /\ TopFrame.children <= Len(open_children)
           /\ TopFrame.start \in Nat /\ TopFrame.start <= Len(buffer)
           /\ Len(open_members) + Len(closed_members) + Len(closed)
                + 2 * (Len(frames) - 1) <= Len(buffer)
           /\ Len(open_children) + Len(closed_children) = Len(closed)
           /\ ~Ahead("write_out")
<1>1. Top("Object") /\ frames # <<>> /\ ~NamePending
  BY DEF EndObjectError
<1>2. /\ TopFrame = frames[Len(frames)] /\ Len(frames) \in DOMAIN frames
      /\ Len(frames) \in Nat \ {0} /\ DOMAIN frames = 1 .. Len(frames)
  BY <1>1, TopFrameAt DEF TypeOK
<1>3. TopFrame.members \in Nat /\ TopFrame.children \in Nat /\ TopFrame.start \in Nat
  BY <1>2, FrameTypes DEF TypeOK
<1>4. /\ TopFrame.members <= Len(open_members) /\ TopFrame.children <= Len(open_children)
      /\ TopFrame.start <= Len(buffer)
  BY <1>2 DEF Consistent, Framing, FramesFit
<1>5. ~Named /\ ~At("push_frame") /\ ~Ahead("write_out")
  BY <1>1, IdleNamed DEF Named
<1>6. Used + 0 <= Len(buffer) /\ Len(open_children) + Len(closed_children) = Len(closed)
  BY <1>1, <1>5 DEF Consistent, Counting, BytesForRecords, OneOwner
<1>7. Len(open_members) + Len(closed_members) + Len(closed)
        + 2 * (Len(frames) - 1) + 0 + 0 <= Len(buffer)
  BY <1>5, <1>6 DEF Used
<1>8. Len(open_members) + Len(closed_members) + Len(closed)
        + 2 * (Len(frames) - 1) <= Len(buffer)
  BY <1>7, <1>2, Lengths
<1>9. QED
  BY <1>1, <1>2, <1>3, <1>4, <1>5, <1>6, <1>8

(* Its members are what was recorded since it opened. *)
LEMMA ClosingMembers ==
    ASSUME TypeOK, Consistent, todo = <<>>, EndObjectError = "none",
           NEW members \in SortedMembers(SubSeq(open_members, TopFrame.members + 1,
                                                Len(open_members)))
    PROVE  /\ members \in Seq(Span) /\ DOMAIN members = 1 .. Len(members)
           /\ Len(members) = Len(open_members) - TopFrame.members /\ Len(members) \in Nat
           /\ SpansFit(members)
<1> DEFINE own == SubSeq(open_members, TopFrame.members + 1, Len(open_members))
<1>1. TopFrame.members \in Nat /\ TopFrame.members <= Len(open_members)
  BY Closing
<1>2. open_members \in Seq(Span) /\ Len(open_members) \in Nat
  BY Lengths DEF TypeOK, OpenedOK
<1>3. /\ own \in Seq(Span) /\ Len(own) \in Nat
      /\ Len(own) = Len(open_members) - TopFrame.members
  BY <1>1, <1>2, SuffixType
<1>4. \A i \in 1 .. Len(own) : own[i] \in {open_members[k] : k \in DOMAIN open_members}
  <2> SUFFICES ASSUME NEW i \in 1 .. Len(own)
               PROVE  own[i] \in {open_members[k] : k \in DOMAIN open_members}
    OBVIOUS
  <2>1. TopFrame.members + i \in 1 .. Len(open_members) /\ own[i] = open_members[TopFrame.members + i]
    BY <1>1, <1>2, SuffixElements
  <2>2. DOMAIN open_members = 1 .. Len(open_members)
    BY <1>2, LenProperties
  <2>3. QED
    BY <2>1, <2>2
<1> HIDE DEF own
<1>5. members \in SortedMembers(own)
  BY DEF own
<1>6. members \in Seq(Span) /\ Len(members) = Len(own)
  BY <1>3, <1>5, SortedType
<1>7. DOMAIN members = 1 .. Len(members) /\ DOMAIN own = 1 .. Len(own)
  BY <1>3, <1>6, LenProperties
<1>8. SpansFit(members)
  <2> SUFFICES ASSUME NEW i \in DOMAIN members
               PROVE  members[i].start < members[i].end /\ members[i].end <= Len(buffer)
    BY DEF SpansFit
  <2>1. PICK j \in DOMAIN own : members[i] = own[j]
    BY <1>3, <1>5, SortedElements
  <2>2. PICK k \in DOMAIN open_members : members[i] = open_members[k]
    BY <1>4, <1>7, <2>1
  <2>3. QED
    BY <2>2 DEF Consistent, Recorded, SpansFit
<1>9. QED
  BY <1>3, <1>6, <1>7, <1>8

LEMMA CloseErrorFault ==
    ASSUME TypeOK, Consistent, todo = <<>>, EndObjectError = "none",
           NEW members \in SortedMembers(SubSeq(open_members, TopFrame.members + 1,
                                                Len(open_members)))
    PROVE  CloseError(members) # "Internal"
<1>1. ~(TopFrame.members > Len(open_members))
  BY Closing, Lengths
<1>2. ASSUME NEW i \in DOMAIN members
      PROVE  InBuffer(members[i])
  <2>1. members \in Seq(Span) /\ SpansFit(members)
    BY ClosingMembers
  <2>2. members[i] \in Span /\ members[i].start < members[i].end /\ members[i].end <= Len(buffer)
    BY <2>1, LenProperties, ElementOfSeq DEF SpansFit
  <2>3. members[i].start \in Nat /\ members[i].end \in Nat
    BY <2>2, OffsetNat DEF Span
  <2>4. QED
    BY <2>2, <2>3 DEF InBuffer
<1>3. \A i \in 1 .. Len(members) - 1 : i \in DOMAIN members /\ i + 1 \in DOMAIN members
  BY ClosingMembers
<1>4. \A i \in 1 .. Len(members) - 1 : InBuffer(members[i]) /\ InBuffer(members[i + 1])
  BY <1>2, <1>3
<1>5. QED
  BY <1>1, <1>4 DEF CloseError

(* No index of a closing object overflows while its offset does not. *)
LEMMA StageWithoutFault ==
    ASSUME TypeOK, Consistent, todo = <<>>, EndObjectError = "none",
           NEW members, NEW children,
           Len(members) = Len(open_members) - TopFrame.members,
           Len(children) = Len(open_children) - TopFrame.children,
           NEW k \in 0 .. 4, k # 0 => ~OffsetTooLarge
    PROVE  StageFault(k, members, children) # "Internal"
<1>1. /\ TopFrame.members \in Nat /\ TopFrame.members <= Len(open_members)
      /\ TopFrame.children \in Nat /\ TopFrame.children <= Len(open_children)
      /\ Len(open_members) + Len(closed_members) + Len(closed)
           + 2 * (Len(frames) - 1) <= Len(buffer)
      /\ Len(open_children) + Len(closed_children) = Len(closed)
      /\ Len(frames) \in Nat \ {0}
  BY Closing
<1> DEFINE om == Len(open_members)
           oc == Len(open_children)
           cm == Len(closed_members)
           cc == Len(closed_children)
           c == Len(closed)
           n == Len(frames)
           b == Len(buffer)
           ms == Len(members)
           cs == Len(children)
           tm == TopFrame.members
           tc == TopFrame.children
<1>2. /\ om \in Nat /\ oc \in Nat /\ cm \in Nat /\ cc \in Nat /\ c \in Nat /\ b \in Nat
      /\ n \in Nat \ {0} /\ tm \in Nat /\ tc \in Nat /\ MaxOffset \in Nat
      /\ tm <= om /\ tc <= oc /\ om + cm + c + 2 * (n - 1) <= b /\ oc + cc = c
      /\ ms = om - tm /\ cs = oc - tc
      /\ om <= MaxOffset /\ oc <= MaxOffset /\ (k # 0 => b <= MaxOffset)
      /\ OffsetTooLarge <=> b > MaxOffset
  <2>1. om <= MaxOffset /\ oc <= MaxOffset
    BY DEF Consistent, Counting, IndexesFit
  <2>2. OffsetTooLarge <=> b > MaxOffset
    BY DEF OffsetTooLarge
  <2>3. b \in Nat /\ MaxOffset \in Nat
    BY Lengths, BoundsAssumption
  <2>4. k # 0 => b <= MaxOffset
    BY <2>2, <2>3
  <2>5. /\ om \in Nat /\ oc \in Nat /\ cm \in Nat /\ cc \in Nat /\ c \in Nat
    BY Lengths
  <2>6. QED
    BY <1>1, <2>1, <2>2, <2>3, <2>4, <2>5
<1>3. /\ IndexTooLarge(open_members) <=> om > MaxOffset
      /\ IndexTooLarge(open_children) <=> oc > MaxOffset
      /\ IndexTooLarge(closed_members) <=> cm > MaxOffset
      /\ IndexTooLarge(closed_children) <=> cc > MaxOffset
      /\ IndexTooLarge(closed) <=> c > MaxOffset
  BY DEF IndexTooLarge
<1> HIDE DEF om, oc, cm, cc, c, n, b, ms, cs, tm, tc
<1>4. ~(om > MaxOffset) /\ ~(oc > MaxOffset) /\ ~(tc > oc)
  BY <1>2
<1>5. b <= MaxOffset => /\ ~(cm > MaxOffset) /\ ~(cc > MaxOffset) /\ ~(c > MaxOffset)
                        /\ ~(cm + ms > MaxOffset) /\ ~(cc + cs > MaxOffset)
  BY <1>2
<1>6. ~OffsetTooLarge =>
        /\ ~IndexTooLarge(closed_members) /\ ~IndexTooLarge(closed_children)
        /\ ~IndexTooLarge(closed)
        /\ ~(Len(closed_members) + Len(members) > MaxOffset)
        /\ ~(Len(closed_children) + Len(children) > MaxOffset)
  <2>1. ~OffsetTooLarge => b <= MaxOffset
    BY <1>2
  <2>2. QED
    BY <1>3, <1>5, <2>1 DEF cm, cc, ms, cs
<1>7. /\ ~IndexTooLarge(open_members) /\ ~IndexTooLarge(open_children)
       /\ ~(TopFrame.children > Len(open_children))
  BY <1>3, <1>4 DEF tc, oc
<1>8. CASE k = 0
  BY <1>6, <1>7, <1>8 DEF StageFault
<1>9. CASE k = 1
  BY <1>6, <1>9 DEF StageFault
<1>10. CASE k = 2
  BY <1>6, <1>10 DEF StageFault
<1>11. CASE k = 3
  BY <1>6, <1>11 DEF StageFault
<1>12. CASE k = 4
  BY <1>12 DEF StageFault
<1>13. QED
  BY <1>8, <1>9, <1>10, <1>11, <1>12

(* A refused close is refused by the limits or the allocator. *)
LEMMA EndObjectWithoutFault ==
    ASSUME TypeOK, Consistent, todo = <<>>, EndObjectEvent
    PROVE  answer' # "Internal"
<1> DEFINE own == SubSeq(open_members, TopFrame.members + 1, Len(open_members))
           children == SubSeq(open_children, TopFrame.children + 1, Len(open_children))
<1>1. EndObjectError # "Internal"
  BY FramesOfObjects DEF TypeOK, Consistent, Framing, EndObjectError
<1>2. CASE EndObjectError # "none"
  <2>1. answer' = EndObjectError
    BY <1>2 DEF EndObjectEvent, Refuse
  <2>2. QED
    BY <1>1, <2>1
<1>3. CASE EndObjectError = "none"
  <2>1. PICK members \in SortedMembers(own) :
          \/ CloseError(members) # "none" /\ answer' = CloseError(members)
          \/ CloseOutermost(members)
          \/ CloseNested(members)
    BY <1>3 DEF EndObjectEvent, Refuse
  <2>2. CloseError(members) # "Internal"
    BY <1>3, CloseErrorFault
  <2>3. CASE CloseOutermost(members)
    BY <2>3 DEF CloseOutermost, Run
  <2>4. CASE CloseNested(members)
    <3>1. Len(members) = Len(open_members) - TopFrame.members
      BY <1>3, ClosingMembers
    <3>2. Len(children) = Len(open_children) - TopFrame.children
      <4>1. TopFrame.children \in Nat /\ TopFrame.children <= Len(open_children)
        BY <1>3, Closing
      <4>2. QED
        BY <4>1, SuffixType DEF TypeOK, OpenedOK
    <3>3. PICK done \in 0 .. 5 :
            /\ \A k \in 0 .. done - 1 : StageFault(k, members, children) \in {"Allocation", "none"}
            /\ IF done = 5 THEN Run(<<AfterValue>>)
               ELSE Refuse(StageFault(done, members, children))
      BY <2>4 DEF CloseNested
    <3> HIDE DEF children
    <3>4. CASE done = 5
      BY <3>3, <3>4 DEF Run
    <3>5. CASE done # 5
      <4>1. answer' = StageFault(done, members, children) /\ done \in 0 .. 4
        BY <3>3, <3>5 DEF Refuse
      <4>2. done # 0 => ~OffsetTooLarge
        <5> SUFFICES ASSUME done # 0 PROVE ~OffsetTooLarge
          OBVIOUS
        <5>1. 0 \in 0 .. done - 1
          BY <4>1
        <5>2. StageFault(0, members, children) \in {"Allocation", "none"}
          BY <3>3, <5>1
        <5>3. QED
          BY <5>2 DEF StageFault
      <4>3. StageFault(done, members, children) # "Internal"
        BY <1>3, <3>1, <3>2, <4>1, <4>2, StageWithoutFault
      <4>4. QED
        BY <4>1, <4>3
    <3>6. QED
      BY <3>4, <3>5
  <2>5. QED
    BY <2>1, <2>2, <2>3, <2>4
<1>4. QED
  BY <1>2, <1>3

(* The frames and the containers around a closed object. *)
LEMMA ClosedFrames ==
    ASSUME TypeOK, TypeOK', Consistent, todo = <<>>, EndObjectError = "none",
           frames' = Front(frames), stack' = Front(stack)
    PROVE  /\ Len(frames') = Len(frames) - 1 /\ DOMAIN frames' = 1 .. Len(frames) - 1
           /\ \A k \in 1 .. Len(frames) - 1 : frames'[k] = frames[k]
           /\ Len(frames) = 1 => frames' = <<>>
           /\ Len(frames) > 1 => frames' # <<>> /\ TopFrame' = frames[Len(frames) - 1]
           /\ FramesMatch'
<1>1. Top("Object") /\ frames # <<>> /\ Len(frames) \in Nat \ {0}
  BY Closing
<1>2. /\ Len(frames') = Len(frames) - 1
      /\ \A k \in 1 .. Len(frames) - 1 : frames'[k] = frames[k]
  BY <1>1, FrontLast DEF TypeOK, TextOK
<1>3. frames' \in Seq(Frame) /\ DOMAIN frames' = 1 .. Len(frames')
  BY LenProperties DEF TypeOK, TextOK
<1>4. Len(frames) = 1 => frames' = <<>>
  <2> SUFFICES ASSUME Len(frames) = 1 PROVE frames' = <<>>
    OBVIOUS
  <2>1. Len(frames') = 0
    BY <1>2
  <2>2. QED
    BY <1>3, <2>1, EmptySeq
<1>5. Len(frames) > 1 => frames' # <<>> /\ TopFrame' = frames[Len(frames) - 1]
  <2> SUFFICES ASSUME Len(frames) > 1
               PROVE  frames' # <<>> /\ TopFrame' = frames[Len(frames) - 1]
    OBVIOUS
  <2>1. Len(frames') # 0 /\ Len(frames) - 1 \in 1 .. Len(frames) - 1
    BY <1>1, <1>2
  <2>2. frames' # <<>>
    BY <1>3, <2>1, EmptySeq
  <2>3. TopFrame' = frames'[Len(frames')]
    BY <2>2 DEF TopFrame, Last
  <2>4. QED
    BY <1>2, <2>1, <2>2, <2>3
<1>6. FramesMatch'
  <2>1. stack # <<>> /\ Last(stack).kind = "Object" /\ stack \in Seq(Open)
    BY <1>1 DEF Top, TypeOK, StackOK
  <2>2. /\ ObjectsOf(stack) = ObjectsOf(stack') \cup {Len(stack)}
        /\ Len(stack) \notin ObjectsOf(stack') /\ IsFiniteSet(ObjectsOf(stack'))
    BY <2>1, ObjectsFront
  <2>3. Cardinality(ObjectsOf(stack)) = Cardinality(ObjectsOf(stack')) + 1
    BY <2>2, FS_AddElement
  <2>4. Cardinality(ObjectsOf(stack')) \in Nat
    BY <2>2, FS_CardinalityType
  <2>5. Len(frames) = Cardinality(ObjectsOf(stack))
    BY DEF Consistent, Framing, FramesMatch
  <2>6. QED
    BY <1>2, <2>3, <2>4, <2>5 DEF FramesMatch
<1>7. QED
  BY <1>2, <1>3, <1>4, <1>5, <1>6

(* The outermost object hands its lists to the walk. *)
LEMMA OutermostStays ==
    ASSUME TypeOK, TypeOK', Consistent, todo = <<>>, EndObjectError = "none",
           frames' = Front(frames), stack' = Front(stack), Len(frames) = 1, buffer' = buffer,
           NEW members \in SortedMembers(SubSeq(open_members, TopFrame.members + 1,
                                                Len(open_members))),
           CloseOutermost(members)
    PROVE  Consistent'
<1>1. Control /\ Framing /\ Counting /\ Recorded /\ Holding
  BY DEF Consistent
<1>2. /\ root_members' = members /\ root_children' = open_children
      /\ open_members' = <<>> /\ open_children' = <<>>
      /\ tasks' = <<BodyTask(Root, 0)>>
      /\ todo' = <<Walk, AfterValue>>
      /\ UNCHANGED records
  BY DEF CloseOutermost, Run
<1>3. frames' = <<>> /\ FramesMatch' /\ DOMAIN frames' = {}
  <2>1. frames' = <<>> /\ FramesMatch'
    BY ClosedFrames
  <2>2. QED
    BY <2>1
<1>4. /\ Planned(todo') /\ ~Ahead("pop")'
  <2>1. /\ Planned(<<Walk, AfterValue>>)
        /\ \A i \in DOMAIN <<Walk, AfterValue>> : <<Walk, AfterValue>>[i].op # "pop"
    <3>1. "," \in Byte
      BY DEF Byte, Punctuation
    <3>2. PICK b \in Byte : TRUE
      BY <3>1
    <3>3. QED
      BY <3>2, EndPlans
  <2>2. QED
    BY <1>2, <2>1 DEF Ahead
<1>5. Ahead("write_out")'
  <2>1. 1 \in DOMAIN todo' /\ todo'[1] = Walk
    BY <1>2
  <2>2. QED
    BY <2>1 DEF Ahead, Walk
<1>6. Control'
  BY <1>4 DEF Control, PopsOther
<1>7. NamesPend'
  <2>1. 1 .. Len(frames') - 1 = {}
    BY <1>3
  <2>2. QED
    BY <1>3, <2>1 DEF NamesPend
<1>8. FramesFit'
  BY <1>3 DEF FramesFit, NamePending
<1>9. Counting'
  <2>1. Len(open_members') = 0 /\ Len(open_children') = 0
    BY <1>2
  <2>2. IndexesFit'
    BY <2>1, BoundsAssumption DEF IndexesFit
  <2>3. QED
    BY <1>3, <2>2 DEF Counting, BytesForRecords, OneOwner
<1>10. Recorded'
  <2>1. SpansFit(members) /\ UNCHANGED <<buffer, closed>>
    BY <1>2, ClosingMembers DEF records
  <2>2. SpansFit(root_members)' /\ SpansFit(closed_members)' /\ SpansFit(open_members)'
    <3>1. SpansFit(root_members)'
      BY <1>2, <2>1 DEF SpansFit
    <3>2. SpansFit(closed_members)'
      BY <1>1, <1>2, <2>1 DEF SpansFit, Recorded, records
    <3>3. DOMAIN open_members' = {}
      BY <1>2
    <3>4. QED
      BY <3>1, <3>2, <3>3 DEF SpansFit
  <2>3. /\ ChildrenClosed(open_children)' /\ ChildrenClosed(root_children)'
        /\ ChildrenClosed(closed_children)'
    <3>1. DOMAIN open_children' = {}
      BY <1>2
    <3>2. QED
      BY <1>1, <1>2, <3>1 DEF Recorded, ChildrenClosed, IsClosed, records
  <2>4. ClosedFit'
    BY <1>1, <1>2, <2>1 DEF Recorded, ClosedFit, InList, records
  <2>5. TasksFit'
    <3> DEFINE t == BodyTask(Root, 0)
    <3>1. t.task = "Body" /\ t.owner = Root
      BY DEF BodyTask
    <3> HIDE DEF t
    <3>2. tasks' = <<t>>
      BY <1>2 DEF t
    <3>3. \A i \in DOMAIN tasks' : tasks'[i] = t
      BY <3>2
    <3>4. QED
      BY <3>1, <3>3 DEF TasksFit, TaskFits, OwnerClosed
  <2>6. QED
    BY <2>2, <2>3, <2>4, <2>5 DEF Recorded
<1>11. Holding'
  BY <1>2, <1>3, <1>5 DEF Holding, WalkAlone, NothingHeld
<1>12. QED
  BY <1>3, <1>6, <1>7, <1>8, <1>9, <1>10, <1>11 DEF Consistent, Framing

LEMMA KeptElements ==
    ASSUME NEW S, NEW list \in Seq(S), NEW n \in Nat, n <= Len(list)
    PROVE  /\ Kept(list, n) \in Seq(S) /\ Len(Kept(list, n)) = n
           /\ \A i \in 1 .. n : Kept(list, n)[i] = list[i]
<1>1. Len(list) \in Nat
  BY LenProperties
<1>2. CASE n < Len(list)
  <2>1. Kept(list, n) = SubSeq(list, 1, n)
    BY <1>2 DEF Kept
  <2>2. SubSeq(list, 1, n) \in Seq(S) /\ Len(SubSeq(list, 1, n)) = n
    BY <1>1, <1>2, PrefixType
  <2>3. \A i \in 1 .. n : SubSeq(list, 1, n)[i] = list[i]
    BY <1>1, <1>2, SubSeqProperties
  <2>4. QED
    BY <2>1, <2>2, <2>3
<1>3. CASE ~(n < Len(list))
  <2>1. Kept(list, n) = list /\ Len(list) = n
    BY <1>1, <1>3 DEF Kept
  <2>2. QED
    BY <2>1
<1>4. QED
  BY <1>2, <1>3

(* What a nested object leaves behind when its close succeeds. *)
LEMMA ClosedLists ==
    ASSUME TypeOK, TypeOK', Consistent, todo = <<>>, EndObjectError = "none", ~refused',
           NEW members \in SortedMembers(SubSeq(open_members, TopFrame.members + 1,
                                                Len(open_members))),
           CloseNested(members)
    PROVE  LET children == SubSeq(open_children, TopFrame.children + 1, Len(open_children))
               Landed(list, items) == [start |-> Len(list), end |-> Len(list) + Len(items)]
           IN  /\ closed_members' = closed_members \o members
               /\ closed_children' = closed_children \o children
               /\ open_members' = Kept(open_members, TopFrame.members)
               /\ open_children' = Append(Kept(open_children, TopFrame.children), Len(closed))
               /\ closed' = Append(closed, [start |-> TopFrame.start, end |-> Len(buffer),
                                            members |-> Landed(closed_members, members),
                                            children |-> Landed(closed_children, children)])
               /\ todo' = <<AfterValue>> /\ UNCHANGED walk /\ ~OffsetTooLarge
<1> DEFINE children == SubSeq(open_children, TopFrame.children + 1, Len(open_children))
           Landed(list, items) == [start |-> Len(list), end |-> Len(list) + Len(items)]
           record == [start |-> TopFrame.start, end |-> Len(buffer),
                      members |-> Landed(closed_members, members),
                      children |-> Landed(closed_children, children)]
           kept == Kept(open_children, TopFrame.children)
           Fault(k) == StageFault(k, members, children)
<1>1. PICK done \in 0 .. 5 :
        /\ \A k \in 0 .. done - 1 : Fault(k) \in {"Allocation", "none"}
        /\ closed_members' = IF done >= 1 THEN closed_members \o members ELSE closed_members
        /\ closed_children' = IF done >= 2 THEN closed_children \o children
                              ELSE closed_children
        /\ open_members' = IF done >= 3 THEN Kept(open_members, TopFrame.members)
                           ELSE open_members
        /\ open_children' = IF done = 5 THEN Append(kept, Len(closed))
                            ELSE IF done >= 3 THEN kept ELSE open_children
        /\ closed' = IF done >= 4 THEN Append(closed, record) ELSE closed
        /\ IF done = 5 THEN Run(<<AfterValue>>) ELSE Fault(done) # "none" /\ Refuse(Fault(done))
        /\ UNCHANGED walk
  BY DEF CloseNested
<1>2. done = 5
  BY <1>1 DEF Refuse
<1>3. ~OffsetTooLarge
  <2> HIDE DEF children
  <2>1. 0 \in 0 .. done - 1
    BY <1>2
  <2>2. Fault(0) \in {"Allocation", "none"}
    <3> HIDE DEF Fault
    <3>1. QED
      BY <1>1, <2>1
  <2>3. QED
    BY <2>2 DEF StageFault
<1>4. todo' = <<AfterValue>>
  BY <1>1, <1>2 DEF Run
<1> HIDE DEF children, record, kept, Fault
<1>5. /\ closed_members' = closed_members \o members
      /\ closed_children' = closed_children \o children
      /\ open_members' = Kept(open_members, TopFrame.members)
      /\ open_children' = Append(kept, Len(closed))
      /\ closed' = Append(closed, record)
      /\ UNCHANGED walk
  BY <1>1, <1>2
<1>6. QED
  BY <1>3, <1>4, <1>5, SMTT(30) DEF children, record, kept

(* A longer list keeps its spans and its children in place. *)
LEMMA ConcatFits ==
    ASSUME NEW S, NEW a \in Seq(S), NEW b \in Seq(S), NEW t, t = a \o b,
           NEW i \in DOMAIN t
    PROVE  \/ i \in DOMAIN a /\ t[i] = a[i]
           \/ i - Len(a) \in DOMAIN b /\ t[i] = b[i - Len(a)]
<1>1. /\ t \in Seq(S) /\ Len(t) = Len(a) + Len(b)
      /\ \A k \in 1 .. Len(a) + Len(b) :
            t[k] = IF k <= Len(a) THEN a[k] ELSE b[k - Len(a)]
  BY ConcatProperties
<1>2. /\ Len(a) \in Nat /\ Len(b) \in Nat
      /\ DOMAIN a = 1 .. Len(a) /\ DOMAIN b = 1 .. Len(b)
      /\ DOMAIN t = 1 .. Len(t)
  BY <1>1, LenProperties
<1>3. i \in 1 .. Len(a) + Len(b)
  BY <1>1, <1>2
<1>4. CASE i <= Len(a)
  BY <1>1, <1>2, <1>3, <1>4
<1>5. CASE ~(i <= Len(a))
  BY <1>1, <1>2, <1>3, <1>5
<1>6. QED
  BY <1>4, <1>5

LEMMA AppendedType ==
    ASSUME NEW S, NEW list \in Seq(S), NEW e, Append(list, e) \in Seq(S)
    PROVE  e \in S
<1> DEFINE t == Append(list, e)
<1>1. t[Len(list) + 1] = e /\ Len(t) = Len(list) + 1 /\ Len(list) \in Nat
  BY LenProperties
<1> HIDE DEF t
<1>2. t \in Seq(S)
  BY DEF t
<1>3. Len(list) + 1 \in 1 .. Len(t)
  BY <1>1
<1>4. QED
  BY <1>1, <1>2, <1>3, ElementOfSeq

(* An object closed inside another becomes a record and its child. *)
LEMMA NestedStays ==
    ASSUME TypeOK, TypeOK', Consistent, todo = <<>>, EndObjectError = "none", ~refused',
           frames' = Front(frames), stack' = Front(stack), Len(frames) > 1, buffer' = buffer,
           NEW members \in SortedMembers(SubSeq(open_members, TopFrame.members + 1,
                                                Len(open_members))),
           CloseNested(members)
    PROVE  Consistent'
<1> DEFINE n == Len(frames)
           om == Len(open_members)
           oc == Len(open_children)
           cm == Len(closed_members)
           cc == Len(closed_children)
           c == Len(closed)
           b == Len(buffer)
           tm == TopFrame.members
           tc == TopFrame.children
           ms == Len(members)
           children == SubSeq(open_children, tc + 1, oc)
           Landed(list, items) == [start |-> Len(list), end |-> Len(list) + Len(items)]
           record == [start |-> TopFrame.start, end |-> b,
                      members |-> Landed(closed_members, members),
                      children |-> Landed(closed_children, children)]
           kept == Kept(open_children, tc)
<1>1. Control /\ Framing /\ Counting /\ Recorded /\ Holding
  BY DEF Consistent
<1>2. /\ closed_members' = closed_members \o members
      /\ closed_children' = closed_children \o children
      /\ open_members' = Kept(open_members, tm)
      /\ open_children' = Append(kept, c)
      /\ closed' = Append(closed, record)
      /\ todo' = <<AfterValue>> /\ UNCHANGED walk /\ ~OffsetTooLarge
  BY ClosedLists
<1>3. /\ n \in Nat \ {0} /\ TopFrame = frames[n] /\ n \in DOMAIN frames /\ DOMAIN frames = 1 .. n
      /\ tm \in Nat /\ tm <= om /\ tc \in Nat /\ tc <= oc
      /\ TopFrame.start \in Nat /\ TopFrame.start <= b
      /\ om + cm + c + 2 * (n - 1) <= b
      /\ oc + cc = c
      /\ ~Ahead("write_out")
  BY Closing
<1>4. /\ om \in Nat /\ oc \in Nat /\ cm \in Nat /\ cc \in Nat /\ c \in Nat /\ b \in Nat
  BY Lengths
<1>5. members \in Seq(Span) /\ ms = om - tm /\ ms \in Nat /\ SpansFit(members)
  BY ClosingMembers
<1>6. /\ open_members \in Seq(Span) /\ open_children \in Seq(Offset)
      /\ closed \in Seq(Closed) /\ closed_members \in Seq(Span)
      /\ closed_children \in Seq(Offset)
      /\ open_members' \in Seq(Span) /\ open_children' \in Seq(Offset)
      /\ closed' \in Seq(Closed) /\ closed_members' \in Seq(Span)
      /\ closed_children' \in Seq(Offset)
  BY DEF TypeOK, OpenedOK, RecordsOK
<1>7. /\ children \in Seq(Offset) /\ Len(children) = oc - tc
      /\ \A i \in 1 .. Len(children) : /\ tc + i \in 1 .. oc
                                       /\ children[i] = open_children[tc + i]
  <2>1. children \in Seq(Offset) /\ Len(children) = IF tc <= oc THEN oc - tc ELSE 0
    BY <1>3, <1>6, SuffixType
  <2>2. ASSUME NEW i \in 1 .. Len(children)
        PROVE  tc + i \in 1 .. oc /\ children[i] = open_children[tc + i]
    BY ZenonT(30), <1>3, <1>6, SuffixElements
  <2> HIDE DEF children, oc, tc
  <2>3. QED
    BY <1>3, <2>1, <2>2
<1>8. /\ kept \in Seq(Offset) /\ Len(kept) = tc
      /\ \A i \in 1 .. tc : kept[i] = open_children[i]
      /\ Len(open_members') = tm /\ \A i \in 1 .. tm : open_members'[i] = open_members[i]
  <2>1. /\ kept \in Seq(Offset) /\ Len(kept) = tc
        /\ \A i \in 1 .. tc : kept[i] = open_children[i]
    <3>1. open_children \in Seq(Offset) /\ tc \in Nat /\ tc <= Len(open_children)
      BY <1>3, <1>6
    <3> HIDE DEF tc
    <3>2. QED
      BY ONLY <3>1, KeptElements
  <2>2. /\ Len(Kept(open_members, tm)) = tm
        /\ \A i \in 1 .. tm : Kept(open_members, tm)[i] = open_members[i]
    <3>1. open_members \in Seq(Span) /\ tm \in Nat /\ tm <= Len(open_members)
      BY <1>3, <1>6
    <3> HIDE DEF tm
    <3>2. QED
      BY ONLY <3>1, KeptElements
  <2>3. open_members' = Kept(open_members, tm)
    BY <1>2
  <2>4. QED
    BY <2>1, <2>2, <2>3
<1> HIDE DEF children
<1>9. Len(closed_members') = cm + ms /\ Len(closed_children') = cc + (oc - tc)
  <2>1. Len(closed_members \o members) = cm + ms
    BY <1>5, <1>6, ConcatProperties
  <2>2. Len(closed_children \o children) = cc + Len(children)
    BY <1>6, <1>7, ConcatProperties
  <2>3. closed_members' = closed_members \o members /\ closed_children' = closed_children \o children
    BY <1>2
  <2>4. QED
    BY <1>7, <2>1, <2>2, <2>3
<1> HIDE DEF kept, record
<1>10. /\ Len(closed') = c + 1 /\ closed'[c + 1] = record
       /\ \A i \in 1 .. c : closed'[i] = closed[i]
  <2>1. closed' = Append(closed, record)
    BY <1>2
  <2>2. record \in Closed
    BY <1>6, <2>1, AppendedType
  <2>3. QED
    BY <1>6, <2>1, <2>2, AppendProperties
<1>11. /\ Len(open_children') = tc + 1 /\ open_children'[tc + 1] = c
       /\ \A i \in 1 .. tc : open_children'[i] = open_children[i]
  <2>1. open_children' = Append(kept, c)
    BY <1>2
  <2>2. c \in Offset
    BY <1>6, <1>8, <2>1, AppendedType
  <2> HIDE DEF c
  <2>3. QED
    BY <1>8, <2>1, <2>2, AppendProperties
<1>12. /\ frames' # <<>> /\ Len(frames') = n - 1 /\ DOMAIN frames' = 1 .. n - 1
       /\ TopFrame' = frames[n - 1] /\ FramesMatch'
       /\ \A k \in 1 .. n - 1 : frames'[k] = frames[k]
  BY ClosedFrames
<1>13. n > 1
  OBVIOUS
<1> HIDE DEF n, om, oc, cm, cc, c, b, tm, tc, ms
<1>14. /\ cm <= cm + ms /\ cc <= cc + (oc - tc)
       /\ cm + ms \in Nat /\ cc + (oc - tc) \in Nat /\ c + 1 <= b
       /\ tm + (cm + ms) + (c + 1) + 2 * (n - 1 - 1) + 1 \in Nat
       /\ tm + (cm + ms) + (c + 1) + 2 * (n - 1 - 1) + 1 <= b
  <2>1. /\ n \in Nat /\ tm \in Nat /\ tm <= om /\ tc \in Nat /\ tc <= oc
        /\ om + cm + c + 2 * (n - 1) <= b /\ ms = om - tm
    BY <1>3, <1>5
  <2>2. QED
    BY <2>1, <1>4, <1>13
<1>15. Planned(todo') /\ ~Ahead("pop")' /\ ~Ahead("write_out")'
       /\ ~Ahead("push_frame")' /\ ~At("push_frame")' /\ ~At("produce")'
  <2> DEFINE s == AfterValue
  <2>1. s.op = "after_value"
    BY DEF AfterValue
  <2> HIDE DEF s
  <2>2. todo' = <<s>> /\ Head(todo') = s
    BY <1>2 DEF s
  <2>3. Len(todo') = 1 /\ \A i \in DOMAIN todo' : i = 1 /\ todo'[i] = s
    BY <2>2
  <2>4. QED
    BY <2>1, <2>2, <2>3 DEF Planned, Ahead, At
<1>16. Control'
  BY <1>15 DEF Control, PopsOther
<1>17. /\ NamePending' /\ Named'
  <2>1. n - 1 \in 1 .. n - 1 /\ n - 1 \in DOMAIN frames /\ n - 1 < n
    BY <1>3, <1>13
  <2>2. frames[n - 1].pending # NoOffset
    BY <1>1, <2>1 DEF Framing, NamesPend, n
  <2>3. frames[n - 1].pending < TopFrame.start
    BY <1>1, <1>3, <2>1 DEF Framing, FramesFit
  <2>4. frames[n - 1].pending \in Nat
    BY <2>1, <2>2, FrameTypes DEF TypeOK
  <2>5. frames[n - 1].pending < b
    BY <1>3, <1>4, <2>3, <2>4
  <2>6. QED
    BY <1>12, <2>2, <2>5 DEF NamePending, Named, b
<1>18. NamesPend'
  <2>1. \A k \in 1 .. n - 1 - 1 : k \in 1 .. n - 1
    BY <1>3
  <2>2. \A k \in 1 .. n - 1 : frames[k].pending # NoOffset
    BY <1>1 DEF Framing, NamesPend, n
  <2>3. \A k \in 1 .. Len(frames') - 1 : frames'[k].pending # NoOffset
    BY <1>12, <2>1, <2>2
  <2>4. QED
    BY <1>17, <2>3 DEF NamesPend
<1>19. FramesFit'
  <2>1. ASSUME NEW k \in 1 .. n - 1
        PROVE  /\ k \in DOMAIN frames /\ k < n
               /\ frames[k].start <= b /\ frames[k].pending <= b
               /\ frames[k].members <= tm /\ frames[k].children <= tc + 1
    <3>1. k \in DOMAIN frames /\ k < n
      BY <1>3
    <3>2. /\ frames[k].start <= b /\ frames[k].pending <= b
          /\ frames[k].members <= tm /\ frames[k].children <= tc
      BY <1>1, <1>3, <3>1 DEF Framing, FramesFit, b, tm, tc
    <3>3. frames[k].children \in Nat
      BY <3>1, FrameTypes DEF TypeOK
    <3>4. QED
      BY <1>3, <3>1, <3>2, <3>3
  <2>2. ASSUME NEW j \in 1 .. n - 1, NEW k \in 1 .. n - 1, j < k
        PROVE  /\ frames'[j].pending < frames'[k].start
               /\ frames'[j].members <= frames'[k].members
               /\ frames'[j].children <= frames'[k].children
    BY <1>1, <1>12, <2>1, <2>2 DEF Framing, FramesFit
  <2>3. /\ Len(buffer') = b /\ Len(open_members') = tm /\ Len(open_children') = tc + 1
    BY <1>8, <1>11 DEF b
  <2>4. \A k \in DOMAIN frames' :
          /\ frames'[k].start <= Len(buffer') /\ frames'[k].pending <= Len(buffer')
          /\ frames'[k].members <= Len(open_members')
          /\ frames'[k].children <= Len(open_children')
    BY <1>12, <2>1, <2>3
  <2>5. QED
    BY <1>12, <1>17, <2>2, <2>4 DEF FramesFit
<1>20. Counting'
  <2>1. Used' = tm + (cm + ms) + (c + 1) + 2 * (n - 1 - 1) + 1
    BY <1>8, <1>9, <1>10, <1>12, <1>17 DEF Used
  <2>2. Used' \in Nat /\ Used' <= b /\ c + 1 <= b
    BY <1>14, <2>1
  <2>3. BytesForRecords'
    <3> DEFINE u == Used'
    <3>1. u \in Nat /\ u <= b
      BY <2>2
    <3> HIDE DEF u
    <3>2. u + 0 <= b
      BY <3>1
    <3>3. Used' + 0 <= b
      BY <3>2 DEF u
    <3>4. QED
      BY <1>15, <3>3 DEF BytesForRecords, b
  <2>4. OneOwner'
    <3>1. (tc + 1) + (cc + (oc - tc)) = c + 1
      BY <1>3, <1>4
    <3>2. QED
      BY <1>9, <1>10, <1>11, <3>1 DEF OneOwner
  <2>5. IndexesFit'
    <3>1. b <= MaxOffset
      BY <1>2, <1>4, BoundsAssumption DEF OffsetTooLarge, b
    <3>2. tm <= MaxOffset /\ tc + 1 <= MaxOffset
      BY <1>3, <1>4, <2>2, <3>1, BoundsAssumption
    <3>3. QED
      BY <1>8, <1>11, <3>2 DEF IndexesFit
  <2>6. QED
    BY <2>3, <2>4, <2>5 DEF Counting
<1>21. Recorded'
  <2>1. /\ DOMAIN open_members' = 1 .. tm /\ DOMAIN open_children' = 1 .. tc + 1
        /\ DOMAIN closed' = 1 .. c + 1
        /\ DOMAIN open_members = 1 .. om /\ DOMAIN open_children = 1 .. oc
        /\ DOMAIN closed = 1 .. c /\ DOMAIN children = 1 .. oc - tc
    BY <1>6, <1>7, <1>8, <1>10, <1>11, LenProperties DEF om, oc, c
  <2>2. root_members' = <<>> /\ root_children' = <<>> /\ tasks' = <<>>
    BY <1>1, <1>2, <1>3 DEF Holding, WalkAlone, walk
  <2>3. SpansFit(open_members)'
    <3>1. \A i \in 1 .. tm : i \in 1 .. om
      BY <1>3, <1>4
    <3>2. QED
      BY <1>1, <1>8, <2>1, <3>1 DEF Recorded, SpansFit
  <2>4. SpansFit(closed_members)'
    <3> SUFFICES ASSUME NEW i \in DOMAIN closed_members'
                 PROVE  /\ closed_members'[i].start < closed_members'[i].end
                        /\ closed_members'[i].end <= Len(buffer)
      BY DEF SpansFit
    <3>1. \/ i \in DOMAIN closed_members /\ closed_members'[i] = closed_members[i]
          \/ i - Len(closed_members) \in DOMAIN members
             /\ closed_members'[i] = members[i - Len(closed_members)]
      <4> DEFINE a == closed_members
                 t == closed_members'
      <4>1. t = a \o members /\ a \in Seq(Span) /\ members \in Seq(Span) /\ i \in DOMAIN t
        BY <1>2, <1>5, <1>6
      <4> HIDE DEF a, t
      <4>2. \/ i \in DOMAIN a /\ t[i] = a[i]
            \/ i - Len(a) \in DOMAIN members /\ t[i] = members[i - Len(a)]
        BY <4>1, ConcatFits
      <4>3. QED
        BY <4>2 DEF a, t
    <3>2. SpansFit(closed_members)
      BY <1>1 DEF Recorded
    <3>3. QED
      BY <1>5, <3>1, <3>2 DEF SpansFit
  <2>5. SpansFit(root_members)' /\ ChildrenClosed(root_children)' /\ TasksFit'
    BY <2>2 DEF SpansFit, ChildrenClosed, TasksFit
  <2>6. \A id \in Offset : id < c => id < Len(closed')
    <3> SUFFICES ASSUME NEW id \in Offset, id < c PROVE id < c + 1
      BY <1>10
    <3>1. QED
      BY <1>4, OffsetNat
  <2>7. \A i \in 1 .. oc : open_children[i] < Len(closed')
    <3> SUFFICES ASSUME NEW i \in 1 .. oc PROVE open_children[i] < Len(closed')
      OBVIOUS
    <3>1. open_children[i] \in Offset
      BY <1>6, ElementOfSeq DEF oc
    <3>2. open_children[i] < c
      BY <1>1, <2>1 DEF Recorded, ChildrenClosed, IsClosed, c
    <3>3. QED
      BY <2>6, <3>1, <3>2
  <2>8. ChildrenClosed(open_children)'
    <3> SUFFICES ASSUME NEW i \in 1 .. tc + 1 PROVE open_children'[i] < Len(closed')
      BY <2>1 DEF ChildrenClosed, IsClosed
    <3>1. CASE i = tc + 1
      BY <1>4, <1>10, <1>11, <3>1
    <3>2. CASE i # tc + 1
      <4>1. i \in 1 .. tc /\ i \in 1 .. oc
        BY <1>3, <1>4, <3>2
      <4>2. QED
        BY <1>11, <2>7, <4>1
    <3>3. QED
      BY <3>1, <3>2
  <2>9. ChildrenClosed(closed_children)'
    <3> SUFFICES ASSUME NEW i \in DOMAIN closed_children'
                 PROVE  closed_children'[i] < Len(closed')
      BY DEF ChildrenClosed, IsClosed
    <3>1. \/ i \in DOMAIN closed_children /\ closed_children'[i] = closed_children[i]
          \/ i - Len(closed_children) \in DOMAIN children
             /\ closed_children'[i] = children[i - Len(closed_children)]
      <4> DEFINE a == closed_children
                 t == closed_children'
      <4>1. t = a \o children /\ a \in Seq(Offset) /\ children \in Seq(Offset) /\ i \in DOMAIN t
        BY <1>2, <1>6, <1>7
      <4> HIDE DEF a, t
      <4>2. \/ i \in DOMAIN a /\ t[i] = a[i]
            \/ i - Len(a) \in DOMAIN children /\ t[i] = children[i - Len(a)]
        BY <4>1, ConcatFits
      <4>3. QED
        BY <4>2 DEF a, t
    <3>2. ASSUME NEW j \in DOMAIN closed_children
          PROVE  closed_children[j] < Len(closed')
      <4>1. closed_children[j] \in Offset
        BY <1>6, LenProperties, ElementOfSeq
      <4>2. closed_children[j] < c
        BY <1>1 DEF Recorded, ChildrenClosed, IsClosed, c
      <4>3. QED
        BY <2>6, <4>1, <4>2
    <3>3. ASSUME NEW j \in DOMAIN children
          PROVE  children[j] < Len(closed')
      <4>1. tc + j \in 1 .. oc /\ children[j] = open_children[tc + j]
        BY <1>7, <2>1
      <4>2. QED
        BY <2>7, <4>1
    <3>4. QED
      BY <3>1, <3>2, <3>3
  <2>10. ClosedFit'
    <3> SUFFICES ASSUME NEW i \in 1 .. c + 1
                 PROVE  /\ closed'[i].start <= closed'[i].end /\ closed'[i].end <= b
                        /\ InList(closed_members', closed'[i].members)
                        /\ InList(closed_children', closed'[i].children)
      BY <2>1 DEF ClosedFit, b, InList
    <3>1. CASE i = c + 1
      <4>1. /\ record.start = TopFrame.start /\ record.end = b
            /\ record.members.start = cm /\ record.members.end = cm + ms
            /\ record.children.start = cc /\ record.children.end = cc + Len(children)
        BY DEF record, cm, cc, ms
      <4>2. closed'[i] = record
        BY <1>10, <3>1
      <4>3. /\ cm <= cm + ms /\ cc <= cc + Len(children)
            /\ Len(closed_members') = cm + ms /\ Len(closed_children') = cc + Len(children)
            /\ b <= b /\ cm + ms <= cm + ms /\ cc + Len(children) <= cc + Len(children)
        BY <1>4, <1>7, <1>9, <1>14
      <4>4. TopFrame.start <= b
        BY <1>3
      <4>5. QED
        BY <4>1, <4>2, <4>3, <4>4 DEF InList
    <3>2. CASE i # c + 1
      <4>1. i \in 1 .. c /\ closed'[i] = closed[i]
        BY <1>4, <1>10, <3>2
      <4>2. /\ closed[i].start <= closed[i].end /\ closed[i].end <= b
            /\ closed[i].members.start <= closed[i].members.end
            /\ closed[i].members.end <= cm
            /\ closed[i].children.start <= closed[i].children.end
            /\ closed[i].children.end <= cc
        BY <1>1, <2>1, <4>1 DEF Recorded, ClosedFit, InList, b, cm, cc
      <4>3. closed[i] \in Closed
        BY <1>6, <4>1, ElementOfSeq DEF c
      <4>4. closed[i].members.end \in Nat /\ closed[i].children.end \in Nat
        BY <4>3, OffsetNat DEF Closed, Span
      <4>5. closed[i].members.end <= cm + ms /\ closed[i].children.end <= cc + (oc - tc)
        <5> DEFINE x == closed[i].members.end
                   y == closed[i].children.end
        <5>1. x \in Nat /\ y \in Nat /\ x <= cm /\ y <= cc
          BY <4>2, <4>4
        <5> HIDE DEF x, y
        <5>2. x <= cm + ms /\ y <= cc + (oc - tc)
          BY <5>1, <1>4, <1>14
        <5>3. QED
          BY <5>2 DEF x, y
      <4>6. QED
        BY <1>9, <4>1, <4>2, <4>5 DEF InList
    <3>3. QED
      BY <3>1, <3>2
  <2>11. QED
    BY <2>3, <2>4, <2>5, <2>8, <2>9, <2>10 DEF Recorded
<1>22. Holding'
  BY <1>1, <1>2, <1>3, <1>12, <1>15 DEF Holding, WalkAlone, NothingHeld, walk
<1>23. QED
  BY <1>12, <1>16, <1>18, <1>19, <1>20, <1>21, <1>22 DEF Consistent, Framing

-----------------------------------------------------------------------------
(* The walk.  An owner's record is in place, its members lie inside the    *)
(* buffer and its children are closed.                                     *)
LEMMA SliceElements ==
    ASSUME NEW S, NEW list \in Seq(S), NEW span \in Span, InList(list, span),
           NEW i \in DOMAIN SliceOf(list, span)
    PROVE  /\ span.start + i \in DOMAIN list /\ SliceOf(list, span)[i] = list[span.start + i]
           /\ i \in Nat \ {0} /\ span.start + i <= span.end
<1> DEFINE m == span.start + 1
           n == span.end
<1>1. span.start \in Nat /\ span.end \in Nat
  BY OffsetNat DEF Span
<1>2. m \in Nat \ {0} /\ n \in Nat /\ n <= Len(list)
  BY <1>1 DEF InList
<1> HIDE DEF m, n
<1>3. i \in DOMAIN SubSeq(list, m, n)
  BY DEF SliceOf, m, n
<1>4. /\ m + i - 1 \in DOMAIN list /\ SubSeq(list, m, n)[i] = list[m + i - 1]
      /\ i \in Nat \ {0} /\ m + i - 1 <= n
  BY <1>2, <1>3, PieceElements
<1>5. m + i - 1 = span.start + i
  BY <1>1, <1>4 DEF m
<1>6. QED
  BY <1>4, <1>5 DEF SliceOf, m, n

LEMMA ClosedTypes ==
    ASSUME RecordsOK, NEW id \in Nat, IsClosed(id)
    PROVE  /\ id + 1 \in DOMAIN closed /\ ClosedAt(id) \in Closed
           /\ ClosedAt(id).start \in Nat /\ ClosedAt(id).end \in Nat
<1>1. Len(closed) \in Nat /\ DOMAIN closed = 1 .. Len(closed)
  BY LenProperties DEF RecordsOK
<1>2. id + 1 \in 1 .. Len(closed)
  BY <1>1 DEF IsClosed
<1>3. ClosedAt(id) \in Closed
  BY <1>2, ElementOfSeq DEF RecordsOK, ClosedAt
<1>4. QED
  BY <1>1, <1>2, <1>3, OffsetNat DEF Closed

LEMMA OwnListsFit ==
    ASSUME RecordsOK, WalkOK, Recorded, NEW owner \in Owner, OwnerClosed(owner)
    PROVE  /\ ~ListsFault(owner)
           /\ OwnMembers(owner) \in Seq(Span) /\ SpansFit(OwnMembers(owner))
           /\ OwnChildren(owner) \in Seq(Offset) /\ ChildrenClosed(OwnChildren(owner))
<1>1. CASE owner = Root
  <2>1. ~ListsFault(owner)
    BY <1>1 DEF ListsFault
  <2>2. QED
    BY <1>1, <2>1, OwnLists DEF OwnMembers, OwnChildren, Recorded
<1>2. CASE owner # Root
  <2>1. owner \in Nat /\ IsClosed(owner)
    BY <1>2 DEF Owner, OwnerClosed
  <2> DEFINE r == ClosedAt(owner)
  <2>2. owner + 1 \in DOMAIN closed /\ r \in Closed
    BY <2>1, ClosedTypes
  <2>3. InList(closed_members, r.members) /\ InList(closed_children, r.children)
    BY <2>2 DEF Recorded, ClosedFit, ClosedAt
  <2>4. ~ListsFault(owner)
    BY <2>1, <2>3 DEF ListsFault
  <2>5. r.members \in Span /\ r.children \in Span
    BY <2>2 DEF Closed
  <2>6. /\ OwnMembers(owner) = SliceOf(closed_members, r.members)
        /\ OwnChildren(owner) = SliceOf(closed_children, r.children)
    BY <1>2 DEF OwnMembers, OwnChildren
  <2> HIDE DEF r
  <2>7. SpansFit(OwnMembers(owner))
    <3> SUFFICES ASSUME NEW i \in DOMAIN SliceOf(closed_members, r.members)
                 PROVE  /\ SliceOf(closed_members, r.members)[i].start
                             < SliceOf(closed_members, r.members)[i].end
                        /\ SliceOf(closed_members, r.members)[i].end <= Len(buffer)
      BY <2>6 DEF SpansFit
    <3>1. /\ r.members.start + i \in DOMAIN closed_members
          /\ SliceOf(closed_members, r.members)[i] = closed_members[r.members.start + i]
      BY <2>3, <2>5, SliceElements DEF RecordsOK
    <3>2. QED
      BY <3>1 DEF Recorded, SpansFit
  <2>8. ChildrenClosed(OwnChildren(owner))
    <3> SUFFICES ASSUME NEW i \in DOMAIN SliceOf(closed_children, r.children)
                 PROVE  IsClosed(SliceOf(closed_children, r.children)[i])
      BY <2>6 DEF ChildrenClosed
    <3>1. /\ r.children.start + i \in DOMAIN closed_children
          /\ SliceOf(closed_children, r.children)[i] = closed_children[r.children.start + i]
      BY <2>3, <2>5, SliceElements DEF RecordsOK
    <3>2. QED
      BY <3>1 DEF Recorded, ChildrenClosed
  <2>9. QED
    BY <2>4, <2>7, <2>8, OwnLists
<1>3. QED
  BY <1>1, <1>2

LEMMA InsideClosed ==
    ASSUME NEW span \in Span, NEW children \in Seq(Offset), ChildrenClosed(children)
    PROVE  /\ Inside(span, children) \in Seq(Offset)
           /\ \A i \in DOMAIN Inside(span, children) : IsClosed(Inside(span, children)[i])
<1> DEFINE m == StartsBy(children, span.start) + 1
           n == StartsBy(children, span.end)
<1>1. m \in Nat \ {0} /\ n \in Nat /\ n <= Len(children)
  BY StartsByBound
<1> HIDE DEF m, n
<1>2. ASSUME NEW i \in DOMAIN SubSeq(children, m, n)
      PROVE  IsClosed(SubSeq(children, m, n)[i])
  <2>1. m + i - 1 \in DOMAIN children /\ SubSeq(children, m, n)[i] = children[m + i - 1]
    BY <1>1, PieceElements
  <2>2. QED
    BY <2>1 DEF ChildrenClosed
<1>3. QED
  BY <1>2, InsideType DEF Inside, m, n

LEMMA MemberTasksFit ==
    ASSUME TypeOK, Recorded, NEW span \in Span, span.end <= Len(buffer),
           NEW inside \in Seq(Offset), \A i \in DOMAIN inside : IsClosed(inside[i])
    PROVE  \A j \in DOMAIN MemberTasks(span, inside) : TaskFits(MemberTasks(span, inside)[j])
<1> DEFINE n == Len(inside)
           Cursor(i) == IF i > n THEN span.end ELSE ClosedAt(inside[i]).start
           Piece(j) == LET i == n - (j - 1) \div 2
                       IN  IF j % 2 = 1
                             THEN BytesTask(ClosedAt(inside[i]).end, Cursor(i + 1))
                             ELSE BodyTask(inside[i], 0)
           pieces == [j \in 1 .. 2 * n |-> Piece(j)]
           last == BytesTask(span.start, Cursor(1))
           ts == MemberTasks(span, inside)
<1>1. n \in Nat /\ DOMAIN inside = 1 .. n
  BY LenProperties
<1>2. ASSUME NEW i \in 1 .. n
      PROVE  ClosedAt(inside[i]).start <= Len(buffer) /\ inside[i] \in Offset /\ IsClosed(inside[i])
  <2>1. inside[i] \in Offset /\ IsClosed(inside[i])
    BY <1>1, ElementOfSeq
  <2>2. inside[i] \in Nat
    BY <2>1, OffsetNat
  <2>3. /\ inside[i] + 1 \in DOMAIN closed
        /\ ClosedAt(inside[i]).start \in Nat /\ ClosedAt(inside[i]).end \in Nat
    BY <2>1, <2>2, ClosedTypes DEF TypeOK
  <2>4. /\ ClosedAt(inside[i]).start <= ClosedAt(inside[i]).end
        /\ ClosedAt(inside[i]).end <= Len(buffer)
    BY <2>3 DEF Recorded, ClosedFit, ClosedAt
  <2>5. QED
    BY <2>1, <2>3, <2>4, Lengths
<1>3. \A i \in 1 .. n + 1 : Cursor(i) <= Len(buffer)
  BY <1>1, <1>2
<1>4. ASSUME NEW j \in 1 .. 2 * n
      PROVE  TaskFits(Piece(j))
  <2> DEFINE i == n - (j - 1) \div 2
  <2>1. i \in 1 .. n
    BY <1>1
  <2>2. Cursor(i + 1) <= Len(buffer) /\ OwnerClosed(inside[i])
    BY <1>1, <1>2, <1>3, <2>1 DEF OwnerClosed
  <2> HIDE DEF i, Cursor
  <2>3. TaskFits(BytesTask(ClosedAt(inside[i]).end, Cursor(i + 1)))
    BY <2>2 DEF BytesTask, TaskFits
  <2>4. TaskFits(BodyTask(inside[i], 0))
    BY <2>2 DEF BodyTask, TaskFits
  <2>5. QED
    BY <2>3, <2>4 DEF i
<1>5. TaskFits(last)
  <2>1. Cursor(1) <= Len(buffer)
    BY <1>1, <1>3
  <2> HIDE DEF Cursor
  <2>2. QED
    BY <2>1 DEF BytesTask, TaskFits
<1>6. ts = Append(pieces, last) /\ ts \in Seq(Task)
  <2>1. closed \in Seq(Closed)
    BY DEF TypeOK, RecordsOK
  <2>2. QED
    BY <2>1, MemberTasksType DEF MemberTasks
<1> HIDE DEF Piece, last, ts
<1>7. Len(pieces) = 2 * n /\ DOMAIN pieces = 1 .. 2 * n
  BY <1>1
<1>8. DOMAIN ts = 1 .. 2 * n + 1 /\ ts[2 * n + 1] = last /\ \A j \in 1 .. 2 * n : ts[j] = Piece(j)
  BY <1>1, <1>6, <1>7
<1>9. \A j \in DOMAIN ts : TaskFits(ts[j])
  BY <1>1, <1>4, <1>5, <1>8
<1>10. QED
  BY <1>9 DEF ts

(* The topmost task is replaced by tasks that fit. *)
LEMMA TasksReplaced ==
    ASSUME WalkOK, TasksFit, tasks # <<>>, UNCHANGED <<buffer, closed>>,
           \/ tasks' = Front(tasks)
           \/ \E added \in Seq(Task) : /\ \A j \in DOMAIN added : TaskFits(added[j])
                                       /\ tasks' = Front(tasks) \o added
    PROVE  TasksFit'
<1>1. /\ Front(tasks) \in Seq(Task) /\ Len(Front(tasks)) = Len(tasks) - 1
      /\ Len(tasks) \in Nat \ {0}
      /\ \A i \in 1 .. Len(tasks) - 1 : Front(tasks)[i] = tasks[i]
  BY FrontLast DEF WalkOK
<1>2. DOMAIN tasks = 1 .. Len(tasks) /\ DOMAIN Front(tasks) = 1 .. Len(tasks) - 1
  BY <1>1, LenProperties DEF WalkOK
<1>3. \A i \in DOMAIN Front(tasks) : TaskFits(Front(tasks)[i])
  BY <1>1, <1>2 DEF TasksFit
<1>4. ASSUME NEW t, TaskFits(t)
      PROVE  /\ t.task = "Bytes" => t.end <= Len(buffer')
             /\ t.task \in {"Body", "Member"} => t.owner = Root \/ t.owner < Len(closed')
             /\ t.task = "Member" => t.span.start < t.span.end /\ t.span.end <= Len(buffer')
  BY <1>4 DEF TaskFits, OwnerClosed, IsClosed
<1> SUFFICES ASSUME NEW i \in DOMAIN tasks' PROVE TaskFits(tasks'[i])
  BY <1>4 DEF TasksFit, TaskFits, OwnerClosed, IsClosed
<1>5. CASE tasks' = Front(tasks)
  BY <1>3, <1>5
<1>6. ASSUME NEW added \in Seq(Task), \A j \in DOMAIN added : TaskFits(added[j]),
             tasks' = Front(tasks) \o added
      PROVE  TaskFits(tasks'[i])
  <2> DEFINE a == Front(tasks)
             t == tasks'
  <2>1. t = a \o added /\ a \in Seq(Task) /\ i \in DOMAIN t
    BY <1>1, <1>6
  <2>2. \A j \in DOMAIN a : TaskFits(a[j])
    BY <1>3
  <2> HIDE DEF a, t
  <2>3. \/ i \in DOMAIN a /\ t[i] = a[i]
        \/ i - Len(a) \in DOMAIN added /\ t[i] = added[i - Len(a)]
    BY <2>1, ConcatFits
  <2>4. TaskFits(t[i])
    BY <1>6, <2>2, <2>3
  <2>5. QED
    BY <2>4 DEF t
<1>7. QED
  BY <1>5, <1>6

LEMMA WalkKeeps ==
    ASSUME TypeOK, TypeOK', Consistent, Ahead("write_out"),
           UNCHANGED <<text, opened, records, stack, todo, root_members, root_children>>, TasksFit'
    PROVE  Consistent'
<1>1. Control /\ Framing /\ Counting /\ Recorded /\ Holding
  BY DEF Consistent
<1>2. Control'
  BY <1>1 DEF Control, PopsOther, Ahead, Top
<1>3. Framing'
  BY <1>1 DEF Framing, FramesMatch, NamesPend, FramesFit, Named, NamePending, TopFrame, Ahead, At,
              Top, text, opened
<1>4. Counting'
  BY <1>1 DEF Counting, BytesForRecords, OneOwner, IndexesFit, Used, Named, NamePending, TopFrame,
              At, text, opened, records
<1>5. Recorded'
  <2>1. UNCHANGED <<buffer, open_members, open_children, closed, closed_members, closed_children,
                    root_members, root_children>>
    BY DEF text, opened, records
  <2>2. QED
    BY <1>1, <2>1 DEF Recorded, SpansFit, ChildrenClosed, IsClosed, ClosedFit, InList
<1>6. Holding'
  BY <1>1 DEF Holding, WalkAlone, NothingHeld, Ahead, text, opened
<1>7. QED
  BY <1>2, <1>3, <1>4, <1>5, <1>6 DEF Consistent

(* Facts every step of the walk starts from. *)
LEMMA WalkFacts ==
    ASSUME TypeOK, Consistent, NEW kind, Walking(kind)
    PROVE  /\ tasks # <<>> /\ TasksFit /\ TaskFits(Last(tasks)) /\ Last(tasks).task = kind
           /\ Ahead("write_out") /\ frames = <<>>
           /\ Recorded /\ WalkOK /\ RecordsOK /\ Len(buffer) \in Nat
<1>1. At("write_out") /\ tasks # <<>> /\ Last(tasks).task = kind
  BY DEF Walking
<1>2. Ahead("write_out")
  BY <1>1, AtPlan DEF Consistent
<1>3. Recorded /\ TasksFit /\ Holding
  BY DEF Consistent, Recorded
<1>4. frames = <<>>
  BY <1>2, <1>3 DEF Holding, WalkAlone
<1>5. Len(tasks) \in DOMAIN tasks
  <2>1. Len(tasks) \in Nat \ {0} /\ DOMAIN tasks = 1 .. Len(tasks)
    BY <1>1, FrontLast, LenProperties DEF TypeOK, WalkOK
  <2>2. QED
    BY <2>1
<1>6. TaskFits(Last(tasks))
  BY <1>3, <1>5 DEF TasksFit, Last
<1>7. QED
  BY <1>1, <1>2, <1>3, <1>4, <1>6, Lengths DEF TypeOK

LEMMA WalkBytesStays ==
    ASSUME TypeOK, TypeOK', Consistent, WalkBytes
    PROVE  /\ ~refused' => Consistent'
           /\ answer' # "Internal" \/ UNCHANGED answer
<1> DEFINE span == [start |-> Last(tasks).start, end |-> Last(tasks).end]
<1>1. /\ tasks # <<>> /\ TasksFit /\ TaskFits(Last(tasks)) /\ Last(tasks).task = "Bytes"
      /\ Ahead("write_out") /\ WalkOK
  BY WalkFacts DEF WalkBytes
<1>2. UNCHANGED <<text, opened, records, stack>>
  BY DEF WalkBytes
<1>3. CASE tasks' = Front(tasks) /\ UNCHANGED <<control, root_members, root_children>>
  <2>1. TasksFit'
    BY <1>1, <1>2, <1>3, TasksReplaced DEF text, records
  <2>2. Consistent'
    BY <1>1, <1>2, <1>3, <2>1, WalkKeeps DEF control
  <2>3. QED
    BY <1>3, <2>2 DEF control
<1>4. CASE span.start < span.end /\ RefuseWalk(IF InBuffer(span) THEN "Sink" ELSE "Internal")
  <2>1. Last(tasks).start \in Nat /\ Last(tasks).end \in Nat
    BY <1>1, TopTask, OffsetNat DEF WalkBytes
  <2>2. span.start <= span.end /\ span.end <= Len(buffer)
    BY <1>1, <1>4, <2>1 DEF TaskFits
  <2>3. InBuffer(span)
    BY <2>2 DEF InBuffer
  <2>4. QED
    BY <1>4, <2>3 DEF RefuseWalk, Refuse
<1>5. QED
  BY <1>3, <1>4 DEF WalkBytes

LEMMA WalkBodyStays ==
    ASSUME TypeOK, TypeOK', Consistent, WalkBody
    PROVE  /\ ~refused' => Consistent'
           /\ answer' # "Internal" \/ UNCHANGED answer
<1> DEFINE owner == Last(tasks).owner
           next == Last(tasks).next
           members == OwnMembers(owner)
           added == <<BodyTask(owner, next + 1), MemberTask(owner, members[next + 1])>>
<1>1. /\ tasks # <<>> /\ TasksFit /\ TaskFits(Last(tasks)) /\ Last(tasks).task = "Body"
      /\ Ahead("write_out") /\ Recorded /\ WalkOK /\ RecordsOK
  BY WalkFacts DEF WalkBody
<1>2. UNCHANGED <<text, opened, records, stack>>
  BY DEF WalkBody
<1>3. owner \in Owner /\ next \in Nat
  BY <1>1, TopTask DEF WalkBody
<1>4. OwnerClosed(owner)
  BY <1>1 DEF TaskFits
<1>5. ~ListsFault(owner) /\ members \in Seq(Span) /\ SpansFit(members)
  <2> HIDE DEF owner
  <2>1. QED
    BY <1>1, <1>3, <1>4, OwnListsFit
<1>6. CASE tasks' = Front(tasks) /\ UNCHANGED <<control, root_members, root_children>>
  <2>1. TasksFit'
    BY <1>1, <1>2, <1>6, TasksReplaced DEF text, records
  <2>2. Consistent'
    BY <1>1, <1>2, <1>6, <2>1, WalkKeeps DEF control
  <2>3. QED
    BY <1>6, <2>2 DEF control
<1>7. CASE /\ next < Len(members)
           /\ tasks' = Front(tasks) \o added
           /\ UNCHANGED <<control, root_members, root_children>>
  <2> HIDE DEF owner, next, members
  <2>1. next + 1 \in DOMAIN members /\ members[next + 1] \in Span
    <3>1. Len(members) \in Nat /\ DOMAIN members = 1 .. Len(members)
      BY <1>5, LenProperties
    <3>2. next + 1 \in 1 .. Len(members)
      BY <1>3, <1>7, <3>1
    <3>3. QED
      BY <1>5, <3>1, <3>2, ElementOfSeq
  <2>2. /\ members[next + 1].start < members[next + 1].end
        /\ members[next + 1].end <= Len(buffer)
    BY <1>5, <2>1 DEF SpansFit
  <2> DEFINE body == BodyTask(owner, next + 1)
             member == MemberTask(owner, members[next + 1])
  <2>3. body \in Task /\ TaskFits(body)
    BY <1>3, <1>4 DEF BodyTask, Task, TaskFits
  <2>4. member \in Task /\ TaskFits(member)
    BY <1>3, <1>4, <2>1, <2>2 DEF MemberTask, Task, TaskFits
  <2> HIDE DEF body, member
  <2>5. <<body, member>> \in Seq(Task) /\ \A j \in DOMAIN <<body, member>> : TaskFits(<<body, member>>[j])
    <3>1. <<body, member>> \in Seq(Task)
      BY <2>3, <2>4, TupleType
    <3>2. QED
      BY <2>3, <2>4, <3>1
  <2>6. tasks' = Front(tasks) \o <<body, member>>
    BY <1>7 DEF body, member
  <2>7. TasksFit'
    BY <1>1, <1>2, <2>5, <2>6, TasksReplaced DEF text, records
  <2>8. Consistent'
    BY <1>1, <1>2, <1>7, <2>7, WalkKeeps DEF control
  <2>9. QED
    BY <1>7, <2>8 DEF control
<1>8. ASSUME NEW error, RefuseWalk(error), error # "Internal"
      PROVE  refused' /\ answer' # "Internal"
  BY <1>8 DEF RefuseWalk, Refuse
<1>9. CASE \E error \in {"Allocation", "Sink"} : RefuseWalk(error)
  BY <1>8, <1>9
<1>10. \/ \E error \in {"Allocation", "Sink"} : RefuseWalk(error)
       \/ tasks' = Front(tasks) /\ UNCHANGED <<control, root_members, root_children>>
       \/ /\ next < Len(members)
          /\ tasks' = Front(tasks) \o added
          /\ UNCHANGED <<control, root_members, root_children>>
  <2>1. \/ RefuseWalk(CASE ListsFault(owner) -> "Internal"
                        [] ~ListsFault(owner) /\ next = 0 /\ members # <<>> -> "Allocation"
                        [] OTHER -> "Sink")
        \/ RefuseWalk("Allocation")
        \/ tasks' = Front(tasks) /\ UNCHANGED <<control, root_members, root_children>>
        \/ /\ next < Len(members)
           /\ tasks' = Front(tasks) \o added
           /\ UNCHANGED <<control, root_members, root_children>>
    BY ZenonT(60) DEF WalkBody
  <2>2. (CASE ListsFault(owner) -> "Internal"
           [] ~ListsFault(owner) /\ next = 0 /\ members # <<>> -> "Allocation"
           [] OTHER -> "Sink") \in {"Allocation", "Sink"}
    BY <1>5
  <2> HIDE DEF owner, next, members, added
  <2>3. QED
    BY <2>1, <2>2
<1>11. QED
  BY <1>6, <1>7, <1>9, <1>10

LEMMA WalkMemberStays ==
    ASSUME TypeOK, TypeOK', Consistent, WalkMember
    PROVE  /\ ~refused' => Consistent'
           /\ answer' # "Internal" \/ UNCHANGED answer
<1> DEFINE owner == Last(tasks).owner
           span == Last(tasks).span
           children == OwnChildren(owner)
           inside == Inside(span, children)
           Lost == ListsFault(owner) \/ \E i \in DOMAIN inside : ~IsClosed(inside[i])
<1>1. /\ tasks # <<>> /\ TasksFit /\ TaskFits(Last(tasks)) /\ Last(tasks).task = "Member"
      /\ Ahead("write_out") /\ Recorded /\ WalkOK /\ RecordsOK
  BY WalkFacts DEF WalkMember
<1>2. UNCHANGED <<text, opened, records, stack>>
  BY DEF WalkMember
<1>3. owner \in Owner /\ span \in Span
  BY <1>1, TopTask DEF WalkMember
<1>4. OwnerClosed(owner) /\ span.end <= Len(buffer)
  BY <1>1 DEF TaskFits
<1>5. \/ RefuseWalk(IF Lost THEN "Internal" ELSE "Allocation")
      \/ /\ tasks' = Front(tasks) \o MemberTasks(span, inside)
         /\ UNCHANGED <<control, root_members, root_children>>
  BY DEF WalkMember
<1> HIDE DEF owner, span
<1>6. ~ListsFault(owner) /\ children \in Seq(Offset) /\ ChildrenClosed(children)
  BY <1>1, <1>3, <1>4, OwnListsFit
<1> HIDE DEF children
<1>7. inside \in Seq(Offset) /\ \A i \in DOMAIN inside : IsClosed(inside[i])
  BY <1>3, <1>6, InsideClosed
<1>8. ~Lost
  BY <1>6, <1>7
<1> HIDE DEF inside, Lost
<1>9. CASE /\ tasks' = Front(tasks) \o MemberTasks(span, inside)
           /\ UNCHANGED <<control, root_members, root_children>>
  <2> DEFINE added == MemberTasks(span, inside)
  <2>1. \A j \in DOMAIN added : TaskFits(added[j])
    BY <1>1, <1>3, <1>4, <1>7, MemberTasksFit
  <2>2. added \in Seq(Task)
    BY <1>1, <1>3, <1>7, MemberTasksType DEF RecordsOK
  <2> HIDE DEF added
  <2>3. tasks' = Front(tasks) \o added
    BY <1>9 DEF added
  <2>4. TasksFit'
    BY <1>1, <1>2, <2>1, <2>2, <2>3, TasksReplaced DEF text, records
  <2>5. Consistent'
    BY <1>1, <1>2, <1>9, <2>4, WalkKeeps DEF control
  <2>6. QED
    BY <1>9, <2>5 DEF control
<1>10. CASE RefuseWalk(IF Lost THEN "Internal" ELSE "Allocation")
  BY <1>8, <1>10 DEF RefuseWalk, Refuse
<1>11. QED
  BY <1>5, <1>9, <1>10

(* Everything is written: nothing is left but the end of the event. *)
LEMMA WalkDoneStays ==
    ASSUME TypeOK, TypeOK', Consistent, WalkDone
    PROVE  Consistent' /\ answer' # "Internal"
<1>1. Control /\ Framing /\ Counting /\ Recorded /\ Holding
  BY DEF Consistent
<1>2. todo # <<>> /\ todo[1].op = "write_out" /\ Ahead("write_out") /\ ~Ahead("pop")
  BY <1>1, AtPlan DEF WalkDone
<1>3. frames = <<>> /\ open_members = <<>> /\ open_children = <<>>
  BY <1>1, <1>2 DEF Holding, WalkAlone
<1>4. /\ Planned(todo') /\ ~Ahead("write_out")' /\ ~Ahead("pop")'
      /\ answer' # "Internal"
  BY <1>1, <1>2, ProceedPlan DEF WalkDone
<1>5. /\ frames' = <<>> /\ open_members' = <<>> /\ open_children' = <<>> /\ stack' = stack
      /\ closed' = <<>> /\ closed_members' = <<>> /\ closed_children' = <<>> /\ buffer' = <<>>
      /\ root_members' = <<>> /\ root_children' = <<>> /\ tasks' = <<>>
  BY <1>3 DEF WalkDone, opened
<1>6. Control'
  BY <1>4 DEF Control, PopsOther
<1>7. Framing'
  BY <1>1, <1>3, <1>5 DEF Framing, FramesMatch, NamesPend, FramesFit, NamePending
<1>8. Counting'
  BY <1>5, BoundsAssumption DEF Counting, BytesForRecords, OneOwner, IndexesFit
<1>9. Recorded'
  BY <1>5 DEF Recorded, SpansFit, ChildrenClosed, ClosedFit, TasksFit
<1>10. Holding'
  BY <1>4, <1>5 DEF Holding, WalkAlone, NothingHeld
<1>11. QED
  BY <1>4, <1>6, <1>7, <1>8, <1>9, <1>10 DEF Consistent

-----------------------------------------------------------------------------
(* Events and steps together. *)
LEMMA EndObjectStays ==
    ASSUME TypeOK, TypeOK', Consistent, todo = <<>>, EndObjectEvent, ~refused'
    PROVE  Consistent'
<1>1. PICK members \in SortedMembers(SubSeq(open_members, TopFrame.members + 1,
                                            Len(open_members))) :
        /\ EndObjectError = "none" /\ stack' = Front(stack) /\ frames' = Front(frames)
        /\ \/ Len(frames) = 1 /\ CloseOutermost(members)
           \/ Len(frames) > 1 /\ CloseNested(members)
  <2>1. EndObjectError = "none" /\ stack' = Front(stack) /\ frames' = Front(frames)
    BY DEF EndObjectEvent, Refuse
  <2>2. \E members \in SortedMembers(SubSeq(open_members, TopFrame.members + 1,
                                            Len(open_members))) :
           \/ Len(frames) = 1 /\ CloseOutermost(members)
           \/ Len(frames) > 1 /\ CloseNested(members)
    BY DEF EndObjectEvent, Refuse
  <2>3. QED
    BY <2>1, <2>2
<1>2. buffer' = buffer
  BY DEF EndObjectEvent
<1>3. QED
  BY <1>1, <1>2, OutermostStays, NestedStays

(* Every value event plans steps the invariant allows. *)
LEMMA ValueEventPlans ==
    ASSUME \/ \E v \in Scalars : Scalar(v)
           \/ Unrepresentable \/ BeginArray \/ BeginObject
           \/ \E n \in Names : BeginWrapper(n)
    PROVE  ValueDue /\ \E steps : ValuePlan(steps) /\ ValueEvent(steps)
<1> DEFINE array == Array(TRUE)
           wrapper == Wrapper(FALSE)
<1>1. /\ array \in Open /\ array.kind # "Object" /\ wrapper \in Open /\ wrapper.kind # "Object"
  BY DEF Open, Array, Wrapper
<1>2. PICK bracket \in Byte : bracket = "["
  BY DEF Byte, Punctuation
<1>3. PICK brace \in Byte : brace = "{"
  BY DEF Byte, Punctuation
<1>4. PICK colon \in Byte : colon = ":"
  BY DEF Byte, Punctuation
<1> HIDE DEF array, wrapper
<1>5. ASSUME NEW v \in Scalars, Scalar(v)
      PROVE  ValueDue /\ \E steps : ValuePlan(steps) /\ ValueEvent(steps)
  <2>1. v \in Byte
    BY DEF Byte
  <2>2. ValuePlan(<<Produce(v), AfterValue>>)
    BY <1>1, <2>1, ValuePlans
  <2>3. QED
    BY <1>5, <2>2 DEF Scalar, Value
<1>6. CASE Unrepresentable
  <2>1. ValuePlan(<<NoText, AfterValue>>)
    BY <1>1, ValuePlans
  <2>2. QED
    BY <1>6, <2>1 DEF Unrepresentable, Value
<1>7. CASE BeginArray
  <2>1. ValuePlan(<<Produce(bracket), PushOpen(array)>>)
    BY <1>1, ValuePlans
  <2>2. QED
    BY <1>2, <1>7, <2>1 DEF BeginArray, Value, array
<1>8. CASE BeginObject
  <2>1. ValuePlan(<<Produce(brace), PushFrame>>)
    BY <1>1, ValuePlans
  <2>2. QED
    BY <1>3, <1>8, <2>1 DEF BeginObject, Value
<1>9. ASSUME NEW n \in Names, BeginWrapper(n)
      PROVE  ValueDue /\ \E steps : ValuePlan(steps) /\ ValueEvent(steps)
  <2>1. n \in Byte
    BY DEF Byte
  <2>2. ValuePlan(<<Produce(brace), PushOpen(wrapper), Produce(n), Produce(colon)>>)
    BY <1>1, <2>1, ValuePlans
  <2>3. QED
    BY <1>3, <1>4, <1>9, <2>2 DEF BeginWrapper, Value, wrapper
<1>10. QED
  BY <1>5, <1>6, <1>7, <1>8, <1>9

LEMMA EventStays ==
    ASSUME TypeOK, TypeOK', Consistent, todo = <<>>, ~refused, Event
    PROVE  (~refused' => Consistent') /\ answer' # "Internal"
<1>1. ASSUME NEW steps, ValuePlan(steps), ValueEvent(steps), ValueDue
      PROVE  (~refused' => Consistent') /\ answer' # "Internal"
  <2>1. ~refused' => Consistent'
    BY <1>1, ValueStays
  <2>2. Top("Wrapper") => ~Last(stack).filled
    BY <1>1 DEF ValueDue
  <2>3. QED
    BY <1>1, <2>1, <2>2, ValueWithoutFault
<1>2. CASE \/ \E v \in Scalars : Scalar(v)
           \/ Unrepresentable \/ BeginArray \/ BeginObject
           \/ \E n \in Names : BeginWrapper(n)
  BY <1>1, <1>2, ValueEventPlans
<1>3. ASSUME NEW open, NEW b \in Byte, open => stack # <<>> /\ ~Top("Object"),
             EndContainer(open, b)
      PROVE  (~refused' => Consistent') /\ answer' # "Internal"
  <2>1. ~refused' => Consistent'
    BY <1>3, EndContainerStays
  <2>2. QED
    BY <1>3, <2>1 DEF EndContainer, Run, Refuse
<1>4. CASE EndArray
  <2>1. PICK b \in Byte : b = "]"
    BY DEF Byte, Punctuation
  <2>2. EndContainer(Top("Array"), b)
    BY <1>4, <2>1 DEF EndArray
  <2>3. Top("Array") => stack # <<>> /\ ~Top("Object")
    BY DEF Top
  <2>4. QED
    BY <1>3, <2>2, <2>3
<1>5. CASE EndWrapper
  <2>1. PICK b \in Byte : b = "}"
    BY DEF Byte, Punctuation
  <2>2. EndContainer(TRUE, b)
    BY <1>5, <2>1 DEF EndWrapper
  <2>3. stack # <<>> /\ ~Top("Object")
    BY <1>5 DEF EndWrapper, Top
  <2>4. QED
    BY <1>3, <2>2, <2>3
<1>6. CASE EndObject
  BY <1>6, EndObjectStays, EndObjectWithoutFault DEF EndObject
<1>7. ASSUME NEW n \in Names, Name(n)
      PROVE  (~refused' => Consistent') /\ answer' # "Internal"
  BY <1>7, NameStays, NameWithoutFault DEF Name
<1>8. CASE SourceRefuses
  BY <1>8 DEF SourceRefuses, Refuse
<1>9. CASE EventAfterRefusal
  BY <1>9 DEF EventAfterRefusal
<1>10. QED
  BY <1>2, <1>4, <1>5, <1>6, <1>7, <1>8, <1>9 DEF Event

LEMMA RunEventStays ==
    ASSUME TypeOK, TypeOK', Consistent, ~refused, RunEvent
    PROVE  /\ ~refused' => Consistent'
           /\ answer' # "Internal" \/ UNCHANGED answer
<1>1. CASE ProduceStep
  <2>1. answer' # "Internal"
    BY <1>1 DEF ProduceStep, Refuse, Proceed
  <2>2. QED
    BY <1>1, <2>1, ProduceStays
<1>2. CASE NoTextStep
  BY <1>2 DEF NoTextStep, Refuse
<1>3. CASE PushOpenStep
  <2>1. answer' # "Internal"
    BY <1>3 DEF PushOpenStep, Refuse, Proceed
  <2>2. QED
    BY <1>3, <2>1, PushOpenStays
<1>4. CASE PushFrameStep
  BY <1>4, PushFrameStays, PushFrameWithoutFault
<1>5. CASE PopStep
  <2>1. answer' # "Internal"
    BY <1>5 DEF PopStep, Proceed
  <2>2. QED
    BY <1>5, <2>1, PopStays
<1>6. CASE AfterValueStep
  BY <1>6, AfterValueStays, AfterValueWithoutFault
<1>7. CASE WalkBytes
  BY <1>7, WalkBytesStays
<1>8. CASE WalkBody
  BY <1>8, WalkBodyStays
<1>9. CASE WalkMember
  BY <1>9, WalkMemberStays
<1>10. CASE WalkDone
  BY <1>10, WalkDoneStays
<1>11. QED
  BY <1>1, <1>2, <1>3, <1>4, <1>5, <1>6, <1>7, <1>8, <1>9, <1>10 DEF RunEvent

LEMMA ConsistentInit ==
    ASSUME Init
    PROVE  Consistent
<1>1. /\ todo = <<>> /\ stack = <<>> /\ frames = <<>> /\ buffer = <<>>
      /\ open_members = <<>> /\ open_children = <<>>
      /\ closed = <<>> /\ closed_members = <<>> /\ closed_children = <<>>
      /\ root_members = <<>> /\ root_children = <<>> /\ tasks = <<>>
  BY DEF Init
<1>2. Control
  BY <1>1 DEF Control, Planned, PopsOther, Ahead
<1>3. Framing
  <2>1. ObjectsOf(stack) = {}
    BY <1>1 DEF ObjectsOf
  <2>2. FramesMatch
    BY <1>1, <2>1, FS_EmptySet DEF FramesMatch
  <2>3. QED
    BY <1>1, <2>2 DEF Framing, NamesPend, FramesFit, NamePending
<1>4. Counting
  BY <1>1, BoundsAssumption DEF Counting, BytesForRecords, OneOwner, IndexesFit
<1>5. Recorded
  BY <1>1 DEF Recorded, SpansFit, ChildrenClosed, ClosedFit, TasksFit
<1>6. Holding
  BY <1>1 DEF Holding, WalkAlone, NothingHeld, Ahead
<1>7. QED
  BY <1>2, <1>3, <1>4, <1>5, <1>6 DEF Consistent

-----------------------------------------------------------------------------
(* While nothing is refused the state is consistent, and no event ever     *)
(* ended in an internal fault.                                             *)
Sound == Faultless /\ Settled /\ NoInternalFault

LEMMA SoundStays ==
    ASSUME TypeOK, TypeOK', Sound, [Next]_vars
    PROVE  Sound'
<1>1. Settled'
  BY SettledStays DEF Sound
<1>2. CASE Event /\ ~EventAfterRefusal
  <2>1. todo = <<>> /\ ~refused
    BY <1>2, EventsAdmitted DEF Accepting, Idle
  <2>2. Consistent
    BY <2>1 DEF Sound, Faultless
  <2>3. QED
    BY <1>1, <1>2, <2>1, <2>2, EventStays DEF Sound, Faultless, NoInternalFault
<1>3. CASE EventAfterRefusal
  BY <1>1, <1>3 DEF EventAfterRefusal, Sound, Faultless, NoInternalFault
<1>4. CASE RunEvent
  <2>1. todo # <<>> /\ ~refused
    BY <1>4, StepsRun DEF Sound, Settled
  <2>2. Consistent
    BY <2>1 DEF Sound, Faultless
  <2>3. QED
    BY <1>1, <1>4, <2>1, <2>2, RunEventStays DEF Sound, Faultless, NoInternalFault
<1>5. CASE Finish \/ UNCHANGED vars
  <2>1. UNCHANGED <<output, text, opened, records, walk, control, stack, started>>
    BY <1>5 DEF Finish, vars
  <2>2. ~refused => Consistent
    BY DEF Sound, Faultless
  <2>3. ~refused => Consistent'
    BY <2>1, <2>2 DEF Consistent, text, opened, records, walk, control,
       Control, Planned, PopsOther, Ahead, Top,
       Framing, FramesMatch, NamesPend, FramesFit, Named, NamePending, TopFrame, At,
       Counting, BytesForRecords, OneOwner, IndexesFit, Used,
       Recorded, SpansFit, ChildrenClosed, IsClosed, ClosedFit, InList, TasksFit, TaskFits,
       OwnerClosed, Holding, WalkAlone, NothingHeld
  <2>4. refused' = refused /\ answer' = answer
    BY <2>1 DEF control
  <2>5. QED
    BY <1>1, <2>3, <2>4 DEF Sound, Faultless, NoInternalFault
<1>6. QED
  BY <1>2, <1>3, <1>4, <1>5 DEF Next

LEMMA SoundAlways == Spec => []Sound
<1>1. Init => Sound
  BY ConsistentInit DEF Init, Sound, Faultless, Settled, NoInternalFault
<1>2. TypeOK /\ TypeOK' /\ Sound /\ [Next]_vars => Sound'
  BY SoundStays
<1>3. QED
  BY <1>1, <1>2, TypeCorrect, PTL DEF Spec

(* While no event is refused the frames match the open objects, the names  *)
(* that a value needs are pending, every span and range recorded lies in   *)
(* its list and every record has bytes of its own: the state that          *)
(* begin_object, end_member, close_object and write_out rely on when they  *)
(* turn a lookup that fails into Error::Internal.                          *)
THEOREM AlwaysConsistent == Spec => []Faultless
<1>1. Sound => Faultless
  BY DEF Sound
<1>2. QED
  BY <1>1, SoundAlways, PTL

(* No event ends in Error::Internal, whatever the caller pushes and        *)
(* wherever the sink or an allocation fails: src/writer.rs, the comment on *)
(* index_u32, "a record stands for bytes of its own in the buffer", and    *)
(* the lookups of top_frame, span_bytes and lists.                         *)
THEOREM NeverInternal == Spec => []NoInternalFault
<1>1. Sound => NoInternalFault
  BY DEF Sound
<1>2. QED
  BY <1>1, SoundAlways, PTL

(* Between events with no object open nothing of an earlier object is held *)
(* in the buffer, the open lists, the records or the tasks: write_out      *)
(* clears what it wrote, so each object of a streamed array starts from    *)
(* offset and id zero.                                                     *)
THEOREM ObjectsLeaveNothing == Spec => []NothingLeftBehind
<1>1. Sound => NothingLeftBehind
  BY DEF Sound, Faultless, Consistent, Holding, NothingHeld, WalkAlone, NothingLeftBehind, Ahead
<1>2. QED
  BY <1>1, SoundAlways, PTL

-----------------------------------------------------------------------------
(* Written order.  Nothing but the ends of members and objects, the names  *)
(* and the new frames bears on it.                                         *)
LEMMA SameClosed ==
    ASSUME RecordsInWrittenOrder, ~refused, Disjoint(open_members)',
           UNCHANGED <<open_children, closed, closed_members, closed_children,
                       root_members, root_children>>
    PROVE  RecordsInWrittenOrder'
<1>1. ASSUME NEW s, InWrittenOrder(s)
      PROVE  \A i \in DOMAIN s : /\ s[i] < Len(closed')
                                 /\ \A j \in 1 .. i - 1 :
                                       closed'[s[j] + 1].end <= closed'[s[i] + 1].start
  BY <1>1 DEF InWrittenOrder, IsClosed, ClosedAt
<1>2. InWrittenOrder(open_children)' /\ InWrittenOrder(root_children)'
  <2>1. InWrittenOrder(open_children) /\ InWrittenOrder(root_children)
    BY DEF RecordsInWrittenOrder
  <2>2. QED
    BY <1>1, <2>1 DEF InWrittenOrder, IsClosed, ClosedAt
<1>3. Disjoint(root_members)'
  BY DEF RecordsInWrittenOrder, Disjoint
<1>4. ASSUME NEW i \in DOMAIN closed'
      PROVE  /\ InWrittenOrder(SliceOf(closed_children, closed[i].children))'
             /\ Disjoint(SliceOf(closed_members, closed[i].members))'
  <2> DEFINE s == SliceOf(closed_children, closed[i].children)
             m == SliceOf(closed_members, closed[i].members)
  <2>1. InWrittenOrder(s) /\ Disjoint(m)
    BY <1>4 DEF RecordsInWrittenOrder
  <2>2. s' = s /\ m' = m
    BY DEF SliceOf
  <2> HIDE DEF s, m
  <2>3. InWrittenOrder(s)'
    BY <1>1, <2>1, <2>2 DEF InWrittenOrder, IsClosed, ClosedAt
  <2>4. Disjoint(m)'
    BY <2>1, <2>2 DEF Disjoint
  <2>5. QED
    BY <2>3, <2>4 DEF s, m
<1>5. QED
  BY <1>2, <1>3, <1>4 DEF RecordsInWrittenOrder

LEMMA SameRecords ==
    ASSUME RecordsInWrittenOrder, ~refused,
           UNCHANGED <<open_members, open_children, closed, closed_members, closed_children,
                       root_members, root_children>>
    PROVE  RecordsInWrittenOrder'
<1>1. Disjoint(open_members)'
  BY DEF RecordsInWrittenOrder, Disjoint
<1>2. QED
  BY <1>1, SameClosed

LEMMA OrderedKeeps ==
    ASSUME Ordered, ~refused, UNCHANGED <<frames, opened, records, root_members, root_children>>
    PROVE  Ordered'
<1>1. UNCHANGED <<open_members, open_children, closed, closed_members, closed_children>>
  BY DEF opened, records
<1>2. MembersAscend' /\ MembersBeforeName' /\ ChildrenBeforeFrame'
  BY <1>1 DEF Ordered, MembersAscend, MembersBeforeName, ChildrenBeforeFrame, ClosedAt
<1>3. RecordsInWrittenOrder'
  BY <1>1, SameRecords DEF Ordered
<1>4. QED
  BY <1>2, <1>3 DEF Ordered

(* Sorting what is apart leaves it apart. *)
LEMMA SortedApart ==
    ASSUME NEW ms \in Seq(Span), Disjoint(ms), NEW sorted \in SortedMembers(ms)
    PROVE  Disjoint(sorted)
<1>1. DOMAIN ms = 1 .. Len(ms) /\ Len(ms) \in Nat
  BY LenProperties
<1>2. PICK p \in [DOMAIN ms -> DOMAIN ms] :
        /\ sorted = [i \in DOMAIN ms |-> ms[p[i]]]
        /\ \A i, j \in DOMAIN ms : i < j => p[i] # p[j]
  BY DEF SortedMembers
<1>3. \A i, j \in DOMAIN ms : i # j => p[i] # p[j]
  BY <1>1, <1>2
<1>4. QED
  BY <1>2, <1>3 DEF Disjoint

(* The members and the children of the innermost object are the last ones  *)
(* on the open lists, and in order there.                                  *)
LEMMA ClosingOrdered ==
    ASSUME TypeOK, Consistent, Ordered, ~refused, todo = <<>>, EndObjectError = "none",
           NEW members \in SortedMembers(SubSeq(open_members, TopFrame.members + 1,
                                                Len(open_members)))
    PROVE  Disjoint(members)
<1> DEFINE own == SubSeq(open_members, TopFrame.members + 1, Len(open_members))
           tm == TopFrame.members
<1>1. open_members \in Seq(Span) /\ tm \in Nat
  BY Closing DEF TypeOK, OpenedOK
<1>2. own \in Seq(Span)
  BY <1>1, SuffixType
<1>3. Disjoint(own)
  <2> SUFFICES ASSUME NEW i \in DOMAIN own, NEW j \in DOMAIN own, i # j
               PROVE  own[i].end <= own[j].start \/ own[j].end <= own[i].start
    BY DEF Disjoint
  <2>1. i \in 1 .. Len(own) /\ j \in 1 .. Len(own)
    BY <1>2, LenProperties
  <2>2. /\ tm + i \in 1 .. Len(open_members) /\ own[i] = open_members[tm + i]
        /\ tm + j \in 1 .. Len(open_members) /\ own[j] = open_members[tm + j]
    BY <1>1, <2>1, SuffixElements
  <2> HIDE DEF own, tm
  <2>3. /\ tm + i \in DOMAIN open_members /\ tm + j \in DOMAIN open_members
        /\ tm + i < tm + j \/ tm + j < tm + i
    <3>1. Len(own) \in Nat
      BY <1>2, LenProperties
    <3>2. QED
      BY <1>1, <2>1, <2>2, <3>1, LenProperties
  <2>4. QED
    BY <2>2, <2>3 DEF Ordered, MembersAscend
<1>4. QED
  BY <1>2, <1>3, SortedApart

LEMMA NameOrdered ==
    ASSUME TypeOK, TypeOK', Consistent, Ordered, ~refused, NEW n \in Names, NameEvent(n), ~refused'
    PROVE  Ordered'
<1> DEFINE m == Len(frames)
<1>1. /\ NameError = "none" /\ UNCHANGED <<opened, records, walk>>
      /\ frames' = [frames EXCEPT ![Len(frames)].pending = Len(buffer)]
  BY DEF NameEvent, Refuse
<1>2. frames # <<>>
  <2>1. Top("Object")
    BY <1>1 DEF NameError
  <2>2. QED
    BY <2>1, FramesOfObjects DEF TypeOK, Consistent, Framing
<1>3. /\ Len(frames') = m /\ DOMAIN frames' = 1 .. m /\ m \in Nat \ {0}
      /\ DOMAIN frames = 1 .. m
      /\ \A k \in 1 .. m - 1 : frames'[k] = frames[k]
      /\ \A k \in 1 .. m : /\ frames'[k].start = frames[k].start
                           /\ frames'[k].members = frames[k].members
                           /\ frames'[k].children = frames[k].children
      /\ frames'[m].pending = Len(buffer)
  <2>1. frames' = [frames EXCEPT ![Len(frames)].pending = Len(buffer)]
    BY <1>1
  <2>2. m \in Nat \ {0} /\ DOMAIN frames = 1 .. m
    BY <1>2, TopFrameAt DEF TypeOK
  <2>3. QED
    BY <1>2, <2>1, <2>2, PendingFrames DEF TypeOK
<1>4. UNCHANGED <<open_members, open_children, closed, closed_members, closed_children,
                  root_members, root_children>>
  BY <1>1 DEF opened, records, walk
<1>5. \A i \in DOMAIN open_members : open_members[i].end <= Len(buffer)
  BY DEF Consistent, Recorded, SpansFit
<1>6. MembersAscend'
  BY <1>4 DEF Ordered, MembersAscend
<1>7. MembersBeforeName'
  <2> SUFFICES ASSUME NEW k \in 1 .. m, NEW i \in DOMAIN open_members,
                      frames'[k].pending # NoOffset,
                      k = Len(frames') \/ i <= frames'[k + 1].members
               PROVE  open_members[i].end <= frames'[k].pending
    BY <1>3, <1>4 DEF MembersBeforeName
  <2>1. CASE k = m
    BY <1>3, <1>5, <2>1
  <2>2. CASE k # m
    <3>1. k \in 1 .. m - 1 /\ k + 1 \in 1 .. m
      BY <1>3, <2>2
    <3> HIDE DEF m
    <3>2. frames'[k] = frames[k] /\ i <= frames[k + 1].members
      BY <1>3, <2>2, <3>1
    <3>3. QED
      BY <1>3, <3>2 DEF Ordered, MembersBeforeName
  <2>3. QED
    BY <2>1, <2>2
<1>8. ChildrenBeforeFrame'
  <2> HIDE DEF m
  <2>1. QED
    BY <1>3, <1>4 DEF Ordered, ChildrenBeforeFrame, ClosedAt
<1>9. RecordsInWrittenOrder'
  BY <1>4, SameRecords DEF Ordered
<1>10. QED
  BY <1>6, <1>7, <1>8, <1>9 DEF Ordered

(* The closed children an open list holds end inside the buffer. *)
LEMMA ChildrenEnd ==
    ASSUME TypeOK, Consistent, NEW i \in DOMAIN open_children
    PROVE  /\ open_children[i] \in Nat /\ open_children[i] < Len(closed)
           /\ open_children[i] + 1 \in DOMAIN closed
           /\ ClosedAt(open_children[i]).end <= Len(buffer)
<1>1. open_children[i] \in Offset
  BY LenProperties, ElementOfSeq DEF TypeOK, OpenedOK
<1>2. open_children[i] \in Nat /\ IsClosed(open_children[i])
  BY <1>1, OffsetNat DEF Consistent, Recorded, ChildrenClosed
<1>3. open_children[i] + 1 \in DOMAIN closed
  BY <1>2, ClosedTypes DEF TypeOK
<1>4. ClosedAt(open_children[i]).end <= Len(buffer)
  BY <1>3 DEF Consistent, Recorded, ClosedFit, ClosedAt
<1>5. QED
  BY <1>2, <1>3, <1>4 DEF IsClosed

LEMMA PushFrameOrdered ==
    ASSUME TypeOK, TypeOK', Consistent, Ordered, ~refused, PushFrameStep, ~refused'
    PROVE  Ordered'
<1> DEFINE new == [start |-> Len(buffer), members |-> Len(open_members),
                   children |-> Len(open_children), pending |-> NoOffset]
           n == Len(frames)
<1>1. frames' = Append(frames, new) /\ UNCHANGED <<buffer, opened, records, walk>>
  BY DEF PushFrameStep, Refuse
<1>2. UNCHANGED <<open_members, open_children, closed, closed_members, closed_children,
                  root_members, root_children>>
  BY <1>1 DEF opened, records, walk
<1>3. /\ new.start = Len(buffer) /\ new.members = Len(open_members)
      /\ new.children = Len(open_children) /\ new.pending = NoOffset
  OBVIOUS
<1> HIDE DEF new
<1>4. /\ n \in Nat /\ Len(frames') = n + 1 /\ frames'[n + 1] = new
      /\ \A k \in 1 .. n : frames'[k] = frames[k]
      /\ DOMAIN frames = 1 .. n /\ DOMAIN frames' = 1 .. n + 1
  <2>1. frames \in Seq(Frame) /\ frames' \in Seq(Frame)
    BY DEF TypeOK, TextOK
  <2>2. new \in Frame
    BY <1>1, <2>1, AppendedType
  <2>3. QED
    BY <1>1, <2>1, <2>2, AppendProperties, LenProperties
<1>5. \A k \in 1 .. n + 1 : k = n + 1 \/ k \in 1 .. n
  <2>1. n \in Nat
    BY <1>4
  <2> HIDE DEF n
  <2>2. QED
    BY <2>1
<1>6. /\ \A i \in DOMAIN open_members : i <= Len(open_members)
      /\ DOMAIN open_children = 1 .. Len(open_children)
  BY LenProperties DEF TypeOK, OpenedOK
<1> HIDE DEF n
<1>7. MembersAscend'
  BY <1>2 DEF Ordered, MembersAscend
<1>8. MembersBeforeName'
  <2> SUFFICES ASSUME NEW k \in 1 .. n + 1, NEW i \in DOMAIN open_members,
                      frames'[k].pending # NoOffset,
                      k = n + 1 \/ i <= frames'[k + 1].members
               PROVE  open_members[i].end <= frames'[k].pending
    BY <1>2, <1>4 DEF MembersBeforeName
  <2>1. k \in 1 .. n /\ frames'[k] = frames[k]
    BY <1>3, <1>4, <1>5, SMTT(30)
  <2>2. CASE k = n
    BY <1>4, <2>1, <2>2 DEF Ordered, MembersBeforeName, n
  <2>3. CASE k # n
    <3>1. k # n + 1 /\ k + 1 \in 1 .. n
      BY <1>4, <2>1, <2>3
    <3>2. i <= frames[k + 1].members
      BY <1>4, <3>1
    <3>3. QED
      BY <1>4, <2>1, <3>2 DEF Ordered, MembersBeforeName
  <2>4. QED
    BY <2>2, <2>3
<1>9. ChildrenBeforeFrame'
  <2> SUFFICES ASSUME NEW k \in 1 .. n + 1, NEW i \in 1 .. frames'[k].children
               PROVE  ClosedAt(open_children[i]).end <= frames'[k].start
    BY <1>2, <1>4 DEF ChildrenBeforeFrame, ClosedAt
  <2>1. CASE k = n + 1
    BY <1>3, <1>4, <1>6, <2>1, ChildrenEnd
  <2>2. CASE k \in 1 .. n
    BY <1>4, <2>2 DEF Ordered, ChildrenBeforeFrame
  <2>3. QED
    BY <1>5, <2>1, <2>2
<1>10. RecordsInWrittenOrder'
  BY <1>2, SameRecords DEF Ordered
<1>11. QED
  BY <1>7, <1>8, <1>9, <1>10 DEF Ordered

LEMMA AfterValueOrdered ==
    ASSUME TypeOK, TypeOK', Consistent, Ordered, ~refused, AfterValueStep, ~refused'
    PROVE  Ordered'
<1> DEFINE m == Len(frames)
           om == Len(open_members)
           new == [start |-> TopFrame.pending, end |-> Len(buffer)]
<1>1. CASE UNCHANGED <<frames, open_members>>
  BY <1>1, OrderedKeeps DEF AfterValueStep, opened, walk
<1>2. CASE /\ NamePending
           /\ frames' = [frames EXCEPT ![Len(frames)].pending = NoOffset]
           /\ open_members' = Append(open_members, new)
  <2>1. frames # <<>> /\ UNCHANGED <<open_children, closed, closed_members, closed_children,
                                     root_members, root_children>>
    BY <1>2 DEF NamePending, AfterValueStep, records, walk
  <2>2. /\ Len(frames') = m /\ DOMAIN frames' = 1 .. m /\ m \in Nat \ {0}
        /\ DOMAIN frames = 1 .. m /\ TopFrame = frames[m]
        /\ \A k \in 1 .. m - 1 : frames'[k] = frames[k]
        /\ \A k \in 1 .. m : /\ frames'[k].start = frames[k].start
                             /\ frames'[k].members = frames[k].members
                             /\ frames'[k].children = frames[k].children
        /\ frames'[m].pending = NoOffset
    <3>1. m \in Nat \ {0} /\ DOMAIN frames = 1 .. m /\ TopFrame = frames[m]
      BY <2>1, TopFrameAt DEF TypeOK
    <3>2. frames' = [frames EXCEPT ![Len(frames)].pending = NoOffset]
      BY <1>2
    <3>3. QED
      BY <2>1, <3>1, <3>2, PendingFrames DEF TypeOK
  <2>3. new.start = frames[m].pending
    BY <2>2
  <2> HIDE DEF new
  <2>4. /\ om \in Nat /\ DOMAIN open_members = 1 .. om /\ DOMAIN open_members' = 1 .. om + 1
        /\ open_members'[om + 1] = new
        /\ \A i \in 1 .. om : open_members'[i] = open_members[i]
    <3>1. open_members \in Seq(Span) /\ open_members' \in Seq(Span)
      BY DEF TypeOK, OpenedOK
    <3>2. open_members' = Append(open_members, new)
      BY <1>2
    <3>3. new \in Span
      BY <3>1, <3>2, AppendedType
    <3>4. QED
      BY <3>1, <3>2, <3>3, AppendProperties, LenProperties
  <2>5. \A i \in 1 .. om : open_members[i].end <= new.start
    <3>1. frames[m].pending # NoOffset /\ m \in DOMAIN frames
      BY <1>2, <2>2 DEF NamePending
    <3>2. QED
      BY <2>3, <2>4, <3>1 DEF Ordered, MembersBeforeName
  <2>6. \A k \in 1 .. m - 1 : frames[k + 1].members <= om
    <3> SUFFICES ASSUME NEW k \in 1 .. m - 1 PROVE frames[k + 1].members <= om
      OBVIOUS
    <3>1. k + 1 \in DOMAIN frames
      BY <2>2
    <3>2. QED
      BY <3>1 DEF Consistent, Framing, FramesFit
  <2> HIDE DEF m, om
  <2>7. MembersAscend'
    <3> SUFFICES ASSUME NEW i \in 1 .. om + 1, NEW j \in 1 .. om + 1, i < j
                 PROVE  open_members'[i].end <= open_members'[j].start
      BY <2>4 DEF MembersAscend
    <3>1. i \in 1 .. om
      BY <2>4
    <3>2. CASE j = om + 1
      BY <2>4, <2>5, <3>1, <3>2
    <3>3. CASE j # om + 1
      <4>1. j \in 1 .. om
        BY <2>4, <3>3
      <4>2. QED
        BY <2>4, <3>1, <4>1 DEF Ordered, MembersAscend
    <3>4. QED
      BY <3>2, <3>3
  <2>8. MembersBeforeName'
    <3> SUFFICES ASSUME NEW k \in 1 .. m, NEW i \in 1 .. om + 1,
                        frames'[k].pending # NoOffset,
                        k = m \/ i <= frames'[k + 1].members
                 PROVE  open_members'[i].end <= frames'[k].pending
      BY <2>2, <2>4 DEF MembersBeforeName
    <3>1. k # m
      BY <2>2
    <3>2. k \in 1 .. m - 1 /\ k + 1 \in 1 .. m
      BY <2>2, <3>1
    <3>3. frames'[k] = frames[k] /\ i <= frames[k + 1].members
      BY <2>2, <3>1, <3>2
    <3>4. frames[k + 1].members \in Nat
      BY <2>2, <3>2, FrameTypes DEF TypeOK
    <3>5. i \in 1 .. om
      BY <2>4, <2>6, <3>2, <3>3, <3>4
    <3>6. QED
      BY <2>2, <2>4, <3>2, <3>3, <3>5 DEF Ordered, MembersBeforeName
  <2>9. ChildrenBeforeFrame'
    BY <2>1, <2>2 DEF Ordered, ChildrenBeforeFrame, ClosedAt
  <2>10. RecordsInWrittenOrder'
    <3>1. Disjoint(open_members)'
      <4> SUFFICES ASSUME NEW i \in 1 .. om + 1, NEW j \in 1 .. om + 1, i # j
                   PROVE  \/ open_members'[i].end <= open_members'[j].start
                          \/ open_members'[j].end <= open_members'[i].start
        BY <2>4 DEF Disjoint
      <4>1. i < j \/ j < i
        BY <2>4
      <4>2. QED
        BY <2>4, <2>7, <4>1 DEF MembersAscend
    <3>2. QED
      BY <2>1, <3>1, SameClosed DEF Ordered
  <2>11. QED
    BY <2>7, <2>8, <2>9, <2>10 DEF Ordered
<1>3. QED
  BY <1>1, <1>2 DEF AfterValueStep, Refuse

LEMMA OutermostOrdered ==
    ASSUME TypeOK, TypeOK', Consistent, Ordered, ~refused, ~refused', todo = <<>>,
           EndObjectError = "none", frames' = Front(frames), Len(frames) = 1,
           NEW members \in SortedMembers(SubSeq(open_members, TopFrame.members + 1,
                                                Len(open_members))),
           CloseOutermost(members)
    PROVE  Ordered'
<1>1. /\ root_members' = members /\ root_children' = open_children
      /\ open_members' = <<>> /\ open_children' = <<>>
      /\ UNCHANGED <<closed, closed_members, closed_children>>
  BY DEF CloseOutermost, records
<1>2. frames' = <<>>
  <2>1. frames \in Seq(Frame) /\ frames # <<>>
    BY Closing DEF TypeOK, TextOK
  <2>2. frames' \in Seq(Frame) /\ Len(frames') = 0
    BY <2>1, FrontLast
  <2>3. QED
    BY <2>2, EmptySeq
<1>3. Disjoint(members)
  BY ClosingOrdered
<1>4. MembersAscend' /\ MembersBeforeName' /\ ChildrenBeforeFrame'
  BY <1>1, <1>2 DEF MembersAscend, MembersBeforeName, ChildrenBeforeFrame
<1>5. ASSUME NEW s, InWrittenOrder(s)
      PROVE  \A i \in DOMAIN s : /\ s[i] < Len(closed')
                                 /\ \A j \in 1 .. i - 1 :
                                       closed'[s[j] + 1].end <= closed'[s[i] + 1].start
  BY <1>1, <1>5 DEF InWrittenOrder, IsClosed, ClosedAt
<1>6. InWrittenOrder(open_children)' /\ Disjoint(open_members)'
  BY <1>1 DEF InWrittenOrder, Disjoint
<1>7. InWrittenOrder(root_children)'
  <2>1. InWrittenOrder(open_children)
    BY DEF Ordered, RecordsInWrittenOrder
  <2>2. QED
    BY <1>1, <1>5, <2>1 DEF InWrittenOrder, IsClosed, ClosedAt
<1>8. Disjoint(root_members)'
  BY <1>1, <1>3 DEF Disjoint
<1>9. ASSUME NEW i \in DOMAIN closed'
      PROVE  /\ InWrittenOrder(SliceOf(closed_children, closed[i].children))'
             /\ Disjoint(SliceOf(closed_members, closed[i].members))'
  <2> DEFINE s == SliceOf(closed_children, closed[i].children)
             m == SliceOf(closed_members, closed[i].members)
  <2>1. InWrittenOrder(s) /\ Disjoint(m)
    BY <1>1, <1>9 DEF Ordered, RecordsInWrittenOrder
  <2>2. s' = s /\ m' = m
    BY <1>1 DEF SliceOf
  <2> HIDE DEF s, m
  <2>3. InWrittenOrder(s)'
    BY <1>5, <2>1, <2>2 DEF InWrittenOrder, IsClosed, ClosedAt
  <2>4. Disjoint(m)'
    BY <2>1, <2>2 DEF Disjoint
  <2>5. QED
    BY <2>3, <2>4 DEF s, m
<1>10. QED
  BY <1>4, <1>6, <1>7, <1>8, <1>9 DEF Ordered, RecordsInWrittenOrder

(* A slice of a list is the same slice of a longer one, and what is added  *)
(* to it is the slice that begins at its end.                              *)
LEMMA SliceOfLonger ==
    ASSUME NEW S, NEW a \in Seq(S), NEW b \in Seq(S)
    PROVE  /\ \A span \in Span : InList(a, span) => SliceOf(a \o b, span) = SliceOf(a, span)
           /\ \A span : span.start = Len(a) /\ span.end = Len(a) + Len(b)
                          => SliceOf(a \o b, span) = b
<1> DEFINE t == a \o b
<1>1. /\ t \in Seq(S) /\ Len(t) = Len(a) + Len(b)
      /\ \A k \in 1 .. Len(a) + Len(b) : t[k] = IF k <= Len(a) THEN a[k] ELSE b[k - Len(a)]
  BY ConcatProperties
<1>2. Len(a) \in Nat /\ Len(b) \in Nat
  BY LenProperties
<1> HIDE DEF t
<1>3. ASSUME NEW span \in Span, InList(a, span)
      PROVE  SliceOf(t, span) = SliceOf(a, span)
  <2> DEFINE m == span.start + 1
             n == span.end
  <2>1. span.start \in Nat /\ span.end \in Nat /\ span.end <= Len(a)
    BY <1>3, OffsetNat DEF Span, InList
  <2>2. m \in Nat \ {0} /\ n \in Nat /\ n <= Len(a) /\ n <= Len(t)
    BY <1>1, <1>2, <2>1
  <2> HIDE DEF m, n
  <2>3. /\ SubSeq(a, m, n) \in Seq(S) /\ SubSeq(t, m, n) \in Seq(S)
        /\ Len(SubSeq(a, m, n)) = Len(SubSeq(t, m, n))
    BY <1>1, <2>2, PieceType
  <2>4. ASSUME NEW i \in 1 .. Len(SubSeq(a, m, n))
        PROVE  SubSeq(a, m, n)[i] = SubSeq(t, m, n)[i]
    <3>1. i \in DOMAIN SubSeq(a, m, n) /\ i \in DOMAIN SubSeq(t, m, n)
      BY <2>3, LenProperties
    <3>2. /\ m + i - 1 \in DOMAIN a /\ SubSeq(a, m, n)[i] = a[m + i - 1]
      BY <2>2, <3>1, PieceElements
    <3>3. SubSeq(t, m, n)[i] = t[m + i - 1]
      BY <1>1, <2>2, <3>1, PieceElements
    <3>4. m + i - 1 \in 1 .. Len(a)
      BY <3>2, LenProperties
    <3>5. t[m + i - 1] = a[m + i - 1]
      BY <1>1, <1>2, <3>4
    <3>6. QED
      BY <3>2, <3>3, <3>5
  <2>5. SubSeq(a, m, n) = SubSeq(t, m, n)
    BY <2>3, <2>4, SeqEqual
  <2>6. QED
    BY <2>5 DEF SliceOf, m, n
<1>4. ASSUME NEW span, span.start = Len(a), span.end = Len(a) + Len(b)
      PROVE  SliceOf(t, span) = b
  <2>1. SliceOf(t, span) = SubSeq(t, Len(a) + 1, Len(t))
    BY <1>1, <1>4 DEF SliceOf
  <2>2. /\ SubSeq(t, Len(a) + 1, Len(t)) \in Seq(S)
        /\ Len(SubSeq(t, Len(a) + 1, Len(t))) = Len(b)
    <3> DEFINE k == Len(a)
    <3>1. k \in Nat /\ k <= Len(t) /\ Len(t) - k = Len(b)
      BY <1>1, <1>2
    <3> HIDE DEF k
    <3>2. /\ SubSeq(t, k + 1, Len(t)) \in Seq(S)
          /\ Len(SubSeq(t, k + 1, Len(t))) = Len(b)
      BY <1>1, <3>1, SuffixType
    <3>3. QED
      BY <3>2 DEF k
  <2>3. ASSUME NEW i \in 1 .. Len(b)
        PROVE  SubSeq(t, Len(a) + 1, Len(t))[i] = b[i]
    <3>1. SubSeq(t, Len(a) + 1, Len(t))[i] = t[Len(a) + i] /\ Len(a) + i \in 1 .. Len(t)
      BY <1>1, <1>2, <2>2, <2>3, SuffixElements
    <3>2. t[Len(a) + i] = b[i]
      BY <1>1, <1>2, <3>1
    <3>3. QED
      BY <3>1, <3>2
  <2> DEFINE u == SubSeq(t, Len(a) + 1, Len(t))
  <2>4. u \in Seq(S) /\ Len(u) = Len(b) /\ \A i \in 1 .. Len(u) : u[i] = b[i]
    BY <2>2, <2>3
  <2> HIDE DEF u
  <2>5. u = b
    BY <2>4, SeqEqual
  <2>6. QED
    BY <2>1, <2>5 DEF u
<1>5. QED
  BY <1>3, <1>4 DEF t

LEMMA NestedOrdered ==
    ASSUME TypeOK, TypeOK', Consistent, Ordered, ~refused, ~refused', todo = <<>>,
           EndObjectError = "none", frames' = Front(frames), stack' = Front(stack),
           Len(frames) > 1,
           NEW members \in SortedMembers(SubSeq(open_members, TopFrame.members + 1,
                                                Len(open_members))),
           CloseNested(members)
    PROVE  Ordered'
<1> DEFINE n == Len(frames)
           om == Len(open_members)
           oc == Len(open_children)
           c == Len(closed)
           tm == TopFrame.members
           tc == TopFrame.children
           children == SubSeq(open_children, tc + 1, oc)
           Landed(list, items) == [start |-> Len(list), end |-> Len(list) + Len(items)]
           record == [start |-> TopFrame.start, end |-> Len(buffer),
                      members |-> Landed(closed_members, members),
                      children |-> Landed(closed_children, children)]
           kept == Kept(open_children, tc)
<1>1. /\ closed_members' = closed_members \o members
      /\ closed_children' = closed_children \o children
      /\ open_members' = Kept(open_members, tm)
      /\ open_children' = Append(kept, c)
      /\ closed' = Append(closed, record)
      /\ UNCHANGED walk
  BY ClosedLists
<1>2. /\ n \in Nat \ {0} /\ TopFrame = frames[n] /\ n \in DOMAIN frames /\ DOMAIN frames = 1 .. n
      /\ tm \in Nat /\ tm <= om /\ tc \in Nat /\ tc <= oc
  BY Closing
<1>3. om \in Nat /\ oc \in Nat /\ c \in Nat
  BY Lengths
<1>4. members \in Seq(Span) /\ Disjoint(members)
  BY ClosingMembers, ClosingOrdered
<1>5. /\ open_members \in Seq(Span) /\ open_children \in Seq(Offset)
      /\ closed \in Seq(Closed) /\ closed_members \in Seq(Span)
      /\ closed_children \in Seq(Offset)
      /\ open_members' \in Seq(Span) /\ open_children' \in Seq(Offset)
      /\ closed' \in Seq(Closed)
  BY DEF TypeOK, OpenedOK, RecordsOK
<1>6. /\ children \in Seq(Offset) /\ DOMAIN children = 1 .. oc - tc
      /\ \A i \in 1 .. oc - tc : /\ tc + i \in 1 .. oc
                                 /\ children[i] = open_children[tc + i]
  <2>1. children \in Seq(Offset) /\ Len(children) = oc - tc
    BY <1>2, <1>3, <1>5, SuffixType
  <2>2. \A i \in 1 .. Len(children) : /\ tc + i \in 1 .. oc
                                      /\ children[i] = open_children[tc + i]
    BY <1>2, <1>5, SuffixElements
  <2> HIDE DEF children
  <2>3. QED
    BY <2>1, <2>2, LenProperties
<1>7. /\ kept \in Seq(Offset) /\ Len(kept) = tc
      /\ \A i \in 1 .. tc : kept[i] = open_children[i]
  <2>1. open_children \in Seq(Offset) /\ tc \in Nat /\ tc <= Len(open_children)
    BY <1>2, <1>5
  <2>2. /\ Kept(open_children, tc) \in Seq(Offset) /\ Len(Kept(open_children, tc)) = tc
        /\ \A i \in 1 .. tc : Kept(open_children, tc)[i] = open_children[i]
    <3> HIDE DEF tc, oc
    <3>1. QED
      BY ONLY <2>1, KeptElements
  <2>3. QED
    BY <2>2
<1>8. /\ Len(open_members') = tm /\ DOMAIN open_members' = 1 .. tm
      /\ \A i \in 1 .. tm : open_members'[i] = open_members[i] /\ i \in DOMAIN open_members
  <2>1. /\ Len(Kept(open_members, tm)) = tm
        /\ \A i \in 1 .. tm : Kept(open_members, tm)[i] = open_members[i]
    <3>1. open_members \in Seq(Span) /\ tm \in Nat /\ tm <= Len(open_members)
      BY <1>2, <1>5
    <3> HIDE DEF tm, om
    <3>2. QED
      BY ONLY <3>1, KeptElements
  <2>2. DOMAIN open_members = 1 .. om /\ DOMAIN open_members' = 1 .. Len(open_members')
    BY <1>5, LenProperties
  <2> HIDE DEF tm, om
  <2>3. \A i \in 1 .. tm : i \in 1 .. om
    BY <1>2, <1>3
  <2>4. QED
    BY <1>1, <2>1, <2>2, <2>3
<1> HIDE DEF children, kept, record
<1>9. /\ DOMAIN closed = 1 .. c /\ DOMAIN closed' = 1 .. c + 1 /\ Len(closed') = c + 1
      /\ closed'[c + 1] = record
      /\ \A i \in 1 .. c : closed'[i] = closed[i]
  <2>1. closed' = Append(closed, record)
    BY <1>1
  <2>2. record \in Closed
    BY <1>5, <2>1, AppendedType
  <2>3. QED
    BY <1>5, <2>1, <2>2, AppendProperties, LenProperties
<1>10. /\ DOMAIN open_children' = 1 .. tc + 1 /\ open_children'[tc + 1] = c
       /\ \A i \in 1 .. tc : open_children'[i] = open_children[i]
       /\ DOMAIN open_children = 1 .. oc
  <2>1. open_children' = Append(kept, c)
    BY <1>1
  <2>2. c \in Offset
    BY <1>5, <1>7, <2>1, AppendedType
  <2>3. DOMAIN open_children' = 1 .. Len(open_children') /\ DOMAIN open_children = 1 .. oc
    BY <1>5, LenProperties
  <2> HIDE DEF c
  <2>4. QED
    BY <1>7, <2>1, <2>2, <2>3, AppendProperties
<1>11. /\ Len(frames') = n - 1 /\ DOMAIN frames' = 1 .. n - 1
       /\ \A k \in 1 .. n - 1 : frames'[k] = frames[k]
  BY ClosedFrames
<1>12. n > 1
  OBVIOUS
<1>13. record.start = frames[n].start
  BY <1>2 DEF record
<1>14. \A i \in 1 .. oc : /\ open_children[i] \in Nat /\ open_children[i] + 1 \in 1 .. c
                          /\ open_children[i] < c
  BY <1>9, <1>10, ChildrenEnd
<1> HIDE DEF n, om, oc, c, tm, tc
(* A record made before keeps its place. *)
<1>15. ASSUME NEW s, InWrittenOrder(s), \A i \in DOMAIN s : s[i] \in Nat,
              \A i \in DOMAIN s : \A j \in 1 .. i - 1 : j \in DOMAIN s
       PROVE  InWrittenOrder(s) /\ \A i \in DOMAIN s :
                  /\ s[i] < Len(closed')
                  /\ \A j \in 1 .. i - 1 : closed'[s[j] + 1].end <= closed'[s[i] + 1].start
  <2>1. \A i \in DOMAIN s : s[i] + 1 \in 1 .. c
    BY <1>3, <1>15 DEF InWrittenOrder, IsClosed, c
  <2>2. \A i \in DOMAIN s : s[i] < Len(closed')
    BY <1>3, <1>9, <1>15, <2>1
  <2>3. QED
    BY <1>9, <1>15, <2>1, <2>2 DEF InWrittenOrder, ClosedAt
<1>16. MembersAscend'
  BY <1>8 DEF Ordered, MembersAscend
<1>17. MembersBeforeName'
  <2> SUFFICES ASSUME NEW k \in 1 .. n - 1, NEW i \in 1 .. tm,
                      frames'[k].pending # NoOffset,
                      k = n - 1 \/ i <= frames'[k + 1].members
               PROVE  open_members[i].end <= frames'[k].pending
    BY <1>8, <1>11 DEF MembersBeforeName
  <2>1. frames'[k] = frames[k] /\ k \in DOMAIN frames /\ k # n
    BY <1>2, <1>11, <1>12
  <2>2. i <= frames[k + 1].members
    <3>1. CASE k = n - 1
      BY <1>2, <1>12, <3>1 DEF tm
    <3>2. CASE k # n - 1
      <4>1. k + 1 \in 1 .. n - 1
        BY <1>2, <1>12, <3>2
      <4>2. QED
        BY <1>11, <3>2, <4>1
    <3>3. QED
      BY <3>1, <3>2
  <2>3. QED
    BY <1>8, <2>1, <2>2 DEF Ordered, MembersBeforeName
<1>18. ChildrenBeforeFrame'
  <2> SUFFICES ASSUME NEW k \in 1 .. n - 1, NEW i \in 1 .. frames'[k].children
               PROVE  closed'[open_children'[i] + 1].end <= frames'[k].start
    BY <1>11 DEF ChildrenBeforeFrame, ClosedAt
  <2>1. frames'[k] = frames[k] /\ k \in DOMAIN frames /\ k < n
    BY <1>2, <1>11, <1>12
  <2>2. frames[k].children <= tc
    BY <1>2, <2>1 DEF Consistent, Framing, FramesFit, tc
  <2>3. i \in 1 .. tc /\ i \in 1 .. oc
    <3>1. frames[k].children \in Nat
      BY <2>1, FrameTypes DEF TypeOK
    <3>2. QED
      BY <1>2, <1>3, <2>1, <2>2, <3>1
  <2>4. open_children'[i] = open_children[i] /\ closed'[open_children[i] + 1] = closed[open_children[i] + 1]
    BY <1>9, <1>10, <1>14, <2>3
  <2>5. QED
    BY <2>1, <2>4 DEF Ordered, ChildrenBeforeFrame, ClosedAt
<1>19. InWrittenOrder(open_children)'
  <2> SUFFICES ASSUME NEW i \in 1 .. tc + 1
               PROVE  /\ open_children'[i] < Len(closed')
                      /\ \A j \in 1 .. i - 1 :
                            closed'[open_children'[j] + 1].end <= closed'[open_children'[i] + 1].start
    BY <1>10 DEF InWrittenOrder, IsClosed, ClosedAt
  <2>1. \A j \in 1 .. tc : /\ open_children'[j] = open_children[j] /\ j \in 1 .. oc
                           /\ closed'[open_children[j] + 1] = closed[open_children[j] + 1]
                           /\ open_children[j] < Len(closed')
    <3> SUFFICES ASSUME NEW j \in 1 .. tc
                 PROVE  /\ open_children'[j] = open_children[j] /\ j \in 1 .. oc
                        /\ closed'[open_children[j] + 1] = closed[open_children[j] + 1]
                        /\ open_children[j] < Len(closed')
      OBVIOUS
    <3>1. j \in 1 .. oc
      BY <1>2, <1>3
    <3>2. QED
      BY <1>3, <1>9, <1>10, <1>14, <3>1
  <2>2. CASE i = tc + 1
    <3>1. open_children'[i] = c /\ closed'[c + 1].start = frames[n].start /\ c < Len(closed')
      BY <1>3, <1>9, <1>10, <1>13, <2>2
    <3>2. \A j \in 1 .. tc : closed[open_children[j] + 1].end <= frames[n].start
      BY <1>2 DEF Ordered, ChildrenBeforeFrame, ClosedAt, tc
    <3>3. \A j \in 1 .. i - 1 : j \in 1 .. tc
      BY <1>2, <2>2
    <3>4. QED
      BY <2>1, <3>1, <3>2, <3>3
  <2>3. CASE i # tc + 1
    <3>1. i \in 1 .. tc /\ \A j \in 1 .. i - 1 : j \in 1 .. tc
      BY <1>2, <2>3
    <3>2. QED
      BY <1>10, <2>1, <3>1 DEF Ordered, RecordsInWrittenOrder, InWrittenOrder, ClosedAt
  <2>4. QED
    BY <2>2, <2>3
<1>20. Disjoint(open_members)'
  BY <1>8 DEF Ordered, RecordsInWrittenOrder, Disjoint
<1>21. root_members' = <<>> /\ root_children' = <<>>
  BY <1>1, Closing DEF Consistent, Holding, WalkAlone, walk
<1>22. InWrittenOrder(root_children)' /\ Disjoint(root_members)'
  BY <1>21 DEF InWrittenOrder, Disjoint
<1>23. ASSUME NEW i \in 1 .. c + 1
       PROVE  /\ InWrittenOrder(SliceOf(closed_children, closed[i].children))'
              /\ Disjoint(SliceOf(closed_members, closed[i].members))'
  <2> DEFINE s == SliceOf(closed_children, closed[i].children)
             m == SliceOf(closed_members, closed[i].members)
  <2>1. CASE i = c + 1
    <3>1. /\ record.children.start = Len(closed_children)
          /\ record.children.end = Len(closed_children) + Len(children)
          /\ record.members.start = Len(closed_members)
          /\ record.members.end = Len(closed_members) + Len(members)
      BY DEF record
    <3>2. SliceOf(closed_children \o children, record.children) = children
      BY SMTT(30), <1>5, <1>6, <3>1, SliceOfLonger
    <3>3. SliceOf(closed_members \o members, record.members) = members
      BY <1>4, <1>5, <3>1, SliceOfLonger
    <3>4. s' = children /\ m' = members
      BY <1>1, <1>9, <2>1, <3>2, <3>3
    <3>5. InWrittenOrder(children)
      <4> SUFFICES ASSUME NEW x \in 1 .. oc - tc, NEW y \in 1 .. x - 1
                   PROVE  ClosedAt(children[y]).end <= ClosedAt(children[x]).start
        BY <1>6, <1>14 DEF InWrittenOrder, IsClosed, c
      <4>1. /\ y \in 1 .. oc - tc /\ tc + x \in 1 .. oc /\ tc + y \in 1 .. tc + x - 1
        BY <1>2, <1>3
      <4>2. children[x] = open_children[tc + x] /\ children[y] = open_children[tc + y]
        BY <1>6, <4>1
      <4>3. InWrittenOrder(open_children)
        BY DEF Ordered, RecordsInWrittenOrder
      <4>4. ClosedAt(open_children[tc + y]).end <= ClosedAt(open_children[tc + x]).start
        <5>1. \A k \in 1 .. oc : \A j \in 1 .. k - 1 :
                ClosedAt(open_children[j]).end <= ClosedAt(open_children[k]).start
          BY <1>10, <4>3 DEF InWrittenOrder
        <5> DEFINE a == tc + x
                   d == tc + y
        <5>2. a \in 1 .. oc /\ d \in 1 .. a - 1
          BY <1>2, <1>3, <4>1
        <5> HIDE DEF a, d
        <5>3. ClosedAt(open_children[d]).end <= ClosedAt(open_children[a]).start
          BY <5>1, <5>2
        <5>4. QED
          BY <5>3 DEF a, d
      <4>5. QED
        BY <4>2, <4>4
    <3>6. \A x \in DOMAIN children : /\ children[x] \in Nat
                                     /\ \A y \in 1 .. x - 1 : y \in DOMAIN children
      <4> SUFFICES ASSUME NEW x \in 1 .. oc - tc
                   PROVE  children[x] \in Nat /\ \A y \in 1 .. x - 1 : y \in 1 .. oc - tc
        BY <1>6
      <4>1. \A y \in 1 .. x - 1 : y \in 1 .. oc - tc
        BY <1>2, <1>3
      <4>2. tc + x \in 1 .. oc /\ children[x] = open_children[tc + x]
        BY <1>6
      <4>3. QED
        BY <1>14, <4>1, <4>2
    <3> HIDE DEF s, m
    <3>7. InWrittenOrder(s)'
      BY <1>15, <3>4, <3>5, <3>6 DEF InWrittenOrder, IsClosed, ClosedAt
    <3>8. Disjoint(m)'
      BY <1>4, <3>4 DEF Disjoint
    <3>9. QED
      BY <3>7, <3>8 DEF s, m
  <2>2. CASE i # c + 1
    <3>1. i \in 1 .. c /\ closed'[i] = closed[i]
      BY <1>3, <1>9, <2>2
    <3>2. closed[i] \in Closed
      BY <1>5, <3>1, ElementOfSeq DEF c
    <3>3. /\ closed[i].children \in Span /\ InList(closed_children, closed[i].children)
          /\ closed[i].members \in Span /\ InList(closed_members, closed[i].members)
      BY <1>9, <3>1, <3>2 DEF Closed, Consistent, Recorded, ClosedFit
    <3>4. SliceOf(closed_children \o children, closed[i].children) = s
      BY <1>5, <1>6, <3>3, SliceOfLonger
    <3>5. SliceOf(closed_members \o members, closed[i].members) = m
      BY <1>4, <1>5, <3>3, SliceOfLonger
    <3>6. s' = s /\ m' = m
      BY <1>1, <3>1, <3>4, <3>5
    <3>7. InWrittenOrder(s) /\ Disjoint(m)
      BY <1>9, <3>1 DEF Ordered, RecordsInWrittenOrder
    <3>8. s \in Seq(Offset)
      BY <1>5, <3>3, SliceType
    <3> HIDE DEF s, m
    <3>9. \A x \in DOMAIN s : /\ s[x] \in Nat
                              /\ \A y \in 1 .. x - 1 : y \in DOMAIN s
      <4>1. DOMAIN s = 1 .. Len(s) /\ Len(s) \in Nat
        BY <3>8, LenProperties
      <4>2. \A x \in 1 .. Len(s) : s[x] \in Nat
        BY <3>8, ElementOfSeq, OffsetNat
      <4>3. QED
        BY <4>1, <4>2
    <3>10. InWrittenOrder(s)'
      BY <1>15, <3>6, <3>7, <3>9 DEF InWrittenOrder, IsClosed, ClosedAt
    <3>11. Disjoint(m)'
      BY <3>6, <3>7 DEF Disjoint
    <3>12. QED
      BY <3>10, <3>11 DEF s, m
  <2>3. QED
    BY <2>1, <2>2
<1>24. QED
  BY <1>9, <1>16, <1>17, <1>18, <1>19, <1>20, <1>22, <1>23 DEF Ordered, RecordsInWrittenOrder

LEMMA EndObjectOrdered ==
    ASSUME TypeOK, TypeOK', Consistent, Ordered, ~refused, todo = <<>>, EndObjectEvent, ~refused'
    PROVE  Ordered'
<1>1. EndObjectError = "none" /\ stack' = Front(stack) /\ frames' = Front(frames)
  BY DEF EndObjectEvent, Refuse
<1>2. \E members \in SortedMembers(SubSeq(open_members, TopFrame.members + 1,
                                          Len(open_members))) :
         \/ Len(frames) = 1 /\ CloseOutermost(members)
         \/ Len(frames) > 1 /\ CloseNested(members)
  BY DEF EndObjectEvent, Refuse
<1>3. QED
  BY <1>1, <1>2, OutermostOrdered, NestedOrdered

LEMMA WalkDoneOrdered ==
    ASSUME TypeOK, Consistent, WalkDone
    PROVE  Ordered'
<1>1. Ahead("write_out")
  BY AtPlan DEF WalkDone, Consistent
<1>2. /\ frames' = <<>> /\ open_members' = <<>> /\ open_children' = <<>>
      /\ closed' = <<>> /\ root_members' = <<>> /\ root_children' = <<>>
  BY <1>1 DEF WalkDone, opened, Consistent, Holding, WalkAlone
<1>3. QED
  BY <1>2 DEF Ordered, MembersAscend, MembersBeforeName, ChildrenBeforeFrame,
     RecordsInWrittenOrder, InWrittenOrder, Disjoint

LEMMA EventOrdered ==
    ASSUME TypeOK, TypeOK', Consistent, Ordered, ~refused, todo = <<>>, Event, ~refused'
    PROVE  Ordered'
<1>1. CASE \/ \E v \in Scalars : Scalar(v)
           \/ Unrepresentable \/ BeginArray \/ BeginObject
           \/ \E n \in Names : BeginWrapper(n)
  <2>1. UNCHANGED <<text, opened, records, walk>>
    BY <1>1, ValueEventPlans DEF ValueEvent
  <2>2. QED
    BY <2>1, OrderedKeeps DEF text, walk
<1>2. CASE EndArray \/ EndWrapper
  <2>1. UNCHANGED <<text, opened, records, walk>>
    BY <1>2 DEF EndArray, EndWrapper, EndContainer
  <2>2. QED
    BY <2>1, OrderedKeeps DEF text, walk
<1>3. CASE EndObject
  BY <1>3, EndObjectOrdered DEF EndObject
<1>4. ASSUME NEW n \in Names, Name(n)
      PROVE  Ordered'
  BY <1>4, NameOrdered DEF Name
<1>5. CASE SourceRefuses
  BY <1>5 DEF SourceRefuses, Refuse
<1>6. CASE EventAfterRefusal
  BY <1>6 DEF EventAfterRefusal
<1>7. QED
  BY <1>1, <1>2, <1>3, <1>4, <1>5, <1>6 DEF Event

LEMMA RunEventOrdered ==
    ASSUME TypeOK, TypeOK', Consistent, Ordered, ~refused, RunEvent, ~refused'
    PROVE  Ordered'
<1>1. CASE ProduceStep \/ NoTextStep \/ PushOpenStep \/ PopStep
  <2>1. UNCHANGED <<frames, opened, records, walk>>
    BY <1>1 DEF ProduceStep, NoTextStep, PushOpenStep, PopStep, text
  <2>2. QED
    BY <2>1, OrderedKeeps DEF walk
<1>2. CASE PushFrameStep
  BY <1>2, PushFrameOrdered
<1>3. CASE AfterValueStep
  BY <1>3, AfterValueOrdered
<1>4. CASE WalkBytes \/ WalkBody \/ WalkMember
  <2>1. UNCHANGED <<text, opened, records>>
    BY <1>4 DEF WalkBytes, WalkBody, WalkMember
  <2>2. UNCHANGED <<root_members, root_children>>
    BY <1>4 DEF WalkBytes, WalkBody, WalkMember, RefuseWalk, Refuse
  <2>3. QED
    BY <2>1, <2>2, OrderedKeeps DEF text
<1>5. CASE WalkDone
  BY <1>5, WalkDoneOrdered
<1>6. QED
  BY <1>1, <1>2, <1>3, <1>4, <1>5 DEF RunEvent

LEMMA OrderStays ==
    ASSUME TypeOK, TypeOK', Sound, OrderKept, [Next]_vars
    PROVE  OrderKept'
<1> SUFFICES ASSUME ~refused' PROVE Ordered'
  BY DEF OrderKept
<1>1. CASE Event /\ ~EventAfterRefusal
  <2>1. todo = <<>> /\ ~refused
    BY <1>1, EventsAdmitted DEF Accepting, Idle
  <2>2. QED
    BY <1>1, <2>1, EventOrdered DEF Sound, Faultless, OrderKept
<1>2. CASE EventAfterRefusal
  BY <1>2 DEF EventAfterRefusal
<1>3. CASE RunEvent
  <2>1. ~refused
    BY <1>3, StepsRun DEF Sound, Settled
  <2>2. QED
    BY <1>3, <2>1, RunEventOrdered DEF Sound, Faultless, OrderKept
<1>4. CASE Finish \/ UNCHANGED vars
  <2>1. UNCHANGED <<text, opened, records, walk, control>>
    BY <1>4 DEF Finish, vars
  <2>2. ~refused
    BY <2>1 DEF control
  <2>3. QED
    BY <2>1, <2>2, OrderedKeeps DEF OrderKept, text, walk
<1>5. QED
  BY <1>1, <1>2, <1>3, <1>4 DEF Next

(* Until a refusal the members and the children of every object, open,     *)
(* closed or being written out, are recorded in written order and apart:   *)
(* what the binary searches of write_out and the bytes it copies between   *)
(* the children of a member rest on.                                       *)
THEOREM AlwaysInWrittenOrder == Spec => []RecordsInWrittenOrder
<1>1. Init => OrderKept
  BY DEF Init, OrderKept, Ordered, MembersAscend, MembersBeforeName, ChildrenBeforeFrame,
     RecordsInWrittenOrder, InWrittenOrder, Disjoint
<1>2. TypeOK /\ TypeOK' /\ Sound /\ OrderKept /\ [Next]_vars => OrderKept'
  BY OrderStays
<1>3. OrderKept => RecordsInWrittenOrder
  BY DEF OrderKept, Ordered, RecordsInWrittenOrder
<1>4. QED
  BY <1>1, <1>2, <1>3, TypeCorrect, SoundAlways, PTL DEF Spec

=============================================================================
