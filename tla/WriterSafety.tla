---------------------------- MODULE WriterSafety ----------------------------
(***************************************************************************)
(* What the writer must never do, and what it must eventually do.          *)
(***************************************************************************)
EXTENDS Writer

Text == INSTANCE CanonicalText

(* The shapes of the state, with every offset a 32-bit one and the byte    *)
(* ceiling never exceeded by what is counted (Writer::count).              *)
OutputOK == produced \in 0 .. MaxBytes /\ sink \in Seq(Byte)
TextOK == frames \in Seq(Frame) /\ buffer \in Seq(Byte)
OpenedOK == open_members \in Seq(Span) /\ open_children \in Seq(Offset)
RecordsOK ==
    /\ closed \in Seq(Closed)
    /\ closed_members \in Seq(Span) /\ closed_children \in Seq(Offset)
WalkOK ==
    /\ root_members \in Seq(Span) /\ root_children \in Seq(Offset)
    /\ tasks \in Seq(Task)
ControlOK ==
    /\ todo \in Seq(Step)
    /\ answer \in Errors \cup {"none", "running", "Ok"}
    /\ refused \in BOOLEAN
StackOK ==
    /\ stack \in Seq(Open)
    /\ started \in BOOLEAN
    /\ finished \in {"no", "Ok", "Incomplete", "AfterRefusal"}
TypeOK ==
    /\ OutputOK /\ TextOK /\ OpenedOK /\ RecordsOK /\ WalkOK /\ ControlOK /\ StackOK

-----------------------------------------------------------------------------
(* No event ends in Error::Internal: whatever the caller pushes and        *)
(* wherever the writer fails, the frames match the open objects, a value   *)
(* in an object follows its name, every span lies inside the buffer, every *)
(* record range inside its list, and every list index fits 32 bits while   *)
(* the buffer's offsets do (the comment on index_u32).                     *)
NoInternalFault == answer # "Internal"

(* Writer docs, "Bounds": the buffer only ever holds produced bytes, and   *)
(* every stack the writer grows is bounded by the ceiling.  The records    *)
(* stand for bytes that are all different: an open container for its       *)
(* opening one, a member for its name, colon and the first of its value, a *)
(* closed object for its closing one, so no member may stay on the open    *)
(* list once it is on the closed one.  A closed object is the child of one *)
(* owner.  An object refused half-way through its close may be on both.    *)
RecordsStandForBytes ==
    LET members == Len(open_members) + Len(root_members) + Len(closed_members)
        children == Len(open_children) + Len(root_children) + Len(closed_children)
    IN  /\ Len(buffer) <= produced
        /\ Len(tasks) <= produced
        /\ Len(stack) + members + Len(closed) <= produced
        /\ ~refused => /\ Len(stack) + 3 * members + Len(closed) <= produced
                       /\ children = Len(closed)

(* produced counts every byte exactly once: between events it is the bytes *)
(* in the sink and the buffer, and the commas and closing braces of the    *)
(* closed objects that the buffer leaves out.                              *)
PunctuationOwed ==
    LET Owed(n) == IF n = 0 THEN 1 ELSE n
    IN  FoldLeft(LAMBDA sum, c : sum + Owed(c.members.end - c.members.start), 0, closed)
EveryByteCountedOnce ==
    todo = <<>> /\ ~refused =>
        produced = Len(sink) + Len(buffer) + PunctuationOwed

(* Between events with no object open nothing of an earlier object is left *)
(* in the buffer or the records, so that the next object of a streamed     *)
(* array starts from offset zero and id zero.                              *)
NothingLeftBehind ==
    todo = <<>> /\ ~refused /\ frames = <<>> =>
        /\ buffer = <<>>
        /\ open_members = <<>> /\ open_children = <<>>
        /\ closed = <<>> /\ closed_members = <<>> /\ closed_children = <<>>
        /\ tasks = <<>>

(* The children of an object are in written order and apart, and so are    *)
(* the spans of its members: the binary searches of write_out need the     *)
(* first, and the bytes around the children the second.                    *)
InWrittenOrder(children) ==
    \A i \in DOMAIN children : IsClosed(children[i]) /\
        \A j \in 1 .. i - 1 :
            ClosedAt(children[j]).end <= ClosedAt(children[i]).start
Disjoint(members) ==
    \A i, j \in DOMAIN members :
        i # j => members[i].end <= members[j].start \/ members[j].end <= members[i].start
RecordsInWrittenOrder ==
    refused \/
        /\ InWrittenOrder(open_children) /\ InWrittenOrder(root_children)
        /\ Disjoint(open_members) /\ Disjoint(root_members)
        /\ \A i \in DOMAIN closed :
              /\ InWrittenOrder(SliceOf(closed_children, closed[i].children))
              /\ Disjoint(SliceOf(closed_members, closed[i].members))

-----------------------------------------------------------------------------
(* After any refusal every further event is refused with AfterRefusal and  *)
(* finish too, and nothing more reaches the sink.                          *)
RefusalIsFinal ==
    [][refused =>
        /\ refused'
        /\ UNCHANGED <<output, text, opened, records, stack, started>>
        /\ answer' \in {answer, "AfterRefusal"}
        /\ finished' # "Ok"]_vars

-----------------------------------------------------------------------------
(* An admitted event runs by itself: nothing but its own steps is enabled  *)
(* until it returns, so the caller's thread keeps taking them.             *)
FairSpec == Spec /\ WF_vars(RunEvent)

(* Every event returns: the walk of write_out ends, however the objects    *)
(* nest.                                                                   *)
EventReturns == todo # <<>> ~> todo = <<>>
=============================================================================
