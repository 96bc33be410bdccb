----------------------------- MODULE TreeEncoder -----------------------------
(***************************************************************************)
(* The two encoders of a tree, driving the writer: NodeRef::encode_into of *)
(* src/read.rs with its stack of tasks, and Value::encode_into of          *)
(* src/value.rs with its stack of iterators.  Each is called by `encode`   *)
(* of src/lib.rs, which finishes the writer if the encoder succeeds and    *)
(* returns the first error otherwise.                                      *)
(*                                                                         *)
(* A document and a serde_json value are both trees here; that an arena of *)
(* the reader is one is the concern of the module Reader.  A member name   *)
(* occurs once in an object of either, and a leaf of a document has a text *)
(* while a number of a Value may have none.                                *)
(*                                                                         *)
(* An encoder's turn comes when the event it pushed has run.               *)
(***************************************************************************)
EXTENDS Writer

CONSTANTS
    Documents,      \* trees that the reader may return
    Values          \* trees that a serde_json value may be

VARIABLES
    tree, encoder,  \* what is encoded, by which of the two
    work,           \* tasks of NodeRef's encoder, or iterators of Value's
    value,          \* the value that Value's encoder is about to visit
    unstacked       \* a container opened whose stack entry is still due

driver == <<tree, encoder, work, value, unstacked>>
allVars == <<vars, driver>>

(* Trees: a leaf with a text, a number with none, an array, an object.     *)
Leaf(token)      == [node |-> "Leaf", token |-> token]
Textless         == [node |-> "Textless"]
ArrayOf(trees)   == [node |-> "Array", items |-> trees]
ObjectOf(pairs)  == [node |-> "Object", members |-> pairs]
Pair(n, t)       == [name |-> n, value |-> t]
Nothing          == [node |-> "None"]

IsContainer(t) == t.node \in {"Array", "Object"}
Children(t) == IF t.node = "Array" THEN t.items ELSE t.members

(* What is in a tree may be encoded by itself. *)
AreTrees(trees) ==
    \A t \in trees :
        \/ t.node = "Leaf" /\ t.token \in Scalars
        \/ t.node = "Textless"
        \/ t.node = "Array" /\ t.items \in Seq(trees)
        \/ /\ t.node = "Object"
           /\ t.members \in Seq([name : Names, value : trees])
           /\ \A i, j \in DOMAIN t.members :
                  t.members[i].name = t.members[j].name => i = j
ASSUME TreesAssumption == AreTrees(Documents) /\ AreTrees(Values)

ValueTask(t)  == [do |-> "Value", tree |-> t]
NameTask(n)   == [do |-> "Name", name |-> n]
EndTask(kind) == [do |-> "End", node |-> kind]
Iterator(t)   == [node |-> t.node, left |-> Children(t)]

-----------------------------------------------------------------------------
(* Writer::refuse, for an error that the encoder finds. *)
RefuseThrough(error) ==
    /\ Refuse(error)
    /\ UNCHANGED <<output, text, opened, records, walk, stack, started, finished>>

(* The event that a node is, or that opens it.  A literal too wide to be   *)
(* an integer is refused without one.                                      *)
Visit(t) ==
    \/ t.node = "Leaf" /\ Scalar(t.token)
    \/ t.node = "Textless" /\ (Unrepresentable \/ RefuseThrough("Source"))
    \/ t.node = "Array" /\ BeginArray
    \/ t.node = "Object" /\ BeginObject
EndEvent(kind) == IF kind = "Array" THEN EndArray ELSE EndObject

Turn(which) == Accepting /\ encoder = which
Stacked == unstacked = Nothing
RefuseAllocation == RefuseThrough("Allocation") /\ UNCHANGED driver

-----------------------------------------------------------------------------
(* NodeRef::encode_into. *)

PopValue ==
    /\ Turn("NodeRef") /\ Stacked /\ work # <<>> /\ Last(work).do = "Value"
    /\ LET t == Last(work).tree
       IN  Visit(t) /\ unstacked' = IF IsContainer(t) THEN t ELSE Nothing
    /\ work' = Front(work)
    /\ UNCHANGED <<tree, encoder, value>>

(* A container's end below its children, the first of them on top, each    *)
(* member's name above its value.                                          *)
TasksInOrder(t) ==
    LET n == Len(Children(t))
        Piece(j) == LET k == (j + 1) \div 2
                   IN  IF j % 2 = 1 THEN ValueTask(t.members[k].value)
                                    ELSE NameTask(t.members[k].name)
    IN  <<EndTask(t.node)>> \o
          (IF t.node = "Array" THEN [j \in 1 .. n |-> ValueTask(t.items[j])]
           ELSE [j \in 1 .. 2 * n |-> Piece(j)])
TasksFor(t) ==
    LET n == Len(Children(t))
        Piece(j) == LET k == n - (j - 1) \div 2
                   IN  IF j % 2 = 1 THEN ValueTask(t.members[k].value)
                                    ELSE NameTask(t.members[k].name)
    IN  <<EndTask(t.node)>> \o
          (IF t.node = "Array" THEN [j \in 1 .. n |-> ValueTask(t.items[n - j + 1])]
           ELSE [j \in 1 .. 2 * n |-> Piece(j)])

PushTasks ==
    /\ Turn("NodeRef") /\ ~Stacked
    /\ \/ RefuseAllocation
       \/ /\ work' = work \o TasksFor(unstacked)
          /\ unstacked' = Nothing
          /\ UNCHANGED <<vars, tree, encoder, value>>

PopName ==
    /\ Turn("NodeRef") /\ Stacked /\ work # <<>> /\ Last(work).do = "Name"
    /\ Name(Last(work).name)
    /\ work' = Front(work)
    /\ UNCHANGED <<tree, encoder, value, unstacked>>

PopEnd ==
    /\ Turn("NodeRef") /\ Stacked /\ work # <<>> /\ Last(work).do = "End"
    /\ EndEvent(Last(work).node)
    /\ work' = Front(work)
    /\ UNCHANGED <<tree, encoder, value, unstacked>>

(* The reservation for the first task. *)
NoFirstTask ==
    /\ Turn("NodeRef") /\ ~started
    /\ RefuseAllocation

-----------------------------------------------------------------------------
(* Value::encode_into. *)

VisitValue ==
    /\ Turn("Value") /\ value # Nothing
    /\ Visit(value)
    /\ unstacked' = IF IsContainer(value) THEN value ELSE Nothing
    /\ value' = Nothing
    /\ UNCHANGED <<tree, encoder, work>>

PushIterator ==
    /\ Turn("Value") /\ ~Stacked
    /\ \/ RefuseAllocation
       \/ /\ work' = Append(work, Iterator(unstacked))
          /\ unstacked' = Nothing
          /\ UNCHANGED <<vars, tree, encoder, value>>

Advancing == Turn("Value") /\ Stacked /\ value = Nothing /\ work # <<>>
Advanced ==
    LET top == Last(work)
    IN  Append(Front(work), [node |-> top.node, left |-> Tail(top.left)])

NextItem ==
    /\ Advancing /\ Last(work).node = "Array" /\ Last(work).left # <<>>
    /\ value' = Head(Last(work).left)
    /\ work' = Advanced
    /\ UNCHANGED <<vars, tree, encoder, unstacked>>

NextMember ==
    /\ Advancing /\ Last(work).node = "Object" /\ Last(work).left # <<>>
    /\ Name(Head(Last(work).left).name)
    /\ value' = Head(Last(work).left).value
    /\ work' = Advanced
    /\ UNCHANGED <<tree, encoder, unstacked>>

EndInnermostKept ==
    /\ Advancing /\ Last(work).left = <<>>
    /\ EndEvent(Last(work).node)
    /\ UNCHANGED driver

EndInnermost ==
    /\ Advancing /\ Last(work).left = <<>>
    /\ EndEvent(Last(work).node)
    /\ work' = Front(work)
    /\ UNCHANGED <<tree, encoder, value, unstacked>>

-----------------------------------------------------------------------------
(* encode. *)

Returned == Accepting /\ work = <<>> /\ value = Nothing /\ Stacked
FinishEncoding == Returned /\ Finish /\ UNCHANGED driver

EncodeInit ==
    /\ Init
    /\ encoder \in {"NodeRef", "Value"}
    /\ tree \in IF encoder = "NodeRef" THEN Documents ELSE Values
    /\ work = IF encoder = "NodeRef" THEN <<ValueTask(tree)>> ELSE <<>>
    /\ value = IF encoder = "NodeRef" THEN Nothing ELSE tree
    /\ unstacked = Nothing

EncodeNext ==
    \/ RunEvent /\ UNCHANGED driver
    \/ PopValue \/ PushTasks \/ PopName \/ PopEnd \/ NoFirstTask
    \/ VisitValue \/ PushIterator \/ NextItem \/ NextMember \/ EndInnermost
    \/ FinishEncoding

EncodeSpec == EncodeInit /\ [][EncodeNext]_allVars
=============================================================================
