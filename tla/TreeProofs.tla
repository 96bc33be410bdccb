----------------------------- MODULE TreeProofs -----------------------------
(***************************************************************************)
(* Theorems about the encoders of a tree, for every value of the constants *)
(* and every tree: they keep the writer's protocol.                        *)
(***************************************************************************)
EXTENDS TreeTurns, WriterProofs

-----------------------------------------------------------------------------
(***************************************************************************)
(* The inductive invariant of an encoding.  The containers whose tasks or  *)
(* iterators an encoder holds form a path from the tree's root: a level of *)
(* the path is a container, the number of its children taken from `work`,  *)
(* how many of them were visited, the number of objects down to here, and  *)
(* for NodeRef's encoder the place of its end task.  While nothing is      *)
(* refused there is a path that the work, the stack, the frames and the    *)
(* recorded names all follow.                                              *)
(***************************************************************************)
Trees == Documents \cup Values
Size(t) == Len(Children(t))
Child(t, k) == IF t.node = "Array" THEN t.items[k] ELSE t.members[k].value
MemberName(t, k) == t.members[k].name

Level == [tree : Trees, taken : Nat, visited : Nat, frame : Nat, at : Nat]
Bottom(path) == path[Len(path)]
Due(path) == path # <<>> /\ Bottom(path).taken > Bottom(path).visited

ObjectIn(t) == IF t.node = "Object" THEN 1 ELSE 0
FrameAbove(path, i) == IF i = 1 THEN 0 ELSE path[i - 1].frame
FramesOf(path) == IF path = <<>> THEN 0 ELSE Bottom(path).frame
LevelsFit(path) ==
    /\ \A i \in DOMAIN path :
          /\ IsContainer(path[i].tree)
          /\ path[i].visited <= path[i].taken /\ path[i].taken <= path[i].visited + 1
          /\ path[i].taken <= Size(path[i].tree)
          /\ path[i].frame = FrameAbove(path, i) + ObjectIn(path[i].tree)
    /\ \A i, j \in DOMAIN path : i < j =>
          /\ path[i].taken = path[i].visited
          /\ path[i].frame + ObjectIn(path[j].tree) <= path[j].frame

-----------------------------------------------------------------------------
(* The stack is the path's containers, one more once `unstacked` is open   *)
(* or until an array's `]` is written.                                     *)
Opening == Ahead("push_open") \/ Ahead("push_frame")
Opened == ~Stacked /\ ~Opening
Extra == IF Opened \/ Ahead("pop") THEN 1 ELSE 0
StackFollows(path) ==
    /\ Len(stack) = Len(path) + Extra
    /\ \A i \in DOMAIN path : stack[i].kind = path[i].tree.node
    /\ Opened => stack[Len(path) + 1].kind = unstacked.node
    /\ Len(frames) = FramesOf(path) + (IF Opened THEN ObjectIn(unstacked) ELSE 0)

(* An object just opened has no members yet. *)
OpenedEmpty ==
    Opened /\ unstacked.node = "Object" =>
        frames[Len(frames)].members = Len(open_members)

(* What the running event has ahead is what the encoder asked for. *)
PlanFollows(path) ==
    /\ ~Stacked => unstacked \in Trees /\ IsContainer(unstacked)
    /\ Ahead("push_open") => unstacked.node = "Array"
    /\ Ahead("push_frame") => unstacked.node = "Object"
    /\ \A i \in DOMAIN todo : todo[i].op = "push_open" =>
            i = Len(todo) /\ todo[i].open.kind = "Array"
    /\ Ahead("pop") => Ahead("after_value")
    /\ Ahead("after_value") => Stacked
    /\ Due(path) => Stacked /\ \A i \in DOMAIN todo : todo[i].op = "produce"

(* A name is pending in the innermost object when its value is due, and    *)
(* else only while that value's event runs.                                *)
PendingFollows(path) ==
    /\ Top("Object") /\ NamePending => Ahead("after_value") \/ Opening \/ Due(path)
    /\ Top("Object") /\ Due(path) => NamePending

-----------------------------------------------------------------------------
(* The members recorded of an object are the children taken but for the    *)
(* one whose name is pending, and each is recorded under its own name.     *)
Pends(f) == frames[f].pending # NoOffset
MembersEnd(f) == IF f < Len(frames) THEN frames[f + 1].members ELSE Len(open_members)
RecordedOf(l) == IF Pends(l.frame) THEN l.taken - 1 ELSE l.taken
NamesFollowAt(l) ==
    /\ MembersEnd(l.frame) = frames[l.frame].members + RecordedOf(l)
    /\ \A k \in 1 .. RecordedOf(l) :
          buffer[open_members[frames[l.frame].members + k].start + 1] = MemberName(l.tree, k)
    /\ Pends(l.frame) =>
          /\ l.taken > 0
          /\ IF frames[l.frame].pending < Len(buffer)
               THEN buffer[frames[l.frame].pending + 1] = MemberName(l.tree, l.taken)
               ELSE todo # <<>> /\ todo[1] = Produce(MemberName(l.tree, l.taken))
NamesFollow(path) ==
    \A i \in DOMAIN path : path[i].tree.node = "Object" => NamesFollowAt(path[i])

-----------------------------------------------------------------------------
(* NodeRef's tasks: for each level its end and above it the children not   *)
(* taken, the next on top; of a member taken and not visited the value.    *)
TasksLeft(l) == IF l.tree.node = "Array" THEN Size(l.tree) - l.taken
                ELSE (Size(l.tree) - l.visited) + (Size(l.tree) - l.taken)
ValueAt(l, k) == l.at + (IF l.tree.node = "Array" THEN 1 + Size(l.tree) - k
                         ELSE 1 + 2 * (Size(l.tree) - k))
NameAt(l, k) == l.at + 2 + 2 * (Size(l.tree) - k)
LevelTop(path, i) == IF i = 0 THEN 0 ELSE path[i].at + TasksLeft(path[i])
TasksFollowAt(l) ==
    /\ work[l.at] = EndTask(l.tree.node)
    /\ \A k \in l.visited + 1 .. Size(l.tree) :
          work[ValueAt(l, k)] = ValueTask(Child(l.tree, k))
    /\ l.tree.node = "Object" =>
          \A k \in l.taken + 1 .. Size(l.tree) :
              work[NameAt(l, k)] = NameTask(MemberName(l.tree, k))
    /\ l.tree.node = "Array" => l.taken = l.visited
TasksFollow(path) ==
    /\ value = Nothing
    /\ Len(work) = LevelTop(path, Len(path))
    /\ \A i \in DOMAIN path : path[i].at = LevelTop(path, i - 1) + 1
    /\ \A i, j \in DOMAIN path : i < j => LevelTop(path, i) < path[j].at
    /\ \A i \in DOMAIN path : TasksFollowAt(path[i])

(* Value's iterators: one per level, over its children not taken. *)
Rest(l) == SubSeq(Children(l.tree), l.taken + 1, Size(l.tree))
IteratorAt(i, l) == work[i] = [node |-> l.tree.node, left |-> Rest(l)]
IteratorsFollow(path) ==
    /\ Len(work) = Len(path)
    /\ \A i \in DOMAIN path : IteratorAt(i, path[i])
    /\ value # Nothing <=> Due(path)
    /\ Due(path) => value = Child(Bottom(path).tree, Bottom(path).taken)

WorkItem ==
    [do : {"Value"}, tree : Trees] \cup [do : {"Name"}, name : Names]
      \cup [do : {"End"}, node : {"Array", "Object"}]
      \cup [node : {"Array", "Object"},
            left : Seq(Trees) \cup Seq([name : Names, value : Trees])]
Unbegun(path) ==
    /\ path = <<>> /\ todo = <<>> /\ Stacked /\ tree \in Trees
    /\ encoder = "NodeRef" => work = <<ValueTask(tree)>> /\ value = Nothing
    /\ encoder = "Value" => work = <<>> /\ value = tree
WorkFollows(path) ==
    /\ encoder \in {"NodeRef", "Value"} /\ work \in Seq(WorkItem)
    /\ IF ~started THEN Unbegun(path)
       ELSE IF encoder = "NodeRef" THEN TasksFollow(path) ELSE IteratorsFollow(path)

EncodingFollows(path) ==
    /\ LevelsFit(path) /\ StackFollows(path) /\ OpenedEmpty /\ PlanFollows(path)
    /\ PendingFollows(path) /\ NamesFollow(path) /\ WorkFollows(path)

-----------------------------------------------------------------------------
(* Trees and paths. *)

LEMMA TreeKinds ==
    ASSUME NEW t \in Trees
    PROVE  /\ t.node \in {"Leaf", "Textless", "Array", "Object"}
           /\ t.node = "Leaf" => t.token \in Scalars
           /\ t.node = "Array" => t.items \in Seq(Trees)
           /\ t.node = "Object" =>
                /\ t.members \in Seq([name : Names, value : Trees])
                /\ \A i, j \in DOMAIN t.members :
                      t.members[i].name = t.members[j].name => i = j
<1> DEFINE Pairs(S) == [name : Names, value : S]
<1>1. ASSUME NEW S, AreTrees(S), t \in S, S \subseteq Trees
      PROVE  /\ t.node \in {"Leaf", "Textless", "Array", "Object"}
             /\ t.node = "Leaf" => t.token \in Scalars
             /\ t.node = "Array" => t.items \in Seq(Trees)
             /\ t.node = "Object" =>
                  /\ t.members \in Seq(Pairs(Trees))
                  /\ \A i, j \in DOMAIN t.members :
                        t.members[i].name = t.members[j].name => i = j
  <2>1. \/ t.node = "Leaf" /\ t.token \in Scalars
        \/ t.node = "Textless"
        \/ t.node = "Array" /\ t.items \in Seq(S)
        \/ /\ t.node = "Object"
           /\ t.members \in Seq(Pairs(S))
           /\ \A i, j \in DOMAIN t.members :
                  t.members[i].name = t.members[j].name => i = j
    BY <1>1 DEF AreTrees
  <2>2. ASSUME NEW A, NEW B, A \subseteq B, NEW s \in Seq(A)
        PROVE  s \in Seq(B)
    <3>1. Len(s) \in Nat /\ s \in [1 .. Len(s) -> A]
      BY LenProperties
    <3>2. s \in [1 .. Len(s) -> B]
      BY <2>2, <3>1
    <3>3. QED
      BY <3>1, <3>2, SeqDef
  <2>3. Pairs(S) \subseteq Pairs(Trees)
    BY <1>1
  <2> HIDE DEF Pairs
  <2>4. CASE t.node = "Array" /\ t.items \in Seq(S)
    <3>1. t.items \in Seq(Trees)
      BY <1>1, <2>2, <2>4
    <3>2. QED
      BY <2>4, <3>1
  <2>5. CASE t.node = "Object" /\ t.members \in Seq(Pairs(S))
    <3>1. t.members \in Seq(Pairs(Trees))
      BY <2>2, <2>3, <2>5
    <3>2. QED
      BY <2>1, <2>5, <3>1
  <2>6. QED
    BY <2>1, <2>4, <2>5
<1>2. AreTrees(Documents) /\ AreTrees(Values)
  BY TreesAssumption
<1>3. t \in Documents \/ t \in Values
  BY DEF Trees
<1>4. Documents \subseteq Trees /\ Values \subseteq Trees
  BY DEF Trees
<1>5. CASE t \in Documents
  BY <1>1, <1>2, <1>4, <1>5
<1>6. CASE t \in Values
  BY <1>1, <1>2, <1>4, <1>6
<1>7. QED
  BY <1>3, <1>5, <1>6

LEMMA TreeChildren ==
    ASSUME NEW t \in Trees, IsContainer(t)
    PROVE  /\ Size(t) \in Nat
           /\ Children(t) \in Seq(Trees) \cup Seq([name : Names, value : Trees])
           /\ Len(Children(t)) = Size(t) /\ DOMAIN Children(t) = 1 .. Size(t)
           /\ \A k \in 1 .. Size(t) : Child(t, k) \in Trees
           /\ t.node = "Object" => \A k \in 1 .. Size(t) : MemberName(t, k) \in Names
           /\ t.node = "Object" => \A i, j \in 1 .. Size(t) :
                 MemberName(t, i) = MemberName(t, j) => i = j
<1>1. CASE t.node = "Array"
  <2>1. t.items \in Seq(Trees)
    BY <1>1, TreeKinds
  <2>2. Children(t) = t.items
    BY <1>1 DEF Children
  <2>3. Len(t.items) \in Nat /\ DOMAIN t.items = 1 .. Len(t.items)
    BY <2>1, LenProperties
  <2>4. \A k \in 1 .. Len(t.items) : t.items[k] \in Trees
    BY <2>1, ElementOfSeq
  <2>5. QED
    BY <1>1, <2>1, <2>2, <2>3, <2>4 DEF Size, Child
<1>2. CASE t.node = "Object"
  <2>1. /\ t.members \in Seq([name : Names, value : Trees])
        /\ \A i, j \in DOMAIN t.members : t.members[i].name = t.members[j].name => i = j
    BY <1>2, TreeKinds
  <2>2. Children(t) = t.members
    BY <1>2 DEF Children
  <2>3. Len(t.members) \in Nat /\ DOMAIN t.members = 1 .. Len(t.members)
    BY <2>1, LenProperties
  <2>4. \A k \in 1 .. Len(t.members) : t.members[k] \in [name : Names, value : Trees]
    BY <2>1, ElementOfSeq
  <2>5. \A k \in 1 .. Len(t.members) : t.members[k].name \in Names /\ t.members[k].value \in Trees
    BY <2>4
  <2>6. QED
    BY <1>2, <2>1, <2>2, <2>3, <2>5 DEF Size, Child, MemberName
<1>3. QED
  BY <1>1, <1>2 DEF IsContainer

LEMMA NotNothing ==
    ASSUME NEW t \in Trees
    PROVE  t # Nothing
<1>1. t.node # "None"
  BY TreeKinds
<1>2. QED
  BY <1>1 DEF Nothing

LEMMA LevelFacts ==
    ASSUME NEW path \in Seq(Level), LevelsFit(path), NEW i \in DOMAIN path
    PROVE  /\ path[i] \in Level /\ path[i].tree \in Trees /\ IsContainer(path[i].tree)
           /\ path[i].taken \in Nat /\ path[i].visited \in Nat
           /\ path[i].frame \in Nat /\ path[i].at \in Nat
           /\ Size(path[i].tree) \in Nat /\ TasksLeft(path[i]) \in Nat
           /\ path[i].tree.node = "Object" => path[i].frame \in 1 .. path[i].frame
           /\ path[i].tree.node \in {"Array", "Object"}
           /\ path[i].visited <= path[i].taken /\ path[i].taken <= Size(path[i].tree)
<1>1. path[i] \in Level
  BY LenProperties, ElementOfSeq
<1>2. /\ path[i].tree \in Trees /\ path[i].taken \in Nat /\ path[i].visited \in Nat
      /\ path[i].frame \in Nat /\ path[i].at \in Nat
  BY <1>1 DEF Level
<1>3. /\ IsContainer(path[i].tree)
      /\ path[i].visited <= path[i].taken /\ path[i].taken <= Size(path[i].tree)
      /\ path[i].frame = FrameAbove(path, i) + ObjectIn(path[i].tree)
  BY DEF LevelsFit
<1>4. Size(path[i].tree) \in Nat
  BY <1>2, <1>3, TreeChildren
<1>5. TasksLeft(path[i]) \in Nat
  BY <1>2, <1>3, <1>4 DEF TasksLeft
<1>6. path[i].tree.node = "Object" => path[i].frame # 0
  <2>1. FrameAbove(path, i) \in Nat
    <3>1. Len(path) \in Nat /\ DOMAIN path = 1 .. Len(path)
      BY LenProperties
    <3>2. CASE i = 1
      BY <3>2 DEF FrameAbove
    <3>3. CASE i # 1
      <4>1. i - 1 \in DOMAIN path
        BY <3>1, <3>3
      <4>2. path[i - 1] \in Level
        BY <3>1, <4>1, ElementOfSeq
      <4>3. QED
        BY <3>3, <4>2 DEF FrameAbove, Level
    <3>4. QED
      BY <3>2, <3>3
  <2>2. QED
    BY <1>2, <1>3, <2>1 DEF ObjectIn
<1>7. path[i].tree.node \in {"Array", "Object"}
  BY <1>3 DEF IsContainer
<1>8. QED
  BY <1>1, <1>2, <1>3, <1>4, <1>5, <1>6, <1>7

LEMMA BottomOf ==
    ASSUME NEW path \in Seq(Level), path # <<>>
    PROVE  /\ Len(path) \in Nat \ {0} /\ DOMAIN path = 1 .. Len(path)
           /\ Len(path) \in DOMAIN path /\ Bottom(path) = path[Len(path)]
           /\ Bottom(path) \in Level
<1>1. Len(path) \in Nat \ {0} /\ DOMAIN path = 1 .. Len(path)
  BY LenProperties, EmptySeq
<1>2. Bottom(path) = path[Len(path)]
  BY DEF Bottom
<1>3. path[Len(path)] \in Level
  BY <1>1, ElementOfSeq
<1>4. QED
  BY <1>1, <1>2, <1>3

LEMMA FramesBelow ==
    ASSUME TypeOK, NEW path \in Seq(Level), LevelsFit(path), StackFollows(path),
           NEW i \in DOMAIN path, path[i].tree.node = "Object"
    PROVE  /\ path[i].frame \in DOMAIN frames /\ path[i].frame \in 1 .. Len(frames)
           /\ path[i].frame <= FramesOf(path)
           /\ i # Len(path) /\ Bottom(path).tree.node = "Object" =>
                 path[i].frame < FramesOf(path)
<1>1. path # <<>> /\ Len(path) \in Nat \ {0} /\ DOMAIN path = 1 .. Len(path)
  BY LenProperties, EmptySeq
<1>2. FramesOf(path) = path[Len(path)].frame
  BY <1>1 DEF FramesOf, Bottom
<1>3. path[i].frame \in Nat /\ path[i].frame \in 1 .. path[i].frame
  BY LevelFacts
<1>4. path[Len(path)].frame \in Nat /\ path[Len(path)].tree.node \in {"Array", "Object"}
  BY <1>1, LevelFacts
<1>5. i # Len(path) => path[i].frame + ObjectIn(path[Len(path)].tree) <= path[Len(path)].frame
  <2>1. i # Len(path) => i < Len(path)
    BY <1>1
  <2>2. QED
    BY <1>1, <2>1 DEF LevelsFit
<1>6. ObjectIn(path[Len(path)].tree) \in {0, 1}
  BY DEF ObjectIn
<1>7. path[i].frame <= FramesOf(path)
  BY <1>2, <1>3, <1>4, <1>5, <1>6
<1>8. Len(frames) >= FramesOf(path)
  <2>1. Len(frames) = FramesOf(path) + (IF Opened THEN ObjectIn(unstacked) ELSE 0)
    BY DEF StackFollows
  <2>2. ObjectIn(unstacked) \in {0, 1}
    BY DEF ObjectIn
  <2>3. FramesOf(path) \in Nat
    BY <1>2, <1>4
  <2>4. QED
    BY <2>1, <2>2, <2>3
<1>9. DOMAIN frames = 1 .. Len(frames) /\ Len(frames) \in Nat
  BY LenProperties DEF TypeOK, TextOK
<1>10. i # Len(path) /\ Bottom(path).tree.node = "Object" => path[i].frame < FramesOf(path)
  BY <1>2, <1>3, <1>4, <1>5 DEF ObjectIn, Bottom
<1>11. FramesOf(path) \in Nat
  BY <1>2, <1>4
<1>12. path[i].frame \in 1 .. Len(frames)
  BY <1>3, <1>7, <1>8, <1>9, <1>11
<1>13. QED
  BY <1>7, <1>9, <1>10, <1>12

(* Only the name of the innermost object may still have to be written.     *)
LEMMA PendingWritten ==
    ASSUME TypeOK, Consistent, NEW f \in DOMAIN frames, Pends(f),
           ~At("produce") \/ f # Len(frames)
    PROVE  frames[f].pending < Len(buffer)
<1>1. TextOK /\ Framing /\ frames # <<>>
  BY LenProperties DEF TypeOK, Consistent
<1>2. /\ Len(frames) \in DOMAIN frames /\ Len(frames) \in Nat \ {0}
      /\ DOMAIN frames = 1 .. Len(frames) /\ TopFrame = frames[Len(frames)]
  BY <1>1, TopFrameAt
<1>3. Len(buffer) \in Nat
  BY <1>1, LenProperties DEF TextOK
<1>4. CASE f = Len(frames)
  BY <1>1, <1>2, <1>4 DEF Framing, FramesFit, Named, NamePending, Pends
<1>5. CASE f # Len(frames)
  <2>1. f < Len(frames)
    BY <1>2, <1>5
  <2>2. frames[f].pending < frames[Len(frames)].start
    BY <1>1, <1>2, <2>1 DEF Framing, FramesFit
  <2>3. frames[Len(frames)].start <= Len(buffer)
    BY <1>1, <1>2 DEF Framing, FramesFit
  <2>4. frames[f].pending \in Int /\ frames[Len(frames)].start \in Nat
    BY <1>1, <1>2, FrameTypes
  <2>5. QED
    BY <1>3, <2>2, <2>3, <2>4
<1>6. QED
  BY <1>4, <1>5

(* The members of a frame are on the open list, their spans in the buffer. *)
LEMMA MembersInBuffer ==
    ASSUME TypeOK, Consistent, NEW f \in DOMAIN frames
    PROVE  /\ frames[f].members \in Nat /\ MembersEnd(f) \in Nat
           /\ MembersEnd(f) <= Len(open_members)
           /\ Len(open_members) \in Nat /\ Len(buffer) \in Nat
           /\ \A i \in 1 .. Len(open_members) :
                 /\ open_members[i].start + 1 \in 1 .. Len(buffer)
                 /\ InBuffer(open_members[i]) /\ open_members[i].start < open_members[i].end
<1>1. TextOK /\ OpenedOK /\ Framing /\ Recorded
  BY DEF TypeOK, Consistent
<1>2. /\ Len(open_members) \in Nat /\ DOMAIN open_members = 1 .. Len(open_members)
      /\ Len(buffer) \in Nat /\ DOMAIN frames = 1 .. Len(frames) /\ Len(frames) \in Nat
  BY <1>1, LenProperties DEF TextOK, OpenedOK
<1>3. \A k \in DOMAIN frames : frames[k].members \in Nat
  BY <1>1, FrameTypes
<1>4. \A k \in DOMAIN frames : frames[k].members <= Len(open_members)
  BY <1>1 DEF Framing, FramesFit
<1>5. f < Len(frames) => f + 1 \in DOMAIN frames
  BY <1>2
<1>6. MembersEnd(f) \in Nat /\ MembersEnd(f) <= Len(open_members)
  BY <1>2, <1>3, <1>4, <1>5 DEF MembersEnd
<1>7. ASSUME NEW i \in 1 .. Len(open_members)
      PROVE  /\ open_members[i].start + 1 \in 1 .. Len(buffer)
             /\ InBuffer(open_members[i]) /\ open_members[i].start < open_members[i].end
  <2>1. open_members[i] \in Span
    BY <1>1, ElementOfSeq DEF OpenedOK
  <2>2. open_members[i].start \in Nat /\ open_members[i].end \in Nat
    BY <2>1, OffsetNat DEF Span
  <2>3. open_members[i].start < open_members[i].end /\ open_members[i].end <= Len(buffer)
    BY <1>1, <1>2 DEF Recorded, SpansFit
  <2>4. QED
    BY <1>2, <2>2, <2>3 DEF InBuffer
<1>8. QED
  BY <1>2, <1>3, <1>6, <1>7

(* What is kept of a frame, its members and the buffer keeps its names. *)
LEMMA NamesKept ==
    ASSUME TypeOK, Consistent, NEW l \in Level, l.frame \in DOMAIN frames,
           NamesFollowAt(l),
           frames'[l.frame] = frames[l.frame],
           MembersEnd(l.frame)' = MembersEnd(l.frame),
           \A i \in 1 .. MembersEnd(l.frame) : open_members'[i] = open_members[i],
           \A i \in 1 .. Len(buffer) : buffer'[i] = buffer[i],
           Len(buffer') \in Nat, Len(buffer') >= Len(buffer),
           Pends(l.frame) => frames[l.frame].pending < Len(buffer)
    PROVE  NamesFollowAt(l)'
<1> DEFINE f == l.frame
           start == frames[l.frame].members
<1>1. /\ start \in Nat /\ MembersEnd(f) \in Nat /\ MembersEnd(f) <= Len(open_members)
      /\ Len(open_members) \in Nat /\ Len(buffer) \in Nat
      /\ \A i \in 1 .. Len(open_members) : open_members[i].start + 1 \in 1 .. Len(buffer)
  BY MembersInBuffer
<1>2. Pends(f)' = Pends(f) /\ RecordedOf(l)' = RecordedOf(l)
  BY DEF Pends, RecordedOf
<1>3. RecordedOf(l) \in Int
  BY DEF RecordedOf, Level
<1>4. MembersEnd(f) = start + RecordedOf(l)
  BY DEF NamesFollowAt
<1>5. MembersEnd(f)' = frames'[f].members + RecordedOf(l)'
  BY <1>2, <1>4
<1>6. ASSUME NEW k \in 1 .. RecordedOf(l)
      PROVE  buffer'[open_members'[frames'[f].members + k].start + 1] = MemberName(l.tree, k)
  <2> HIDE DEF start, f
  <2>1. start + k \in 1 .. MembersEnd(f) /\ start + k \in 1 .. Len(open_members)
    BY <1>1, <1>3, <1>4
  <2> USE DEF start, f
  <2>2. open_members'[start + k] = open_members[start + k]
    BY <2>1
  <2>3. buffer'[open_members[start + k].start + 1] = buffer[open_members[start + k].start + 1]
    BY <1>1, <2>1
  <2>4. buffer[open_members[start + k].start + 1] = MemberName(l.tree, k)
    BY DEF NamesFollowAt
  <2>5. QED
    BY <2>2, <2>3, <2>4
<1>7. ASSUME Pends(f)
      PROVE  /\ l.taken > 0
             /\ frames'[f].pending < Len(buffer')
             /\ buffer'[frames'[f].pending + 1] = MemberName(l.tree, l.taken)
  <2>1. /\ l.taken > 0
        /\ buffer[frames[f].pending + 1] = MemberName(l.tree, l.taken)
    BY <1>7 DEF NamesFollowAt
  <2>2. frames[f].pending \in Nat
    BY <1>7, FrameTypes DEF Pends, TypeOK
  <2>3. frames[f].pending + 1 \in 1 .. Len(buffer)
    BY <1>1, <1>7, <2>2
  <2>4. QED
    BY <1>1, <1>7, <2>1, <2>2, <2>3
<1>8. QED
  BY <1>2, <1>5, <1>6, <1>7 DEF NamesFollowAt

-----------------------------------------------------------------------------
(* The steps of a running event. *)

LEMMA AheadAfter ==
    ASSUME ControlOK, todo # <<>>, todo' = Tail(todo)
    PROVE  /\ \A i \in DOMAIN todo' :
                 i + 1 \in DOMAIN todo /\ todo'[i] = todo[i + 1] /\ (i + 1 = Len(todo) => i = Len(todo'))
           /\ \A i \in DOMAIN todo : i # 1 => i - 1 \in DOMAIN todo' /\ todo'[i - 1] = todo[i]
           /\ 1 \in DOMAIN todo /\ Head(todo) = todo[1]
<1>1. todo \in Seq(Step)
  BY DEF ControlOK
<1>2. /\ Len(todo') = Len(todo) - 1 /\ Len(todo) \in Nat \ {0}
      /\ DOMAIN todo' = 1 .. Len(todo) - 1 /\ DOMAIN todo = 1 .. Len(todo)
      /\ \A i \in 1 .. Len(todo) - 1 : todo'[i] = todo[i + 1]
      /\ Head(todo) = todo[1]
  BY <1>1, TailElements
<1>3. QED
  BY <1>2

LEMMA AheadShrinks ==
    ASSUME ControlOK, todo # <<>>, todo' = Tail(todo), NEW op
    PROVE  /\ Ahead(op)' => Ahead(op)
           /\ Ahead(op) /\ Head(todo).op # op => Ahead(op)'
<1>1. Ahead(op)' => Ahead(op)
  BY AheadAfter DEF Ahead
<1>2. ASSUME Ahead(op), Head(todo).op # op
      PROVE  Ahead(op)'
  <2>1. PICK i \in DOMAIN todo : todo[i].op = op
    BY <1>2 DEF Ahead
  <2>2. i # 1
    BY <1>2, <2>1, AheadAfter
  <2>3. i - 1 \in DOMAIN todo' /\ todo'[i - 1] = todo[i]
    BY <2>2, AheadAfter
  <2>4. QED
    BY <2>1, <2>3 DEF Ahead
<1>3. QED
  BY <1>1, <1>2

LEMMA PlanShrinks ==
    ASSUME ControlOK, Planned(todo), todo # <<>>, todo' = Tail(todo), UNCHANGED driver,
           NEW path, PlanFollows(path)
    PROVE  PlanFollows(path)'
<1>1. UNCHANGED <<unstacked, work, value, tree, encoder>>
  BY DEF driver
<1>2. /\ ~Stacked => unstacked \in Trees /\ IsContainer(unstacked)
      /\ Ahead("push_open") => unstacked.node = "Array"
      /\ Ahead("push_frame") => unstacked.node = "Object"
      /\ \A i \in DOMAIN todo : todo[i].op = "push_open" =>
            i = Len(todo) /\ todo[i].open.kind = "Array"
      /\ Ahead("pop") => Ahead("after_value")
      /\ Ahead("after_value") => Stacked
      /\ Due(path) => Stacked /\ \A i \in DOMAIN todo : todo[i].op = "produce"
  BY DEF PlanFollows
<1>3. /\ Ahead("push_open")' => Ahead("push_open")
      /\ Ahead("push_frame")' => Ahead("push_frame")
      /\ Ahead("pop")' => Ahead("pop")
      /\ Ahead("after_value")' => Ahead("after_value")
  BY AheadShrinks
<1>4. Stacked' = Stacked
  BY <1>1 DEF Stacked
<1>5. ASSUME NEW i \in DOMAIN todo', todo'[i].op = "push_open"
      PROVE  i = Len(todo') /\ todo'[i].open.kind = "Array"
  BY <1>2, <1>5, AheadAfter
<1>6. Ahead("pop")' => Ahead("after_value")'
  <2>1. SUFFICES ASSUME Ahead("pop")'
                 PROVE  Ahead("after_value")'
    OBVIOUS
  <2>2. Ahead("after_value")
    BY <1>2, <1>3, <2>1
  <2>3. Head(todo).op # "after_value"
    <3>1. SUFFICES ASSUME Head(todo).op = "after_value" PROVE FALSE
      OBVIOUS
    <3>2. 1 = Len(todo)
      BY <3>1, AheadAfter DEF Planned
    <3>3. DOMAIN todo = 1 .. Len(todo)
      BY LenProperties DEF ControlOK
    <3>4. PICK i \in DOMAIN todo' : TRUE
      BY <2>1 DEF Ahead
    <3>5. i + 1 \in 1 .. 1 /\ i \in DOMAIN todo'
      BY <3>2, <3>3, <3>4, AheadAfter
    <3>6. todo' \in Seq(Step)
      BY HeadTailProperties DEF ControlOK
    <3>7. i \in Nat \ {0}
      BY <3>4, <3>6, LenProperties
    <3>8. QED
      BY <3>5, <3>7
  <2>4. QED
    BY <2>2, <2>3, AheadShrinks
<1>7. Due(path)' = Due(path)
  BY DEF Due, Bottom
<1>8. Due(path) => \A i \in DOMAIN todo' : todo'[i].op = "produce"
  BY <1>2, AheadAfter
<1>9. QED
  BY <1>1, <1>2, <1>3, <1>4, <1>5, <1>6, <1>7, <1>8 DEF PlanFollows

LEMMA SameWork ==
    ASSUME UNCHANGED <<driver, started>>, started, NEW path, WorkFollows(path)
    PROVE  WorkFollows(path)'
  BY DEF driver, WorkFollows, TasksFollow, TasksFollowAt, IteratorsFollow, IteratorAt

LEMMA SameLevels ==
    ASSUME NEW path, LevelsFit(path)
    PROVE  LevelsFit(path)' /\ FramesOf(path)' = FramesOf(path) /\ Due(path)' = Due(path)
  BY DEF LevelsFit, FrameAbove, FramesOf, Bottom, Due

LEMMA RunStarted ==
    ASSUME NEW path, WorkFollows(path), todo # <<>>
    PROVE  started
  BY DEF WorkFollows, Unbegun

(* A step that leaves containers, names and members alone, and runs        *)
(* neither a push nor a pop nor the record of a value.                     *)
LEMMA QuietStack ==
    ASSUME ControlOK, todo # <<>>, todo' = Tail(todo), Head(todo).op \in {"produce", "write_out"},
           UNCHANGED <<driver, stack, frames, open_members>>,
           NEW path, StackFollows(path), OpenedEmpty, PendingFollows(path)
    PROVE  StackFollows(path)' /\ OpenedEmpty' /\ PendingFollows(path)'
<1>1. /\ Ahead("push_open")' = Ahead("push_open")
      /\ Ahead("push_frame")' = Ahead("push_frame")
      /\ Ahead("pop")' = Ahead("pop") /\ Ahead("after_value")' = Ahead("after_value")
  BY AheadShrinks DEF Ahead
<1>2. Stacked' = Stacked /\ unstacked' = unstacked
  BY DEF driver, Stacked
<1>3. Opening' = Opening /\ Opened' = Opened
  BY <1>1, <1>2 DEF Opening, Opened
<1>4. FramesOf(path)' = FramesOf(path) /\ Due(path)' = Due(path)
  BY DEF FramesOf, Bottom, Due
<1>5. StackFollows(path)'
  BY <1>1, <1>2, <1>3, <1>4 DEF StackFollows, Extra, ObjectIn
<1>6. OpenedEmpty'
  BY <1>2, <1>3 DEF OpenedEmpty
<1>7. PendingFollows(path)'
  BY <1>1, <1>3, <1>4 DEF PendingFollows, Top, NamePending, TopFrame, Last
<1>8. QED
  BY <1>5, <1>6, <1>7

\* A place within a stretch that ends within a sequence is a place of the sequence.
LEMMA InStretch ==
    ASSUME NEW start \in Nat, NEW long \in Int, NEW end \in Nat, NEW size \in Nat,
           end = start + long, end <= size, NEW k \in 1 .. long
    PROVE  start + k \in 1 .. size
  OBVIOUS

LEMMA ProduceNames ==
    ASSUME TypeOK, TypeOK', Consistent, At("produce"), todo' = Tail(todo),
           UNCHANGED <<frames, open_members>>,
           frames # <<>> => buffer' = Append(buffer, Head(todo).byte),
           NEW l \in Level, l.frame \in DOMAIN frames, NamesFollowAt(l)
    PROVE  NamesFollowAt(l)'
<1> DEFINE f == l.frame
<1>1. /\ MembersEnd(f)' = MembersEnd(f) /\ frames'[f] = frames[f]
      /\ \A i \in 1 .. MembersEnd(f) : open_members'[i] = open_members[i]
  BY DEF MembersEnd
<1>2. frames # <<>> /\ buffer \in Seq(Byte) /\ buffer' = Append(buffer, Head(todo).byte)
  BY LenProperties DEF TypeOK, TextOK
<1>3. todo # <<>> /\ ControlOK /\ Head(todo) = todo[1]
  BY AheadAfter DEF At, TypeOK
<1>4. Head(todo).byte \in Byte
  <2>1. Head(todo) \in Step /\ Head(todo).op = "produce"
    BY <1>3, HeadTailProperties DEF At, ControlOK
  <2>2. QED
    BY <2>1 DEF Step, Produce, PushOpen, PushFrame, Pop, AfterValue, Walk, NoText
<1>5. /\ Len(buffer) \in Nat /\ Len(buffer') = Len(buffer) + 1
      /\ \A i \in 1 .. Len(buffer) : buffer'[i] = buffer[i]
      /\ buffer'[Len(buffer) + 1] = Head(todo).byte
  BY <1>2, <1>4, AppendProperties, LenProperties
<1>6. CASE Pends(f) => frames[f].pending < Len(buffer)
  BY <1>1, <1>5, <1>6, NamesKept
<1>7. CASE Pends(f) /\ ~(frames[f].pending < Len(buffer))
  <2>1. /\ l.taken > 0 /\ todo[1] = Produce(MemberName(l.tree, l.taken))
        /\ MembersEnd(f) = frames[f].members + RecordedOf(l)
    BY <1>7 DEF NamesFollowAt
  <2>2. Head(todo).byte = MemberName(l.tree, l.taken)
    BY <1>3, <2>1 DEF Produce
  <2>3. frames[f].pending = Len(buffer)
    <3>1. frames[f].pending <= Len(buffer) /\ frames[f].pending \in Int
      BY FrameTypes DEF Consistent, Framing, FramesFit, TypeOK
    <3>2. QED
      BY <1>5, <1>7, <3>1
  <2>4. Pends(f)' = Pends(f) /\ RecordedOf(l)' = RecordedOf(l)
    BY DEF Pends, RecordedOf
  <2>5. /\ frames[f].members \in Nat /\ MembersEnd(f) <= Len(open_members)
        /\ MembersEnd(f) \in Nat /\ Len(open_members) \in Nat
        /\ \A i \in 1 .. Len(open_members) : open_members[i].start + 1 \in 1 .. Len(buffer)
    BY MembersInBuffer
  <2>6. RecordedOf(l) \in Int
    BY DEF RecordedOf, Level
  <2>7. ASSUME NEW k \in 1 .. RecordedOf(l)
        PROVE  buffer'[open_members'[frames'[f].members + k].start + 1] = MemberName(l.tree, k)
    <3>1. frames[f].members + k \in 1 .. Len(open_members)
      BY <2>1, <2>5, <2>6, InStretch
    <3>2. buffer'[open_members[frames[f].members + k].start + 1]
            = buffer[open_members[frames[f].members + k].start + 1]
      BY <1>5, <2>5, <3>1
    <3>3. buffer[open_members[frames[f].members + k].start + 1] = MemberName(l.tree, k)
      BY DEF NamesFollowAt
    <3>4. QED
      BY <3>2, <3>3
  <2>8. frames'[f].pending < Len(buffer')
    BY <1>5, <2>3
  <2>9. buffer'[frames'[f].pending + 1] = MemberName(l.tree, l.taken)
    BY <1>5, <2>2, <2>3
  <2>10. MembersEnd(f)' = frames'[f].members + RecordedOf(l)'
    BY <1>1, <2>1, <2>4
  <2>11. QED
    BY <2>1, <2>4, <2>7, <2>8, <2>9, <2>10 DEF NamesFollowAt
<1>8. QED
  BY <1>6, <1>7

LEMMA ProduceFollows ==
    ASSUME TypeOK, TypeOK', Consistent, ~refused, ~refused', ProduceStep, UNCHANGED driver,
           NEW path \in Seq(Level), EncodingFollows(path)
    PROVE  EncodingFollows(path)'
<1>1. /\ At("produce") /\ todo # <<>> /\ Head(todo).op = "produce" /\ todo' = Tail(todo)
      /\ UNCHANGED <<frames, open_members, stack, started>>
      /\ frames # <<>> => buffer' = Append(buffer, Head(todo).byte)
  BY DEF ProduceStep, At, Proceed, Refuse, opened
<1>2. ControlOK /\ Planned(todo)
  BY DEF TypeOK, Consistent, Control
<1>3. /\ LevelsFit(path) /\ StackFollows(path) /\ OpenedEmpty /\ PlanFollows(path)
      /\ PendingFollows(path) /\ NamesFollow(path) /\ WorkFollows(path)
  BY DEF EncodingFollows
<1>4. StackFollows(path)' /\ OpenedEmpty' /\ PendingFollows(path)'
  BY <1>1, <1>2, <1>3, QuietStack
<1>5. PlanFollows(path)'
  BY <1>1, <1>2, <1>3, PlanShrinks
<1>6. WorkFollows(path)' /\ LevelsFit(path)'
  BY <1>1, <1>3, SameWork, SameLevels, RunStarted
<1>7. NamesFollow(path)'
  <2>1. SUFFICES ASSUME NEW i \in DOMAIN path, path[i].tree.node = "Object"
                 PROVE  NamesFollowAt(path[i])'
    BY DEF NamesFollow
  <2>2. path[i].frame \in DOMAIN frames /\ path[i] \in Level
    BY <1>3, <2>1, FramesBelow, LevelFacts
  <2>3. NamesFollowAt(path[i])
    BY <1>3, <2>1 DEF NamesFollow
  <2>4. QED
    BY <1>1, <2>2, <2>3, ProduceNames
<1>8. QED
  BY <1>4, <1>5, <1>6, <1>7 DEF EncodingFollows

LEMMA FramesCounted ==
    ASSUME NEW path \in Seq(Level), LevelsFit(path)
    PROVE  FramesOf(path) \in Nat
<1>1. CASE path = <<>>
  BY <1>1 DEF FramesOf
<1>2. CASE path # <<>>
  <2>1. Len(path) \in DOMAIN path
    BY <1>2, BottomOf
  <2>2. path[Len(path)].frame \in Nat
    BY <2>1, LevelFacts
  <2>3. QED
    BY <1>2, <2>2 DEF FramesOf, Bottom
<1>3. QED
  BY <1>1, <1>2

(* The stack unless a container was just opened. *)
PathOnStack(path) ==
    /\ Len(stack) = Len(path) + (IF Ahead("pop") THEN 1 ELSE 0)
    /\ \A i \in 1 .. Len(path) : stack[i].kind = path[i].tree.node
    /\ Len(frames) = FramesOf(path)

LEMMA Unopened ==
    ASSUME NEW path \in Seq(Level), LevelsFit(path)
    PROVE  /\ ~Opened => (StackFollows(path) <=> PathOnStack(path))
           /\ ~Opened' /\ PathOnStack(path)' => StackFollows(path)'
<1>1. FramesOf(path) \in Nat /\ DOMAIN path = 1 .. Len(path) /\ Len(path) \in Nat
  BY FramesCounted, LenProperties
<1>2. ~Opened => (StackFollows(path) <=>
        /\ Len(stack) = Len(path) + (IF Ahead("pop") THEN 1 ELSE 0)
        /\ \A i \in DOMAIN path : stack[i].kind = path[i].tree.node
        /\ Len(frames) = FramesOf(path) + 0)
  BY DEF StackFollows, Extra
<1>3. ~Opened => (StackFollows(path) <=> PathOnStack(path))
  BY <1>1, <1>2 DEF PathOnStack
<1>4. FramesOf(path)' = FramesOf(path)
  BY SameLevels
<1>5. ASSUME ~Opened', PathOnStack(path)'
      PROVE  StackFollows(path)'
  BY <1>1, <1>4, <1>5 DEF PathOnStack, StackFollows, Extra
<1>6. QED
  BY <1>3, <1>5

(* Names that the buffer has stay as long as it does not shrink. *)
LEMMA WrittenNames ==
    ASSUME TypeOK, Consistent, ~At("produce"), NEW path \in Seq(Level),
           LevelsFit(path), StackFollows(path), NamesFollow(path),
           UNCHANGED <<buffer, open_members>>,
           \A f \in DOMAIN frames : frames'[f] = frames[f] /\ MembersEnd(f)' = MembersEnd(f)
    PROVE  NamesFollow(path)'
<1>1. SUFFICES ASSUME NEW i \in DOMAIN path, path[i].tree.node = "Object"
               PROVE  NamesFollowAt(path[i])'
  BY DEF NamesFollow
<1>2. path[i].frame \in DOMAIN frames /\ path[i] \in Level
  BY <1>1, FramesBelow, LevelFacts
<1>3. NamesFollowAt(path[i])
  BY <1>1 DEF NamesFollow
<1>4. Pends(path[i].frame) => frames[path[i].frame].pending < Len(buffer)
  BY <1>2, PendingWritten
<1>5. Len(buffer) \in Nat
  BY LenProperties DEF TypeOK, TextOK
<1>6. QED
  BY <1>2, <1>3, <1>4, <1>5, NamesKept

LEMMA PushOpenFollows ==
    ASSUME TypeOK, TypeOK', Consistent, ~refused, ~refused', PushOpenStep, UNCHANGED driver,
           NEW path \in Seq(Level), EncodingFollows(path)
    PROVE  EncodingFollows(path)'
<1>1. /\ At("push_open") /\ todo # <<>> /\ Head(todo).op = "push_open" /\ todo' = Tail(todo)
      /\ UNCHANGED <<frames, buffer, open_members, started>>
      /\ stack' = Append(stack, Head(todo).open)
  BY DEF PushOpenStep, At, Proceed, Refuse, opened, text
<1>2. ControlOK /\ Planned(todo) /\ Len(todo) \in Nat /\ stack \in Seq(Open)
  BY LenProperties DEF TypeOK, Consistent, Control, ControlOK, StackOK
<1>3. /\ LevelsFit(path) /\ StackFollows(path) /\ OpenedEmpty /\ PlanFollows(path)
      /\ PendingFollows(path) /\ NamesFollow(path) /\ WorkFollows(path)
  BY DEF EncodingFollows
<1>4. PlanFollows(path)'
  BY <1>1, <1>2, <1>3, PlanShrinks
<1>5. WorkFollows(path)' /\ LevelsFit(path)'
  BY <1>1, <1>3, SameWork, SameLevels, RunStarted
<1>6. NamesFollow(path)'
  <2>1. ~At("produce")
    BY <1>1 DEF At
  <2>2. \A f \in DOMAIN frames : frames'[f] = frames[f] /\ MembersEnd(f)' = MembersEnd(f)
    BY <1>1 DEF MembersEnd
  <2>3. QED
    BY <1>1, <1>3, <2>1, <2>2, WrittenNames
<1>7. /\ 1 \in DOMAIN todo /\ Head(todo) = todo[1] /\ Len(todo) = 1
      /\ Head(todo).open.kind = "Array"
  BY <1>1, <1>2, <1>3, AheadAfter DEF PlanFollows
<1>8. todo' = <<>>
  <2>1. todo' \in Seq(Step) /\ Len(todo') = 0
    BY <1>1, <1>2, <1>7, TailElements DEF ControlOK
  <2>2. QED
    BY <2>1, EmptySeq
<1>9. /\ Ahead("push_open") /\ unstacked.node = "Array" /\ ~Stacked
      /\ unstacked \in Trees
  <2>1. Ahead("push_open")
    BY <1>1, <1>7 DEF Ahead
  <2>2. unstacked.node = "Array"
    BY <1>3, <2>1 DEF PlanFollows
  <2>3. ~Stacked
    BY <2>2 DEF Stacked, Nothing
  <2>4. QED
    BY <1>3, <2>1, <2>2, <2>3 DEF PlanFollows
<1>10. ~Opened /\ ~Ahead("pop")
  BY <1>3, <1>9 DEF Opened, Opening, PlanFollows
<1>11. unstacked' = unstacked /\ Stacked' = Stacked
  BY DEF driver, Stacked
<1>12. Opened' /\ ~Ahead("pop")' /\ ~Opening'
  BY <1>8, <1>9, <1>11 DEF Opened, Opening, Ahead
<1>13. FramesOf(path)' = FramesOf(path) /\ Due(path)' = Due(path)
  BY <1>3, SameLevels
<1>14. /\ Len(stack) = Len(path) /\ DOMAIN path = 1 .. Len(path) /\ Len(path) \in Nat
       /\ Len(frames) = FramesOf(path)
       /\ \A i \in DOMAIN path : stack[i].kind = path[i].tree.node
  BY <1>3, <1>10, Unopened, LenProperties DEF PathOnStack
<1>15. /\ Len(stack') = Len(path) + 1 /\ stack'[Len(path) + 1] = Head(todo).open
       /\ \A i \in 1 .. Len(path) : stack'[i] = stack[i]
  <2>1. Head(todo).open \in Open
    BY <1>1, <1>7, HeadTailProperties, <1>2 DEF ControlOK, Step, Produce, PushOpen, PushFrame,
       Pop, AfterValue, Walk, NoText
  <2>2. QED
    BY <1>1, <1>2, <1>14, <2>1, AppendProperties
<1>16. StackFollows(path)'
  BY <1>1, <1>7, <1>9, <1>11, <1>12, <1>13, <1>14, <1>15 DEF StackFollows, Extra, ObjectIn
<1>17. OpenedEmpty'
  BY <1>9, <1>11 DEF OpenedEmpty
<1>18. PendingFollows(path)'
  <2>1. ~Top("Object")'
    BY <1>7, <1>14, <1>15 DEF Top, Last
  <2>2. QED
    BY <2>1 DEF PendingFollows
<1>19. QED
  BY <1>4, <1>5, <1>6, <1>16, <1>17, <1>18 DEF EncodingFollows

LEMMA PopFollows ==
    ASSUME TypeOK, TypeOK', Consistent, ~refused, ~refused', PopStep, UNCHANGED driver,
           NEW path \in Seq(Level), EncodingFollows(path)
    PROVE  EncodingFollows(path)'
<1>1. /\ At("pop") /\ todo # <<>> /\ Head(todo).op = "pop" /\ todo' = Tail(todo)
      /\ UNCHANGED <<frames, buffer, open_members, started>>
      /\ stack' = Front(stack)
  BY DEF PopStep, At, Proceed, opened, text
<1>2. ControlOK /\ Planned(todo) /\ stack \in Seq(Open)
  BY DEF TypeOK, Consistent, Control, StackOK
<1>3. /\ LevelsFit(path) /\ StackFollows(path) /\ OpenedEmpty /\ PlanFollows(path)
      /\ PendingFollows(path) /\ NamesFollow(path) /\ WorkFollows(path)
  BY DEF EncodingFollows
<1>4. PlanFollows(path)'
  BY <1>1, <1>2, <1>3, PlanShrinks
<1>5. WorkFollows(path)' /\ LevelsFit(path)'
  BY <1>1, <1>3, SameWork, SameLevels, RunStarted
<1>6. NamesFollow(path)'
  <2>1. ~At("produce")
    BY <1>1 DEF At
  <2>2. \A f \in DOMAIN frames : frames'[f] = frames[f] /\ MembersEnd(f)' = MembersEnd(f)
    BY <1>1 DEF MembersEnd
  <2>3. QED
    BY <1>1, <1>3, <2>1, <2>2, WrittenNames
<1>7. /\ 1 \in DOMAIN todo /\ Head(todo) = todo[1] /\ Ahead("pop")
  BY <1>1, <1>2, AheadAfter DEF Ahead
<1>8. Stacked /\ Stacked' /\ unstacked' = unstacked /\ Ahead("after_value")
  BY <1>3, <1>7 DEF PlanFollows, driver, Stacked
<1>9. Ahead("after_value")'
  BY <1>1, <1>2, <1>8, AheadShrinks
<1>10. ~Ahead("pop")'
  <2>1. SUFFICES ASSUME NEW i \in DOMAIN todo', todo'[i].op = "pop"
                 PROVE  FALSE
    BY DEF Ahead
  <2>2. i + 1 \in DOMAIN todo /\ todo[i + 1].op = "pop"
    BY <1>1, <1>2, <2>1, AheadAfter
  <2>3. todo' \in Seq(Step)
    BY DEF TypeOK, ControlOK
  <2>4. i \in Nat \ {0}
    BY <2>1, <2>3, LenProperties
  <2>5. \A j \in 1 .. (i + 1) - 1 : todo[j].op = "produce"
    BY <1>2, <2>2 DEF Planned
  <2>6. todo[1].op = "produce"
    BY <2>4, <2>5
  <2>7. QED
    BY <1>1, <1>7, <2>6
<1>11. ~Opened /\ ~Opened'
  BY <1>8 DEF Opened
<1>12. FramesOf(path)' = FramesOf(path) /\ Due(path)' = Due(path)
  BY <1>3, SameLevels
<1>13. /\ Len(stack) = Len(path) + 1 /\ DOMAIN path = 1 .. Len(path) /\ Len(path) \in Nat
       /\ Len(frames) = FramesOf(path)
       /\ \A i \in DOMAIN path : stack[i].kind = path[i].tree.node
  BY <1>3, <1>7, <1>11, Unopened, LenProperties DEF PathOnStack
<1>14. /\ Len(stack') = Len(path)
       /\ \A i \in 1 .. Len(path) : stack'[i] = stack[i]
  <2>1. stack # <<>>
    BY <1>13, EmptySeq
  <2>2. /\ Len(Front(stack)) = Len(stack) - 1
        /\ \A i \in 1 .. Len(stack) - 1 : Front(stack)[i] = stack[i]
    BY <1>2, <2>1, FrontLast
  <2>3. QED
    BY <1>1, <1>13, <2>2
<1>15. StackFollows(path)'
  <2>1. PathOnStack(path)'
    BY <1>1, <1>10, <1>12, <1>13, <1>14 DEF PathOnStack
  <2>2. QED
    BY <1>3, <1>11, <2>1, Unopened
<1>16. OpenedEmpty'
  BY <1>11 DEF OpenedEmpty
<1>17. PendingFollows(path)'
  <2>1. ~Due(path)
    BY <1>1, <1>3, <1>7 DEF PlanFollows
  <2>2. QED
    BY <1>9, <1>12, <2>1 DEF PendingFollows
<1>18. QED
  BY <1>4, <1>5, <1>6, <1>15, <1>16, <1>17 DEF EncodingFollows

LEMMA LastStep ==
    ASSUME ControlOK, Planned(todo), todo # <<>>, todo' = Tail(todo),
           Head(todo).op \in {"push_frame", "after_value"}
    PROVE  todo' = <<>> /\ \A op : Ahead(op) => op = Head(todo).op
<1>1. 1 \in DOMAIN todo /\ Head(todo) = todo[1]
  BY AheadAfter
<1>2. Len(todo) = 1
  BY <1>1 DEF Planned
<1>3. todo' \in Seq(Step) /\ Len(todo') = 0 /\ DOMAIN todo = 1 .. Len(todo)
  BY <1>2, TailElements DEF ControlOK
<1>4. todo' = <<>>
  BY <1>3, EmptySeq
<1>5. \A i \in DOMAIN todo : i = 1
  BY <1>2, <1>3
<1>6. QED
  BY <1>1, <1>4, <1>5 DEF Ahead

LEMMA PushFrameFollows ==
    ASSUME TypeOK, TypeOK', Consistent, ~refused, ~refused', PushFrameStep, UNCHANGED driver,
           NEW path \in Seq(Level), EncodingFollows(path)
    PROVE  EncodingFollows(path)'
<1> DEFINE frame == [start |-> Len(buffer), members |-> Len(open_members),
                     children |-> Len(open_children), pending |-> NoOffset]
           n == Len(frames)
<1>1. /\ At("push_frame") /\ todo # <<>> /\ Head(todo).op = "push_frame" /\ todo' = Tail(todo)
      /\ UNCHANGED <<buffer, open_members, started>>
      /\ stack' = Append(stack, Object) /\ frames' = Append(frames, frame)
  BY DEF PushFrameStep, At, Proceed, Refuse, opened
<1>2. /\ ControlOK /\ Planned(todo) /\ stack \in Seq(Open) /\ n \in Nat
      /\ frames \in Seq(Frame) /\ frames' \in Seq(Frame) /\ DOMAIN frames = 1 .. n
  BY LenProperties DEF TypeOK, TextOK, Consistent, Control, StackOK
<1>3. /\ LevelsFit(path) /\ StackFollows(path) /\ OpenedEmpty /\ PlanFollows(path)
      /\ PendingFollows(path) /\ NamesFollow(path) /\ WorkFollows(path)
  BY DEF EncodingFollows
<1>4. PlanFollows(path)'
  BY <1>1, <1>2, <1>3, PlanShrinks
<1>5. WorkFollows(path)' /\ LevelsFit(path)'
  BY <1>1, <1>3, SameWork, SameLevels, RunStarted
<1> HIDE DEF frame
<1>6. /\ Len(frames') = n + 1 /\ frames'[n + 1] = frame
      /\ \A f \in 1 .. n : frames'[f] = frames[f]
  <2>1. /\ Len(buffer) \in Offset /\ Len(open_members) \in Offset
        /\ Len(open_children) \in Offset
    <3>1. ~OffsetTooLarge
      BY DEF PushFrameStep, Refuse
    <3>2. QED
      BY <3>1, Lengths, BoundsAssumption
         DEF OffsetTooLarge, Offset, Consistent, Counting, IndexesFit
  <2>2. frame \in Frame
    BY <2>1 DEF Frame, frame
  <2>3. QED
    BY <1>1, <1>2, <2>2, AppendProperties
<1>7. NamesFollow(path)'
  <2>1. ~At("produce")
    BY <1>1 DEF At
  <2>2. \A f \in DOMAIN frames : frames'[f] = frames[f] /\ MembersEnd(f)' = MembersEnd(f)
    BY <1>1, <1>2, <1>6 DEF MembersEnd, frame
  <2>3. QED
    BY <1>1, <1>3, <2>1, <2>2, WrittenNames
<1>8. todo' = <<>> /\ Ahead("push_frame") /\ ~Ahead("pop")
  <2>1. Ahead("push_frame")
    BY <1>1, <1>2, AheadAfter DEF Ahead
  <2>2. QED
    BY <1>1, <1>2, <2>1, LastStep
<1>9. unstacked.node = "Object" /\ ~Stacked /\ unstacked \in Trees
  <2>1. unstacked.node = "Object"
    BY <1>3, <1>8 DEF PlanFollows
  <2>2. ~Stacked
    BY <2>1 DEF Stacked, Nothing
  <2>3. QED
    BY <1>3, <2>1, <2>2 DEF PlanFollows
<1>10. ~Opened
  BY <1>8 DEF Opened, Opening
<1>11. unstacked' = unstacked /\ Stacked' = Stacked
  BY DEF driver, Stacked
<1>12. Opened' /\ ~Ahead("pop")' /\ ~Opening'
  BY <1>8, <1>9, <1>11 DEF Opened, Opening, Ahead
<1>13. FramesOf(path)' = FramesOf(path) /\ Due(path)' = Due(path)
  BY <1>3, SameLevels
<1>14. /\ Len(stack) = Len(path) /\ DOMAIN path = 1 .. Len(path) /\ Len(path) \in Nat
       /\ n = FramesOf(path)
       /\ \A i \in DOMAIN path : stack[i].kind = path[i].tree.node
  BY <1>3, <1>8, <1>10, Unopened, LenProperties DEF PathOnStack
<1>15. /\ Len(stack') = Len(path) + 1 /\ stack'[Len(path) + 1] = Object
       /\ \A i \in 1 .. Len(path) : stack'[i] = stack[i]
  <2>1. Object \in Open
    BY DEF Open
  <2>2. QED
    BY <1>1, <1>2, <1>14, <2>1, AppendProperties
<1>16. Object.kind = "Object"
  BY DEF Object
<1>17. StackFollows(path)'
  BY <1>6, <1>9, <1>11, <1>12, <1>13, <1>14, <1>15, <1>16 DEF StackFollows, Extra, ObjectIn
<1>18. OpenedEmpty'
  BY <1>1, <1>6 DEF OpenedEmpty, frame
<1>19. PendingFollows(path)'
  <2>1. ~NamePending'
    BY <1>6 DEF NamePending, TopFrame, Last, frame
  <2>2. ~Due(path)
    BY <1>3, <1>9 DEF PlanFollows
  <2>3. QED
    BY <1>13, <2>1, <2>2 DEF PendingFollows
<1>20. QED
  BY <1>4, <1>5, <1>7, <1>17, <1>18, <1>19 DEF EncodingFollows

(* The member whose value is complete is recorded under its name. *)
LEMMA MemberRecorded ==
    ASSUME TypeOK, TypeOK', Consistent, ~At("produce"), NEW l \in Level,
           l.frame = Len(frames), l.frame \in DOMAIN frames, NamesFollowAt(l), NamePending,
           frames' = [frames EXCEPT ![Len(frames)].pending = NoOffset],
           open_members' = Append(open_members,
                               [start |-> TopFrame.pending, end |-> Len(buffer)]),
           buffer' = buffer
    PROVE  NamesFollowAt(l)'
<1> DEFINE f == l.frame
           m == Len(open_members)
           start == frames[l.frame].members
           pending == frames[l.frame].pending
           span == [start |-> pending, end |-> Len(buffer)]
<1>1. TopFrame = frames[f] /\ Pends(f) /\ pending < Len(buffer)
  <2>1. TextOK /\ frames # <<>>
    BY DEF TypeOK, NamePending
  <2>2. TopFrame = frames[f]
    BY <2>1, TopFrameAt
  <2>3. Pends(f)
    BY <2>2 DEF NamePending, Pends
  <2>4. QED
    BY <2>2, <2>3, PendingWritten
<1>2. /\ l.taken > 0 /\ MembersEnd(f) = start + RecordedOf(l)
      /\ buffer[pending + 1] = MemberName(l.tree, l.taken)
      /\ RecordedOf(l) = l.taken - 1 /\ l.taken \in Nat
  BY <1>1 DEF NamesFollowAt, RecordedOf, Level
<1>3. /\ start \in Nat /\ MembersEnd(f) = m /\ m \in Nat /\ Len(buffer) \in Nat
  BY MembersInBuffer DEF MembersEnd
<1>4. pending \in Nat /\ frames[f] \in Frame
  BY <1>1, FrameTypes DEF Pends, TypeOK
<1>5. span \in Span
  <2>1. pending \in Offset
    BY <1>1, <1>4 DEF Frame, Pends
  <2>2. Len(buffer) \in Offset
    <3>1. open_members' \in Seq(Span) /\ open_members \in Seq(Span)
      BY DEF TypeOK, OpenedOK
    <3>2. open_members' = Append(open_members, span)
      BY <1>1
    <3>3. open_members'[m + 1] = span
      BY <3>1, <3>2
    <3>4. m + 1 \in DOMAIN open_members'
      BY <1>3, <3>1, <3>2
    <3>5. open_members'[m + 1] \in Span
      BY <3>1, <3>4, ElementOfSeq
    <3>6. QED
      BY <3>3, <3>5 DEF Span
  <2>3. QED
    BY <2>1, <2>2 DEF Span
<1>6. /\ Len(open_members') = m + 1 /\ open_members'[m + 1].start = pending
      /\ \A i \in 1 .. m : open_members'[i] = open_members[i]
  <2>1. open_members \in Seq(Span) /\ open_members' = Append(open_members, span)
    BY <1>1 DEF TypeOK, OpenedOK
  <2>2. /\ Len(open_members') = m + 1 /\ open_members'[m + 1] = span
        /\ \A i \in 1 .. m : open_members'[i] = open_members[i]
    BY <1>5, <2>1, AppendProperties
  <2>3. QED
    BY <2>2
<1>7. /\ Len(frames') = Len(frames) /\ frames'[f].members = start
      /\ frames'[f].pending = NoOffset
  BY PendingFrames DEF TypeOK, NamePending
<1>8. ~Pends(f)' /\ RecordedOf(l)' = l.taken /\ MembersEnd(f)' = m + 1
  <2>1. Len(frames) \in Nat /\ ~(f < Len(frames'))
    BY <1>7, LenProperties DEF TypeOK, TextOK
  <2>2. ~Pends(f)' /\ MembersEnd(f)' = m + 1
    BY <1>6, <1>7, <2>1 DEF Pends, MembersEnd
  <2>3. QED
    BY <2>2 DEF RecordedOf
<1> HIDE DEF f, start, m
<1>9. ASSUME NEW k \in 1 .. l.taken
      PROVE  buffer[open_members'[start + k].start + 1] = MemberName(l.tree, k)
  <2>1. CASE k = l.taken
    <3>1. start + k = m + 1
      BY <1>2, <1>3, <2>1
    <3>2. QED
      BY <1>2, <1>6, <2>1, <3>1
  <2>2. CASE k # l.taken
    <3>1. k \in 1 .. RecordedOf(l) /\ start + k \in 1 .. m
      BY <1>2, <1>3, <2>2
    <3>2. buffer[open_members[start + k].start + 1] = MemberName(l.tree, k)
      BY <3>1 DEF NamesFollowAt, start
    <3>3. QED
      BY <1>6, <3>1, <3>2
  <2>3. QED
    BY <2>1, <2>2
<1>10. MembersEnd(f)' = frames'[f].members + RecordedOf(l)'
  BY <1>2, <1>3, <1>7, <1>8
<1>11. QED
  BY <1>7, <1>8, <1>9, <1>10 DEF NamesFollowAt, f

LEMMA AfterValueFollows ==
    ASSUME TypeOK, TypeOK', Consistent, ~refused, ~refused', AfterValueStep, UNCHANGED driver,
           NEW path \in Seq(Level), EncodingFollows(path)
    PROVE  EncodingFollows(path)'
<1>1. /\ At("after_value") /\ todo # <<>> /\ Head(todo).op = "after_value"
      /\ todo' = Tail(todo) /\ UNCHANGED <<buffer, stack, started>>
  BY DEF AfterValueStep, At, Proceed, Refuse
<1>2. /\ ControlOK /\ Planned(todo) /\ TextOK
  BY DEF TypeOK, Consistent, Control
<1>3. /\ LevelsFit(path) /\ StackFollows(path) /\ OpenedEmpty /\ PlanFollows(path)
      /\ PendingFollows(path) /\ NamesFollow(path) /\ WorkFollows(path)
  BY DEF EncodingFollows
<1>4. PlanFollows(path)'
  BY <1>1, <1>2, <1>3, PlanShrinks
<1>5. WorkFollows(path)' /\ LevelsFit(path)'
  BY <1>1, <1>3, SameWork, SameLevels, RunStarted
<1>6. todo' = <<>> /\ Ahead("after_value") /\ ~Ahead("pop") /\ ~Ahead("pop")'
  <2>1. Ahead("after_value")
    BY <1>1, <1>2, AheadAfter DEF Ahead
  <2>2. todo' = <<>> /\ ~Ahead("pop")
    BY <1>1, <1>2, LastStep
  <2>3. QED
    BY <2>1, <2>2 DEF Ahead
<1>7. Stacked /\ ~Opened /\ ~Opened' /\ ~Due(path)
  <2>1. Stacked
    BY <1>3, <1>6 DEF PlanFollows
  <2>2. ~Due(path)
    BY <1>3, <1>6 DEF PlanFollows, Ahead
  <2>3. QED
    BY <2>1, <2>2 DEF Opened, Stacked, driver
<1>8. FramesOf(path)' = FramesOf(path) /\ Due(path)' = Due(path)
  BY <1>3, SameLevels
<1>9. PathOnStack(path) /\ Len(frames') = Len(frames)
  <2>1. PathOnStack(path)
    BY <1>3, <1>7, Unopened
  <2>2. CASE ~Top("Object")
    BY <2>1, <2>2 DEF AfterValueStep
  <2>3. CASE Top("Object")
    <3>1. /\ NamePending
          /\ frames' = [frames EXCEPT ![Len(frames)].pending = NoOffset]
      BY <2>3 DEF AfterValueStep, Refuse
    <3>2. QED
      BY <1>2, <2>1, <3>1, PendingFrames DEF NamePending
  <2>4. QED
    BY <2>2, <2>3
<1>10. StackFollows(path)'
  <2>1. PathOnStack(path)'
    BY <1>1, <1>6, <1>8, <1>9 DEF PathOnStack
  <2>2. QED
    BY <1>3, <1>7, <2>1, Unopened
<1>11. OpenedEmpty'
  BY <1>7 DEF OpenedEmpty
<1>12. CASE ~Top("Object")
  <2>1. UNCHANGED <<frames, open_members>>
    BY <1>12 DEF AfterValueStep
  <2>2. ~Top("Object")'
    BY <1>1, <1>12 DEF Top, Last
  <2>3. PendingFollows(path)'
    BY <2>2 DEF PendingFollows
  <2>4. NamesFollow(path)'
    <3>1. ~At("produce")
      BY <1>1 DEF At
    <3>2. \A f \in DOMAIN frames : frames'[f] = frames[f] /\ MembersEnd(f)' = MembersEnd(f)
      BY <2>1 DEF MembersEnd
    <3>3. QED
      BY <1>1, <1>3, <2>1, <3>1, <3>2, WrittenNames
  <2>5. QED
    BY <1>4, <1>5, <1>10, <1>11, <2>3, <2>4 DEF EncodingFollows
<1>13. CASE Top("Object")
  <2>1. /\ NamePending
        /\ frames' = [frames EXCEPT ![Len(frames)].pending = NoOffset]
        /\ open_members' = Append(open_members,
                               [start |-> TopFrame.pending, end |-> Len(buffer)])
    BY <1>13 DEF AfterValueStep, Refuse
  <2>2. /\ frames # <<>> /\ TopFrame = frames[Len(frames)] /\ Len(frames) \in DOMAIN frames
        /\ Len(frames) \in Nat \ {0} /\ DOMAIN frames = 1 .. Len(frames)
        /\ frames[Len(frames)] \in Frame
    <3>1. frames # <<>>
      BY <2>1 DEF NamePending
    <3>2. QED
      BY <1>2, <3>1, TopFrameAt, FrameTypes
  <2>3. PendingFollows(path)'
    <3>1. frames'[Len(frames')].pending = NoOffset
      BY <1>9, <2>1, <2>2 DEF Frame
    <3>2. ~NamePending'
      BY <3>1 DEF NamePending, TopFrame, Last
    <3>3. QED
      BY <1>7, <1>8, <3>2 DEF PendingFollows
  <2>4. path # <<>> /\ Bottom(path).tree.node = "Object" /\ FramesOf(path) = Len(frames)
    <3>1. stack # <<>> /\ stack[Len(stack)].kind = "Object" /\ stack \in Seq(Open)
      BY <1>13 DEF Top, Last, TypeOK, StackOK
    <3>2. Len(stack) \in Nat \ {0} /\ Len(path) \in Nat
      BY <3>1, LenProperties, EmptySeq
    <3>3. Len(stack) = Len(path) /\ path # <<>>
      BY <1>6, <1>9, <3>2 DEF PathOnStack
    <3>4. Bottom(path).tree.node = "Object"
      BY <1>9, <3>1, <3>2, <3>3 DEF PathOnStack, Bottom
    <3>5. QED
      BY <1>9, <3>3, <3>4 DEF PathOnStack
  <2>5. ASSUME NEW i \in DOMAIN path, path[i].tree.node = "Object"
        PROVE  NamesFollowAt(path[i])'
    <3>1. path[i] \in Level /\ path[i].frame \in DOMAIN frames /\ NamesFollowAt(path[i])
      BY <1>3, <2>5, LevelFacts, FramesBelow DEF NamesFollow
    <3>2. ~At("produce")
      BY <1>1 DEF At
    <3>3. CASE i = Len(path)
      <4>1. path[i].frame = Len(frames)
        BY <2>4, <3>3 DEF FramesOf, Bottom
      <4>2. QED
        BY <1>1, <2>1, <3>1, <3>2, <4>1, MemberRecorded
    <3>4. CASE i # Len(path)
      <4>1. path[i].frame < Len(frames) /\ path[i].frame \in 1 .. Len(frames)
        BY <1>3, <2>4, <2>5, <3>4, FramesBelow
      <4>2. frames'[path[i].frame] = frames[path[i].frame]
        BY <2>1, <2>2, <4>1
      <4>3. frames'[path[i].frame + 1].members = frames[path[i].frame + 1].members
        <5>1. path[i].frame + 1 \in DOMAIN frames
          BY <2>2, <4>1
        <5>2. QED
          BY <2>1, <2>2, <5>1 DEF Frame
      <4>4. MembersEnd(path[i].frame)' = MembersEnd(path[i].frame)
        BY <1>9, <4>1, <4>3 DEF MembersEnd
      <4>5. \A k \in 1 .. MembersEnd(path[i].frame) : open_members'[k] = open_members[k]
        <5>1. open_members \in Seq(Span) /\ open_members' \in Seq(Span)
          BY DEF TypeOK, OpenedOK
        <5>2. MembersEnd(path[i].frame) <= Len(open_members) /\ Len(open_members) \in Nat
          BY <3>1, MembersInBuffer
        <5>3. \A k \in 1 .. Len(open_members) : open_members'[k] = open_members[k]
          BY <2>1, <5>1
        <5>4. MembersEnd(path[i].frame) \in Nat
          BY <3>1, MembersInBuffer
        <5>5. QED
          BY <5>2, <5>3, <5>4
      <4>6. Pends(path[i].frame) => frames[path[i].frame].pending < Len(buffer)
        BY <3>1, <3>2, PendingWritten
      <4>7. Len(buffer') \in Nat /\ Len(buffer') >= Len(buffer)
        BY <1>1, <1>2, LenProperties DEF TextOK
      <4>8. QED
        BY <1>1, <3>1, <4>2, <4>4, <4>5, <4>6, <4>7, NamesKept
    <3>5. QED
      BY <3>3, <3>4
  <2>6. QED
    BY <1>4, <1>5, <1>10, <1>11, <2>3, <2>5 DEF EncodingFollows, NamesFollow
<1>14. QED
  BY <1>12, <1>13

LEMMA Unmoved ==
    ASSUME UNCHANGED <<stack, frames, buffer, open_members, todo, started, driver>>,
           NEW path, EncodingFollows(path)
    PROVE  EncodingFollows(path)'
<1>1. /\ UNCHANGED <<unstacked, work, value, tree, encoder>>
      /\ UNCHANGED <<stack, frames, buffer, open_members, todo, started>>
  BY DEF driver
<1>2. LevelsFit(path)' = LevelsFit(path)
  BY DEF LevelsFit, FrameAbove
<1>3. /\ Due(path)' = Due(path) /\ FramesOf(path)' = FramesOf(path)
      /\ Stacked' = Stacked /\ Opening' = Opening /\ Opened' = Opened
      /\ \A op : Ahead(op)' = Ahead(op)
  BY <1>1 DEF Due, FramesOf, Bottom, Stacked, Opening, Opened, Ahead
<1>4. StackFollows(path)' = StackFollows(path) /\ OpenedEmpty' = OpenedEmpty
  BY <1>1, <1>3 DEF StackFollows, Extra, ObjectIn, OpenedEmpty
<1>5. PlanFollows(path)' = PlanFollows(path)
  BY <1>1, <1>3 DEF PlanFollows
<1>6. PendingFollows(path)' = PendingFollows(path)
  BY <1>1, <1>3 DEF PendingFollows, Top, NamePending, TopFrame, Last
<1>7. NamesFollow(path)' = NamesFollow(path)
  BY <1>1 DEF NamesFollow, NamesFollowAt, MembersEnd, RecordedOf, Pends
<1>8. WorkFollows(path)' = WorkFollows(path)
  BY <1>1, <1>3 DEF WorkFollows, Unbegun, TasksFollow, TasksFollowAt, LevelTop,
     IteratorsFollow, IteratorAt
<1>9. QED
  BY <1>2, <1>4, <1>5, <1>6, <1>7, <1>8 DEF EncodingFollows

LEMMA WalkFollows ==
    ASSUME TypeOK, TypeOK', Consistent, ~refused, ~refused',
           WalkBytes \/ WalkBody \/ WalkMember \/ WalkDone, UNCHANGED driver,
           NEW path \in Seq(Level), EncodingFollows(path)
    PROVE  EncodingFollows(path)'
<1>1. CASE WalkBytes \/ WalkBody \/ WalkMember
  <2>1. UNCHANGED <<stack, frames, buffer, open_members, todo, started>>
    <3>1. WalkBytes => UNCHANGED <<text, opened, control, stack, started>>
      BY DEF WalkBytes, RefuseWalk, Refuse
    <3>2. WalkBody => UNCHANGED <<text, opened, control, stack, started>>
      BY DEF WalkBody, RefuseWalk, Refuse
    <3>3. WalkMember => UNCHANGED <<text, opened, control, stack, started>>
      BY DEF WalkMember, RefuseWalk, Refuse
    <3>4. QED
      BY <1>1, <3>1, <3>2, <3>3 DEF text, opened, control
  <2>2. QED
    BY <2>1, Unmoved
<1>2. CASE WalkDone
  <2>1. /\ todo # <<>> /\ Head(todo).op = "write_out" /\ todo' = Tail(todo)
        /\ UNCHANGED <<frames, open_members, stack, started>>
    BY <1>2 DEF WalkDone, At, Proceed, opened
  <2>2. ControlOK /\ Planned(todo)
    BY DEF TypeOK, Consistent, Control
  <2>3. /\ LevelsFit(path) /\ StackFollows(path) /\ OpenedEmpty /\ PlanFollows(path)
        /\ PendingFollows(path) /\ NamesFollow(path) /\ WorkFollows(path)
    BY DEF EncodingFollows
  <2>4. StackFollows(path)' /\ OpenedEmpty' /\ PendingFollows(path)'
    BY <2>1, <2>2, <2>3, QuietStack
  <2>5. PlanFollows(path)'
    BY <2>1, <2>2, <2>3, PlanShrinks
  <2>6. WorkFollows(path)' /\ LevelsFit(path)'
    BY <2>1, <2>3, SameWork, SameLevels, RunStarted
  <2>7. frames = <<>>
    <3>1. Ahead("write_out")
      BY <2>1, <2>2, AheadAfter DEF Ahead
    <3>2. QED
      BY <3>1 DEF Consistent, Holding, WalkAlone
  <2>8. NamesFollow(path)'
    <3>1. SUFFICES ASSUME NEW i \in DOMAIN path, path[i].tree.node = "Object"
                   PROVE  FALSE
      BY DEF NamesFollow
    <3>2. path[i].frame \in DOMAIN frames
      BY <2>3, <3>1, FramesBelow
    <3>3. QED
      BY <2>7, <3>2
  <2>9. QED
    BY <2>4, <2>5, <2>6, <2>8 DEF EncodingFollows
<1>3. QED
  BY <1>1, <1>2

LEMMA RunFollows ==
    ASSUME TypeOK, TypeOK', Consistent, ~refused, ~refused', RunEvent, UNCHANGED driver,
           NEW path \in Seq(Level), EncodingFollows(path)
    PROVE  EncodingFollows(path)'
<1>1. ~NoTextStep
  BY DEF NoTextStep, Refuse
<1>2. QED
  BY <1>1, ProduceFollows, PushOpenFollows, PushFrameFollows, PopFollows, AfterValueFollows,
     WalkFollows DEF RunEvent

-----------------------------------------------------------------------------
(* An encoder's turn: nothing runs, so the stack is the path. *)

LEMMA IdleStack ==
    ASSUME TypeOK, todo = <<>>, Stacked, NEW path \in Seq(Level), EncodingFollows(path)
    PROVE  /\ \A op : ~Ahead(op)
           /\ ~Opened /\ PathOnStack(path) /\ Len(stack) = Len(path)
           /\ Len(path) \in Nat /\ stack \in Seq(Open)
           /\ path # <<>> => stack # <<>> /\ Last(stack).kind = Bottom(path).tree.node
           /\ path = <<>> => stack = <<>>
<1>1. \A op : ~Ahead(op)
  BY DEF Ahead
<1>2. ~Opened
  BY DEF Opened
<1>3. LevelsFit(path) /\ StackFollows(path)
  BY DEF EncodingFollows
<1>4. PathOnStack(path)
  BY <1>2, <1>3, Unopened
<1>5. Len(path) \in Nat /\ stack \in Seq(Open) /\ Len(stack) \in Nat
  BY LenProperties DEF TypeOK, StackOK
<1>6. Len(stack) = Len(path)
  BY <1>1, <1>4, <1>5 DEF PathOnStack
<1>7. ASSUME path # <<>>
      PROVE  stack # <<>> /\ Last(stack).kind = Bottom(path).tree.node
  <2>1. Len(path) \in Nat \ {0}
    BY <1>7, BottomOf
  <2>2. stack # <<>>
    BY <1>5, <1>6, <2>1, EmptySeq
  <2>3. stack[Len(path)].kind = path[Len(path)].tree.node
    BY <1>4, <2>1 DEF PathOnStack
  <2>4. QED
    BY <1>6, <2>2, <2>3 DEF Last, Bottom
<1>8. ASSUME path = <<>>
      PROVE  stack = <<>>
  <2>1. Len(stack) = 0
    BY <1>6, <1>8
  <2>2. QED
    BY <1>5, <2>1, EmptySeq
<1>9. QED
  BY <1>1, <1>2, <1>4, <1>5, <1>6, <1>7, <1>8

(* A value may come: at the root, in an array, or after its name. *)
ValueMayCome(path) ==
    IF path = <<>> THEN ~started ELSE Bottom(path).tree.node = "Object" => Due(path)

LEMMA ValueIsInTurn ==
    ASSUME TypeOK, todo = <<>>, Stacked, NEW path \in Seq(Level), EncodingFollows(path),
           ValueMayCome(path)
    PROVE  BeforeValueError = "none" /\ ~Top("Wrapper")
<1>1. CASE path = <<>>
  <2>1. stack = <<>> /\ ~started
    BY <1>1, IdleStack DEF ValueMayCome
  <2>2. QED
    BY <2>1 DEF BeforeValueError, Top
<1>2. CASE path # <<>>
  <2>1. stack # <<>> /\ Last(stack).kind = Bottom(path).tree.node
    BY <1>2, IdleStack
  <2>2. Bottom(path).tree.node \in {"Array", "Object"}
    <3>1. Len(path) \in DOMAIN path /\ Bottom(path) = path[Len(path)]
      BY <1>2, BottomOf
    <3>2. QED
      BY <3>1, LevelFacts DEF EncodingFollows
  <2>3. CASE Bottom(path).tree.node = "Array"
    BY <2>1, <2>3 DEF BeforeValueError, Top
  <2>4. CASE Bottom(path).tree.node = "Object"
    <3>1. Due(path) /\ Top("Object") /\ ~Top("Array") /\ ~Top("Wrapper")
      BY <1>2, <2>1, <2>4 DEF ValueMayCome, Top
    <3>2. NamePending
      BY <3>1 DEF EncodingFollows, PendingFollows
    <3>3. frames # <<>>
      BY <3>2 DEF NamePending
    <3>4. QED
      BY <2>1, <3>1, <3>2, <3>3 DEF BeforeValueError
  <2>5. QED
    BY <2>2, <2>3, <2>4
<1>3. QED
  BY <1>1, <1>2

-----------------------------------------------------------------------------
(* The event of a node. *)

(* What the event of the node t has ahead when it is admitted. *)
AheadOf(t) ==
    CASE t.node = "Array" -> "push_open"
      [] t.node = "Object" -> "push_frame"
      [] OTHER -> "after_value"
VisitAhead(t) ==
    /\ \A op \in {"push_open", "push_frame", "after_value", "pop"} :
          Ahead(op) <=> op = AheadOf(t)
    /\ \A i \in DOMAIN todo : todo[i].op = "push_open" =>
          i = Len(todo) /\ todo[i].open.kind = "Array"

LEMMA PairElements ==
    ASSUME NEW x, NEW y
    PROVE  \A i : i \in DOMAIN <<x, y>> <=> i = 1 \/ i = 2
  OBVIOUS

IsTriple(s, x, y, z) == s = <<x>> \o <<y, z>>
LEMMA TripleElements ==
    ASSUME NEW x, NEW y, NEW z, NEW s, IsTriple(s, x, y, z)
    PROVE  /\ \A i : i \in DOMAIN s <=> i = 1 \/ i = 2 \/ i = 3
           /\ Len(s) = 3 /\ s[1] = x /\ s[2] = y /\ s[3] = z
<1> DEFINE S == {x, y, z}
<1> DEFINE one == <<x>>
<1> DEFINE two == <<y, z>>
<1>1. one \in Seq(S) /\ Len(one) = 1 /\ one[1] = x
  OBVIOUS
<1>2. two \in Seq(S) /\ Len(two) = 2 /\ two[1] = y /\ two[2] = z
  OBVIOUS
<1>3. s = one \o two
  BY DEF IsTriple
<1> HIDE DEF S, one, two
<1>4. /\ s \in Seq(S) /\ Len(s) = Len(one) + Len(two)
      /\ \A i \in 1 .. Len(one) + Len(two) : s[i] =
            IF i <= Len(one) THEN one[i] ELSE two[i - Len(one)]
  BY <1>1, <1>2, <1>3, ConcatProperties
<1>5. Len(s) = 3 /\ DOMAIN s = 1 .. Len(s)
  BY <1>1, <1>2, <1>4, LenProperties
<1>6. s[1] = one[1] /\ s[2] = two[2 - 1] /\ s[3] = two[3 - 1]
  BY <1>1, <1>2, <1>4
<1>7. s[1] = x /\ s[2] = y /\ s[3] = z
  BY <1>1, <1>2, <1>6
<1>8. QED
  BY <1>5, <1>7

Opens(t, x, y) ==
    /\ x.op \in {"produce", "no_text"} /\ y.op = AheadOf(t)
    /\ y.op = "push_open" => y.open.kind = "Array"

LEMMA CommaSteps ==
    ASSUME NEW x, NEW y, NEW t, Opens(t, x, y), NEW c, c.op = "produce",
           IsTriple(todo', c, x, y)
    PROVE  VisitAhead(t)'
<1>1. /\ x.op \in {"produce", "no_text"} /\ y.op = AheadOf(t)
      /\ y.op = "push_open" => y.open.kind = "Array"
  BY DEF Opens
<1>2. /\ \A i : i \in DOMAIN todo' <=> i = 1 \/ i = 2 \/ i = 3
      /\ Len(todo') = 3 /\ todo'[1] = c /\ todo'[2] = x /\ todo'[3] = y
  BY TripleElements
<1>3. \A op \in {"push_open", "push_frame", "after_value", "pop"} :
          Ahead(op)' <=> op = AheadOf(t)
  <2>1. \A op : Ahead(op)' <=> (c.op = op \/ x.op = op \/ y.op = op)
    BY <1>2 DEF Ahead
  <2>2. QED
    BY <1>1, <2>1
<1>4. \A i \in DOMAIN todo' : todo'[i].op = "push_open" =>
          i = Len(todo') /\ todo'[i].open.kind = "Array"
  BY <1>1, <1>2
<1>5. AheadOf(t)' = AheadOf(t)
  BY DEF AheadOf
<1>6. QED
  BY <1>3, <1>4, <1>5 DEF VisitAhead

LEMMA TwoSteps ==
    ASSUME NEW x, NEW y, NEW t, Opens(t, x, y), todo' = <<x, y>>
    PROVE  VisitAhead(t)'
<1>1. /\ x.op \in {"produce", "no_text"} /\ y.op = AheadOf(t)
      /\ y.op = "push_open" => y.open.kind = "Array"
  BY DEF Opens
<1>2. Len(todo') = 2 /\ todo'[1] = x /\ todo'[2] = y
  OBVIOUS
<1>3. \A i : i \in DOMAIN todo' <=> i = 1 \/ i = 2
  BY PairElements
<1>4. \A op \in {"push_open", "push_frame", "after_value", "pop"} :
          Ahead(op)' <=> op = AheadOf(t)
  <2>1. \A op : Ahead(op)' <=> (x.op = op \/ y.op = op)
    BY <1>2, <1>3 DEF Ahead
  <2>2. QED
    BY <1>1, <2>1
<1>5. \A i \in DOMAIN todo' : todo'[i].op = "push_open" =>
          i = Len(todo') /\ todo'[i].open.kind = "Array"
  BY <1>1, <1>2, <1>3
<1>6. AheadOf(t)' = AheadOf(t)
  BY DEF AheadOf
<1>7. QED
  BY <1>4, <1>5, <1>6 DEF VisitAhead

LEMMA Admission ==
    ASSUME TypeOK, ~refused, NEW steps, ValueEvent(steps),
           BeforeValueError = "none", ~Top("Wrapper")
    PROVE  /\ UNCHANGED <<frames, buffer, open_members, finished>>
           /\ started' /\ answer' = "running" /\ ~refused'
           /\ todo' = steps \/ todo' = <<Produce(",")>> \o steps
           /\ Len(stack') = Len(stack)
           /\ \A i \in 1 .. Len(stack) : stack'[i].kind = stack[i].kind
<1>1. UNCHANGED <<frames, buffer, open_members, finished>>
  BY DEF ValueEvent, text, opened
<1>2. started' = TRUE /\ answer' = "running" /\ ~refused'
  <2>1. started' = TRUE /\ \E list : Run(list)
    BY DEF ValueEvent
  <2>2. QED
    BY <2>1 DEF Run
<1>3. todo' = steps \/ todo' = <<Produce(",")>> \o steps
  BY DEF ValueEvent, Run
<1>4. CASE ~Top("Array")
  <2>1. stack' = stack
    BY <1>4 DEF ValueEvent
  <2>2. QED
    BY <1>1, <1>2, <1>3, <2>1
<1>5. CASE Top("Array")
  <2> DEFINE array == Array(FALSE)
  <2>1. stack # <<>> /\ stack[Len(stack)].kind = "Array" /\ stack \in Seq(Open)
    BY <1>5 DEF Top, Last, TypeOK, StackOK
  <2>2. /\ Front(stack) \in Seq(Open) /\ Len(Front(stack)) = Len(stack) - 1
        /\ Len(stack) \in Nat \ {0}
        /\ \A i \in 1 .. Len(stack) - 1 : Front(stack)[i] = stack[i]
    BY <2>1, FrontLast
  <2>3. array \in Open /\ array.kind = "Array"
    BY DEF Open, Array
  <2>4. stack' = Append(Front(stack), array)
    BY <1>5 DEF ValueEvent
  <2> HIDE DEF array
  <2>5. /\ Len(stack') = Len(Front(stack)) + 1 /\ stack'[Len(Front(stack)) + 1] = array
        /\ \A i \in 1 .. Len(Front(stack)) : stack'[i] = Front(stack)[i]
    BY <2>2, <2>3, <2>4, AppendProperties
  <2>6. /\ Len(stack') = Len(stack) /\ stack'[Len(stack)] = array
        /\ \A i \in 1 .. Len(stack) - 1 : stack'[i] = stack[i]
    BY <2>2, <2>5
  <2>7. \A i \in 1 .. Len(stack) : i = Len(stack) \/ i \in 1 .. Len(stack) - 1
    BY <2>2
  <2>8. QED
    BY <1>1, <1>2, <1>3, <2>1, <2>3, <2>6, <2>7
<1>6. QED
  BY <1>4, <1>5

LEMMA VisitPlans ==
    ASSUME TypeOK, todo = <<>>, ~refused, NEW t \in Trees, Visit(t),
           BeforeValueError = "none", ~Top("Wrapper")
    PROVE  \/ refused' /\ answer' = "Source"
           \/ /\ ~refused' /\ answer' = "running" /\ started'
              /\ UNCHANGED <<frames, buffer, open_members, finished>>
              /\ Len(stack') = Len(stack)
              /\ \A i \in 1 .. Len(stack) : stack'[i].kind = stack[i].kind
              /\ VisitAhead(t)'
<1> DEFINE Admitted ==
              /\ ~refused' /\ answer' = "running" /\ started'
              /\ UNCHANGED <<frames, buffer, open_members, finished>>
              /\ Len(stack') = Len(stack)
              /\ \A i \in 1 .. Len(stack) : stack'[i].kind = stack[i].kind
              /\ VisitAhead(t)'
<1>1. ASSUME NEW x, NEW y, Opens(t, x, y), ValueEvent(<<x, y>>)
      PROVE  Admitted
  <2> DEFINE steps == <<x, y>>
  <2>1. ValueEvent(steps)
    BY <1>1
  <2> HIDE DEF steps
  <2>2. /\ UNCHANGED <<frames, buffer, open_members, finished>>
        /\ started' /\ answer' = "running" /\ ~refused'
        /\ todo' = steps \/ todo' = <<Produce(",")>> \o steps
        /\ Len(stack') = Len(stack)
        /\ \A i \in 1 .. Len(stack) : stack'[i].kind = stack[i].kind
    BY <2>1, Admission
  <2>3. todo' = <<x, y>> \/ todo' = <<Produce(",")>> \o <<x, y>>
    BY <2>2 DEF steps
  <2>4. CASE todo' = <<x, y>>
    <3>1. VisitAhead(t)'
      BY <1>1, <2>4, TwoSteps
    <3>2. QED
      BY <2>2, <3>1
  <2>5. CASE todo' = <<Produce(",")>> \o <<x, y>>
    <3> DEFINE c == Produce(",")
    <3>1. IsTriple(todo', c, x, y) /\ c.op = "produce"
      BY <2>5 DEF IsTriple, Produce
    <3> HIDE DEF c
    <3>2. VisitAhead(t)'
      BY <1>1, <3>1, CommaSteps
    <3>3. QED
      BY <2>2, <3>2
  <2>6. QED
    BY <2>3, <2>4, <2>5
<1> DEFINE open == PushOpen(Array(TRUE))
<1> HIDE DEF Admitted
<1>2. /\ \A b : Produce(b).op = "produce"
      /\ NoText.op = "no_text" /\ AfterValue.op = "after_value" /\ PushFrame.op = "push_frame"
      /\ open.op = "push_open" /\ open.open.kind = "Array"
  BY DEF Produce, NoText, AfterValue, PushFrame, PushOpen, Array
<1> HIDE DEF open
<1> DEFINE brace == "{"
<1> HIDE DEF brace
<1>3. CASE t.node = "Leaf" /\ Scalar(t.token)
  <2>1. AheadOf(t) = "after_value"
    BY <1>3 DEF AheadOf
  <2>2. ValueEvent(<<Produce(t.token), AfterValue>>)
    BY <1>3 DEF Scalar, Value
  <2>3. Admitted
    BY <1>1, <1>2, <2>1, <2>2 DEF Opens
  <2>4. QED
    BY <2>3 DEF Admitted
<1>4. CASE t.node = "Textless" /\ Unrepresentable
  <2>1. AheadOf(t) = "after_value"
    BY <1>4 DEF AheadOf
  <2>2. ValueEvent(<<NoText, AfterValue>>)
    BY <1>4 DEF Unrepresentable, Value
  <2>3. Admitted
    BY <1>1, <1>2, <2>1, <2>2 DEF Opens
  <2>4. QED
    BY <2>3 DEF Admitted
<1>5. CASE RefuseThrough("Source")
  BY <1>5 DEF RefuseThrough, Refuse
<1>6. CASE t.node = "Array" /\ BeginArray
  <2>1. AheadOf(t) = "push_open"
    BY <1>6 DEF AheadOf
  <2>2. ValueEvent(<<Produce("["), open>>)
    BY <1>6 DEF BeginArray, Value, open
  <2>3. Admitted
    BY <1>1, <1>2, <2>1, <2>2 DEF Opens
  <2>4. QED
    BY <2>3 DEF Admitted
<1>7. CASE t.node = "Object" /\ BeginObject
  <2>1. AheadOf(t) = "push_frame"
    BY <1>7 DEF AheadOf
  <2>2. ValueEvent(<<Produce(brace), PushFrame>>)
    BY <1>7 DEF BeginObject, Value, brace
  <2>3. Admitted
    BY <1>1, <1>2, <2>1, <2>2 DEF Opens
  <2>4. QED
    BY <2>3 DEF Admitted
<1>8. QED
  BY <1>3, <1>4, <1>5, <1>6, <1>7 DEF Visit

-----------------------------------------------------------------------------
(* Paths that an encoder's turn leads to: the bottom level moved on, one   *)
(* level more, one level less.                                             *)
Moved(path, v, w) == [path EXCEPT ![Len(path)] = [@ EXCEPT !.taken = v, !.visited = w]]
Deeper(path, t, a) ==
    Append(path, [tree |-> t, taken |-> 0, visited |-> 0,
                  frame |-> FramesOf(path) + ObjectIn(t), at |-> a])

LEMMA MovedPath ==
    ASSUME NEW path \in Seq(Level), LevelsFit(path), path # <<>>, NEW v \in Nat, NEW w \in Nat,
           w <= v, v <= w + 1, v <= Size(Bottom(path).tree)
    PROVE  /\ Moved(path, v, w) \in Seq(Level) /\ Moved(path, v, w) # <<>>
           /\ Len(Moved(path, v, w)) = Len(path)
           /\ LevelsFit(Moved(path, v, w)) /\ FramesOf(Moved(path, v, w)) = FramesOf(path)
           /\ \A i \in DOMAIN path : i # Len(path) => Moved(path, v, w)[i] = path[i]
           /\ Bottom(Moved(path, v, w)) = Moved(path, v, w)[Len(path)]
           /\ Bottom(Moved(path, v, w)).taken = v /\ Bottom(Moved(path, v, w)).visited = w
           /\ Bottom(Moved(path, v, w)).tree = Bottom(path).tree
           /\ Bottom(Moved(path, v, w)).frame = Bottom(path).frame
           /\ Bottom(Moved(path, v, w)).at = Bottom(path).at
           /\ \A i \in DOMAIN path :
                 /\ Moved(path, v, w)[i].tree = path[i].tree
                 /\ Moved(path, v, w)[i].frame = path[i].frame
                 /\ Moved(path, v, w)[i].at = path[i].at
<1> DEFINE q == Moved(path, v, w)
           b == [Bottom(path) EXCEPT !.taken = v, !.visited = w]
<1>1. /\ Len(path) \in Nat \ {0} /\ DOMAIN path = 1 .. Len(path) /\ Len(path) \in DOMAIN path
      /\ Bottom(path) = path[Len(path)] /\ Bottom(path) \in Level
  BY BottomOf
<1>2. /\ b \in Level /\ b.tree = Bottom(path).tree /\ b.frame = Bottom(path).frame
      /\ b.at = Bottom(path).at /\ b.taken = v /\ b.visited = w
  BY <1>1 DEF Level
<1>3. q = [path EXCEPT ![Len(path)] = b]
  BY <1>1 DEF Moved
<1> HIDE DEF b, q
<1>4. q \in Seq(Level) /\ Len(q) = Len(path) /\ DOMAIN q = DOMAIN path
  BY <1>1, <1>2, <1>3, ExceptSeq, LenProperties
<1>5. q[Len(path)] = b /\ \A i \in DOMAIN path : i # Len(path) => q[i] = path[i]
  BY <1>1, <1>3
<1>6. q # <<>> /\ Bottom(q) = b
  BY <1>1, <1>4, <1>5, EmptySeq DEF Bottom
<1>7. \A i \in DOMAIN path :
          q[i].tree = path[i].tree /\ q[i].frame = path[i].frame /\ q[i].at = path[i].at
  BY <1>1, <1>2, <1>5
<1>8. FramesOf(q) = FramesOf(path)
  BY <1>1, <1>2, <1>6 DEF FramesOf
<1>9. LevelsFit(q)
  <2>1. ASSUME NEW i \in DOMAIN q
        PROVE  /\ IsContainer(q[i].tree)
               /\ q[i].visited <= q[i].taken /\ q[i].taken <= q[i].visited + 1
               /\ q[i].taken <= Size(q[i].tree)
    <3>1. IsContainer(path[i].tree)
      BY <1>4 DEF LevelsFit
    <3>2. CASE i = Len(path)
      BY <1>1, <1>2, <1>5, <3>1, <3>2
    <3>3. CASE i # Len(path)
      BY <1>4, <1>5, <3>1, <3>3 DEF LevelsFit
    <3>4. QED
      BY <3>2, <3>3
  <2>2. ASSUME NEW i \in DOMAIN q
        PROVE  q[i].frame = FrameAbove(q, i) + ObjectIn(q[i].tree)
    <3>1. path[i].frame = FrameAbove(path, i) + ObjectIn(path[i].tree)
      BY <1>4 DEF LevelsFit
    <3>2. FrameAbove(q, i) = FrameAbove(path, i)
      <4>1. CASE i = 1
        BY <4>1 DEF FrameAbove
      <4>2. CASE i # 1
        <5>1. i - 1 \in DOMAIN path
          BY <1>1, <1>4, <4>2
        <5>2. QED
          BY <1>7, <4>2, <5>1 DEF FrameAbove
      <4>3. QED
        BY <4>1, <4>2
    <3>3. QED
      BY <1>4, <1>7, <3>1, <3>2
  <2>3. ASSUME NEW i \in DOMAIN q, NEW j \in DOMAIN q, i < j
        PROVE  q[i].taken = q[i].visited /\ q[i].frame + ObjectIn(q[j].tree) <= q[j].frame
    <3>1. /\ path[i].taken = path[i].visited
          /\ path[i].frame + ObjectIn(path[j].tree) <= path[j].frame
      BY <1>4, <2>3 DEF LevelsFit
    <3>2. i # Len(path)
      BY <1>1, <1>4, <2>3
    <3>3. QED
      BY <1>4, <1>5, <1>7, <3>1, <3>2
  <2>4. QED
    BY <2>1, <2>2, <2>3 DEF LevelsFit
<1>10. QED
  BY <1>2, <1>4, <1>5, <1>6, <1>7, <1>8, <1>9 DEF q

LEMMA FrontPath ==
    ASSUME NEW path \in Seq(Level), LevelsFit(path), path # <<>>
    PROVE  /\ Front(path) \in Seq(Level) /\ Len(Front(path)) = Len(path) - 1
           /\ Len(path) \in Nat \ {0}
           /\ \A i \in 1 .. Len(path) - 1 : Front(path)[i] = path[i] /\ i \in DOMAIN path
           /\ LevelsFit(Front(path)) /\ ~Due(Front(path))
           /\ FramesOf(Front(path)) + ObjectIn(Bottom(path).tree) = FramesOf(path)
<1> DEFINE q == Front(path)
<1>1. /\ Len(path) \in Nat \ {0} /\ DOMAIN path = 1 .. Len(path) /\ Len(path) \in DOMAIN path
      /\ Bottom(path) = path[Len(path)]
  BY BottomOf
<1>2. /\ q \in Seq(Level) /\ Len(q) = Len(path) - 1
      /\ \A i \in 1 .. Len(path) - 1 : q[i] = path[i]
  BY FrontLast
<1>3. DOMAIN q = 1 .. Len(path) - 1
  BY <1>2, LenProperties
<1> HIDE DEF q
<1>4. \A i \in DOMAIN q : i \in DOMAIN path /\ q[i] = path[i] /\ i < Len(path)
  BY <1>1, <1>2, <1>3
<1>5. LevelsFit(q)
  <2>1. \A i \in DOMAIN q : FrameAbove(q, i) = FrameAbove(path, i)
    <3>1. \A i \in DOMAIN q : i # 1 => i - 1 \in DOMAIN q
      BY <1>1, <1>3
    <3>2. QED
      BY <1>4, <3>1 DEF FrameAbove
  <2>2. QED
    BY <1>4, <2>1 DEF LevelsFit
<1>6. q # <<>> => Len(q) \in DOMAIN q /\ Bottom(q) = q[Len(q)]
  BY <1>2, BottomOf
<1>7. ~Due(q)
  <2>1. q # <<>> => Bottom(q) = path[Len(q)] /\ Len(q) \in DOMAIN path /\ Len(q) < Len(path)
    BY <1>4, <1>6
  <2>2. q # <<>> => Bottom(q).taken = Bottom(q).visited
    BY <1>1, <2>1 DEF LevelsFit
  <2>3. q # <<>> => Bottom(q).visited \in Nat
    BY <2>1, LevelFacts
  <2>4. QED
    BY <2>2, <2>3 DEF Due
<1>8. FramesOf(q) + ObjectIn(Bottom(path).tree) = FramesOf(path)
  <2>1. path[Len(path)].frame = FrameAbove(path, Len(path)) + ObjectIn(path[Len(path)].tree)
    BY <1>1 DEF LevelsFit
  <2>2. FrameAbove(path, Len(path)) = FramesOf(q)
    <3>1. CASE Len(path) = 1
      <4>1. q = <<>>
        BY <1>2, <3>1, EmptySeq
      <4>2. QED
        BY <3>1, <4>1 DEF FrameAbove, FramesOf
    <3>2. CASE Len(path) # 1
      <4>1. Len(path) - 1 \in 1 .. Len(path) - 1
        BY <1>1, <3>2
      <4>2. q[Len(path) - 1] = path[Len(path) - 1] /\ q # <<>>
        BY <1>2, <1>3, <4>1, EmptySeq
      <4>3. QED
        BY <1>2, <3>2, <4>2 DEF FrameAbove, FramesOf, Bottom
    <3>3. QED
      BY <3>1, <3>2
  <2>3. QED
    BY <1>1, <2>1, <2>2 DEF FramesOf
<1>9. QED
  BY <1>1, <1>2, <1>3, <1>4, <1>5, <1>7, <1>8 DEF q

LEMMA DeeperPath ==
    ASSUME NEW path \in Seq(Level), LevelsFit(path), ~Due(path),
           NEW t \in Trees, IsContainer(t), NEW a \in Nat
    PROVE  /\ Deeper(path, t, a) \in Seq(Level) /\ Len(Deeper(path, t, a)) = Len(path) + 1
           /\ Len(path) \in Nat /\ DOMAIN path = 1 .. Len(path) /\ Deeper(path, t, a) # <<>>
           /\ \A i \in DOMAIN path : Deeper(path, t, a)[i] = path[i]
           /\ Bottom(Deeper(path, t, a)) = Deeper(path, t, a)[Len(path) + 1]
           /\ Bottom(Deeper(path, t, a)) =
                 [tree |-> t, taken |-> 0, visited |-> 0,
                  frame |-> FramesOf(path) + ObjectIn(t), at |-> a]
           /\ FramesOf(Deeper(path, t, a)) = FramesOf(path) + ObjectIn(t)
           /\ LevelsFit(Deeper(path, t, a)) /\ ~Due(Deeper(path, t, a))
<1> DEFINE b == [tree |-> t, taken |-> 0, visited |-> 0,
                 frame |-> FramesOf(path) + ObjectIn(t), at |-> a]
           q == Deeper(path, t, a)
<1>1. FramesOf(path) \in Nat /\ ObjectIn(t) \in {0, 1}
  BY FramesCounted DEF ObjectIn
<1>2. /\ b \in Level /\ b.tree = t /\ b.taken = 0 /\ b.visited = 0
      /\ b.frame = FramesOf(path) + ObjectIn(t)
  BY <1>1 DEF Level
<1>3. q = Append(path, b)
  BY DEF Deeper
<1> HIDE DEF b, q
<1>4. /\ q \in Seq(Level) /\ Len(q) = Len(path) + 1 /\ q[Len(path) + 1] = b
      /\ \A i \in 1 .. Len(path) : q[i] = path[i]
  BY <1>2, <1>3, AppendProperties
<1>5. /\ Len(path) \in Nat /\ DOMAIN path = 1 .. Len(path) /\ DOMAIN q = 1 .. Len(path) + 1
  BY <1>4, LenProperties
<1>6. q # <<>> /\ Bottom(q) = q[Len(path) + 1]
  BY <1>4, <1>5, EmptySeq DEF Bottom
<1>7. FramesOf(q) = FramesOf(path) + ObjectIn(t)
  BY <1>2, <1>4, <1>6 DEF FramesOf
<1>8. ~Due(q)
  BY <1>2, <1>4, <1>6 DEF Due
<1>9. Size(t) \in Nat
  BY TreeChildren
<1>10. \A i \in DOMAIN path : path[i].frame \in Nat /\ path[i].frame <= FramesOf(path)
  <2>1. ASSUME NEW i \in DOMAIN path
        PROVE  path[i].frame \in Nat /\ path[i].frame <= FramesOf(path)
    <3>1. path # <<>>
      OBVIOUS
    <3>2. FramesOf(path) = path[Len(path)].frame /\ Len(path) \in DOMAIN path
      BY <3>1, BottomOf DEF FramesOf
    <3>3. path[i].frame \in Nat /\ path[Len(path)].frame \in Nat
      BY <3>2, LevelFacts
    <3>4. i < Len(path) => path[i].frame + ObjectIn(path[Len(path)].tree) <= path[Len(path)].frame
      BY <3>2 DEF LevelsFit
    <3>5. ObjectIn(path[Len(path)].tree) \in {0, 1}
      BY DEF ObjectIn
    <3>6. i = Len(path) \/ i < Len(path)
      BY <1>5
    <3>7. QED
      BY <3>2, <3>3, <3>4, <3>5, <3>6
  <2>2. QED
    BY <2>1
<1>11. \A i \in DOMAIN path : path[i].taken = path[i].visited
  <2>1. ASSUME NEW i \in DOMAIN path
        PROVE  path[i].taken = path[i].visited
    <3>1. path # <<>>
      OBVIOUS
    <3>2. Len(path) \in DOMAIN path /\ Bottom(path) = path[Len(path)]
      BY <3>1, BottomOf
    <3>3. CASE i = Len(path)
      <4>1. /\ path[i].taken \in Nat /\ path[i].visited \in Nat
            /\ path[i].visited <= path[i].taken
        BY LevelFacts
      <4>2. ~(path[i].taken > path[i].visited)
        BY <3>1, <3>2, <3>3 DEF Due
      <4>3. QED
        BY <4>1, <4>2
    <3>4. CASE i # Len(path)
      <4>1. i < Len(path)
        BY <1>5, <3>4
      <4>2. QED
        BY <3>2, <4>1 DEF LevelsFit
    <3>5. QED
      BY <3>3, <3>4
  <2>2. QED
    BY <2>1
<1>12. LevelsFit(q)
  <2>1. \A i \in DOMAIN q : i \in DOMAIN path \/ i = Len(path) + 1
    BY <1>5
  <2>2. \A i \in DOMAIN path : FrameAbove(q, i) = FrameAbove(path, i)
    <3>1. \A i \in DOMAIN path : i # 1 => i - 1 \in DOMAIN path
      BY <1>5
    <3>2. QED
      BY <1>4, <1>5, <3>1 DEF FrameAbove
  <2>3. FrameAbove(q, Len(path) + 1) = FramesOf(path)
    <3>1. CASE path = <<>>
      BY <3>1, <1>5 DEF FrameAbove, FramesOf
    <3>2. CASE path # <<>>
      <4>1. Len(path) \in 1 .. Len(path) /\ Len(path) + 1 # 1 /\ Len(path) + 1 - 1 = Len(path)
        BY <1>5, <3>2, EmptySeq
      <4>2. q[Len(path)] = path[Len(path)]
        BY <1>4, <4>1
      <4>3. QED
        BY <3>2, <4>1, <4>2 DEF FrameAbove, FramesOf, Bottom
    <3>3. QED
      BY <3>1, <3>2
  <2>4. ASSUME NEW i \in DOMAIN q
        PROVE  /\ IsContainer(q[i].tree)
               /\ q[i].visited <= q[i].taken /\ q[i].taken <= q[i].visited + 1
               /\ q[i].taken <= Size(q[i].tree)
               /\ q[i].frame = FrameAbove(q, i) + ObjectIn(q[i].tree)
    <3>1. CASE i \in DOMAIN path
      BY <1>4, <1>5, <2>2, <3>1 DEF LevelsFit
    <3>2. CASE i = Len(path) + 1
      BY <1>2, <1>4, <1>9, <2>3, <3>2
    <3>3. QED
      BY <2>1, <3>1, <3>2
  <2>5. ASSUME NEW i \in DOMAIN q, NEW j \in DOMAIN q, i < j
        PROVE  q[i].taken = q[i].visited /\ q[i].frame + ObjectIn(q[j].tree) <= q[j].frame
    <3>1. i \in DOMAIN path /\ q[i] = path[i]
      BY <1>4, <1>5, <2>5
    <3>2. CASE j \in DOMAIN path
      BY <1>4, <1>5, <2>5, <3>1, <3>2 DEF LevelsFit
    <3>3. CASE j = Len(path) + 1
      BY <1>1, <1>2, <1>4, <1>10, <1>11, <3>1, <3>3
    <3>4. QED
      BY <2>1, <3>2, <3>3
  <2>6. QED
    BY <2>4, <2>5 DEF LevelsFit
<1>13. QED
  BY <1>4, <1>5, <1>6, <1>7, <1>8, <1>12 DEF q, b

-----------------------------------------------------------------------------
(* What a turn does to the stack, the plan and the names. *)
Framed(path) ==
    /\ LevelsFit(path) /\ StackFollows(path) /\ OpenedEmpty /\ PlanFollows(path)
    /\ PendingFollows(path) /\ NamesFollow(path)

LEMMA FramedAndWork ==
    ASSUME NEW path
    PROVE  /\ EncodingFollows(path) <=> Framed(path) /\ WorkFollows(path)
           /\ EncodingFollows(path)' <=> Framed(path)' /\ WorkFollows(path)'
  BY DEF EncodingFollows, Framed

(* Names follow a path in which only levels' counts of visited children,   *)
(* or of taken ones of arrays, differ.                                     *)
LEMMA NamesOfMoved ==
    ASSUME NEW path \in Seq(Level), NEW q \in Seq(Level), DOMAIN q \subseteq DOMAIN path,
           \A i \in DOMAIN q : /\ q[i].tree = path[i].tree /\ q[i].frame = path[i].frame
                               /\ q[i].tree.node = "Object" => q[i].taken = path[i].taken,
           NamesFollow(path)
    PROVE  NamesFollow(q)
<1>1. ASSUME NEW i \in DOMAIN q, q[i].tree.node = "Object"
      PROVE  NamesFollowAt(q[i])
  <2>1. /\ i \in DOMAIN path /\ NamesFollowAt(path[i])
        /\ q[i].tree = path[i].tree /\ q[i].frame = path[i].frame /\ q[i].taken = path[i].taken
    BY <1>1 DEF NamesFollow
  <2>2. RecordedOf(q[i]) = RecordedOf(path[i])
    BY <2>1 DEF RecordedOf
  <2>3. QED
    BY <2>1, <2>2 DEF NamesFollowAt
<1>2. QED
  BY <1>1 DEF NamesFollow

(* The path q has the containers and frames of the path `path`, and as     *)
(* many members taken.                                                     *)
SameContainers(path, q) ==
    /\ Len(q) = Len(path) /\ FramesOf(q) = FramesOf(path)
    /\ \A i \in DOMAIN path :
          /\ q[i].tree = path[i].tree /\ q[i].frame = path[i].frame
          /\ q[i].tree.node = "Object" => q[i].taken = path[i].taken

LEMMA VisitFollows ==
    ASSUME TypeOK, Consistent, todo = <<>>, ~refused, Stacked,
           NEW path \in Seq(Level), EncodingFollows(path), ValueMayCome(path),
           NEW t \in Trees, Visit(t), unstacked' = IF IsContainer(t) THEN t ELSE Nothing,
           NEW q \in Seq(Level), LevelsFit(q), ~Due(q), SameContainers(path, q)
    PROVE  \/ refused' /\ answer' = "Source"
           \/ ~refused' /\ answer' = "running" /\ started' /\ Framed(q)'
<1> SUFFICES ASSUME ~(refused' /\ answer' = "Source")
             PROVE  ~refused' /\ answer' = "running" /\ started' /\ Framed(q)'
  OBVIOUS
<1>1. BeforeValueError = "none" /\ ~Top("Wrapper")
  BY ValueIsInTurn
<1>2. /\ ~refused' /\ answer' = "running" /\ started'
      /\ UNCHANGED <<frames, buffer, open_members, finished>>
      /\ Len(stack') = Len(stack)
      /\ \A i \in 1 .. Len(stack) : stack'[i].kind = stack[i].kind
      /\ VisitAhead(t)'
  BY <1>1, VisitPlans
<1>3. /\ Len(q) = Len(path) /\ FramesOf(q) = FramesOf(path)
      /\ Len(path) \in Nat /\ DOMAIN path = 1 .. Len(path) /\ DOMAIN q = 1 .. Len(q)
      /\ \A i \in DOMAIN path :
            /\ q[i].tree = path[i].tree /\ q[i].frame = path[i].frame
            /\ q[i].tree.node = "Object" => q[i].taken = path[i].taken
  BY LenProperties DEF SameContainers
<1>4. PathOnStack(path) /\ Len(stack) = Len(path) /\ ~Opened /\ LevelsFit(path) /\ NamesFollow(path)
  BY IdleStack DEF EncodingFollows
<1>5. /\ \A op \in {"push_open", "push_frame", "after_value", "pop"} :
            Ahead(op)' <=> op = AheadOf(t)
      /\ \A i \in DOMAIN todo' : todo'[i].op = "push_open" =>
            i = Len(todo') /\ todo'[i].open.kind = "Array"
  <2>1. AheadOf(t)' = AheadOf(t)
    BY DEF AheadOf
  <2>2. QED
    BY <1>2, <2>1 DEF VisitAhead
<1>6. t.node \in {"Leaf", "Textless", "Array", "Object"} /\ t # Nothing
  BY TreeKinds, NotNothing
<1>7. Ahead("pop")' = FALSE /\ Opened' = FALSE
  <2>1. ~Ahead("pop")'
    BY <1>5 DEF AheadOf
  <2>2. CASE t.node \in {"Array", "Object"}
    <3>1. Ahead("push_open")' \/ Ahead("push_frame")'
      BY <1>5, <2>2 DEF AheadOf
    <3>2. QED
      BY <2>1, <3>1 DEF Opened, Opening
  <2>3. CASE t.node \notin {"Array", "Object"}
    <3>1. unstacked' = Nothing
      BY <2>3 DEF IsContainer
    <3>2. QED
      BY <2>1, <3>1 DEF Opened, Stacked
  <2>4. QED
    BY <2>2, <2>3
<1>8. StackFollows(q)'
  <2>1. /\ Len(stack) = Len(path) + (IF Ahead("pop") THEN 1 ELSE 0)
        /\ \A i \in 1 .. Len(path) : stack[i].kind = path[i].tree.node
        /\ Len(frames) = FramesOf(path)
    BY <1>4 DEF PathOnStack
  <2>2. \A i \in 1 .. Len(q) : stack'[i].kind = q[i].tree.node
    BY <1>2, <1>3, <1>4, <2>1
  <2>3. Len(stack') = Len(q) /\ Len(frames') = FramesOf(q)
    BY <1>2, <1>3, <1>4, <2>1
  <2>4. FramesOf(q)' = FramesOf(q)
    BY SameLevels
  <2>5. PathOnStack(q)'
    BY <1>3, <1>7, <2>2, <2>3, <2>4 DEF PathOnStack
  <2>6. QED
    BY <1>7, <2>5, Unopened
<1>9. OpenedEmpty'
  BY <1>7 DEF OpenedEmpty
<1>10. LevelsFit(q)' /\ Due(q)' = FALSE
  BY SameLevels
<1>11. PlanFollows(q)'
  <2>1. ~Stacked' => unstacked' = t /\ IsContainer(t)
    BY DEF Stacked
  <2>2. Ahead("push_open")' => unstacked'.node = "Array"
    BY <1>5, <1>6 DEF AheadOf, IsContainer
  <2>3. Ahead("push_frame")' => unstacked'.node = "Object"
    BY <1>5, <1>6 DEF AheadOf, IsContainer
  <2>4. Ahead("after_value")' => Stacked'
    BY <1>5, <1>6 DEF AheadOf, IsContainer, Stacked
  <2>5. Trees' = Trees /\ IsContainer(unstacked)' = IsContainer(unstacked')
    BY DEF Trees, IsContainer
  <2>6. QED
    BY <1>5, <1>7, <1>10, <2>1, <2>2, <2>3, <2>4, <2>5 DEF PlanFollows
<1>12. PendingFollows(q)'
  <2>1. Ahead("after_value")' \/ Opening'
    BY <1>5, <1>6 DEF AheadOf, Opening
  <2>2. QED
    BY <1>10, <2>1 DEF PendingFollows
<1>13. NamesFollow(q)'
  <2>1. NamesFollow(q)
    BY <1>3, <1>4, NamesOfMoved
  <2>2. StackFollows(q)
    <3>1. PathOnStack(q)
      BY <1>3, <1>4 DEF PathOnStack
    <3>2. QED
      BY <1>4, <3>1, Unopened
  <2>3. ~At("produce")
    BY DEF At
  <2>4. \A f \in DOMAIN frames : frames'[f] = frames[f] /\ MembersEnd(f)' = MembersEnd(f)
    BY <1>2 DEF MembersEnd
  <2>5. QED
    BY <1>2, <2>1, <2>2, <2>3, <2>4, WrittenNames
<1>14. QED
  BY <1>2, <1>8, <1>9, <1>10, <1>11, <1>12, <1>13 DEF Framed

(* A container is opened before its level is pushed. *)
LEMMA OpenedLevel ==
    ASSUME TypeOK, todo = <<>>, ~Stacked, NEW path \in Seq(Level), EncodingFollows(path),
           NEW t, t = unstacked
    PROVE  /\ t \in Trees /\ IsContainer(t) /\ ~Due(path) /\ Opened /\ \A op : ~Ahead(op)
           /\ Len(stack) = Len(path) + 1 /\ Len(frames) = FramesOf(path) + ObjectIn(t)
           /\ \A i \in 1 .. Len(path) : stack[i].kind = path[i].tree.node
           /\ stack[Len(path) + 1].kind = t.node
           /\ Len(path) \in Nat /\ DOMAIN path = 1 .. Len(path)
           /\ Top("Object") <=> t.node = "Object"
           /\ ~(Top("Object") /\ NamePending)
<1>1. PlanFollows(path) /\ StackFollows(path) /\ PendingFollows(path)
  BY DEF EncodingFollows
<1>2. t \in Trees /\ IsContainer(t) /\ ~Due(path)
  BY <1>1 DEF PlanFollows
<1>3. \A op : ~Ahead(op)
  BY DEF Ahead
<1>4. Opened
  BY <1>3 DEF Opened, Opening
<1>5. Len(path) \in Nat /\ DOMAIN path = 1 .. Len(path)
  BY LenProperties
<1>6. Extra = 1
  BY <1>4 DEF Extra
<1>7. /\ Len(stack) = Len(path) + 1 /\ Len(frames) = FramesOf(path) + ObjectIn(t)
      /\ \A i \in 1 .. Len(path) : stack[i].kind = path[i].tree.node
      /\ stack[Len(path) + 1].kind = t.node
  BY <1>1, <1>4, <1>5, <1>6 DEF StackFollows
<1>8. Top("Object") <=> t.node = "Object"
  <2>1. stack # <<>>
    BY <1>5, <1>7, EmptySeq
  <2>2. Last(stack) = stack[Len(path) + 1]
    BY <1>7 DEF Last
  <2>3. QED
    BY <1>7, <2>1, <2>2 DEF Top
<1>9. ~(Top("Object") /\ NamePending)
  BY <1>1, <1>2, <1>3 DEF PendingFollows, Opening
<1>10. QED
  BY <1>2, <1>3, <1>4, <1>5, <1>7, <1>8, <1>9

LEMMA PushFollows ==
    ASSUME TypeOK, Consistent, todo = <<>>, ~Stacked, unstacked' = Nothing,
           UNCHANGED <<stack, frames, buffer, open_members, todo>>,
           NEW path \in Seq(Level), EncodingFollows(path), NEW t, t = unstacked, NEW a \in Nat
    PROVE  Framed(Deeper(path, t, a))'
<1> DEFINE q == Deeper(path, t, a)
           b == [tree |-> t, taken |-> 0, visited |-> 0,
                 frame |-> FramesOf(path) + ObjectIn(t), at |-> a]
<1>1. /\ t \in Trees /\ IsContainer(t) /\ ~Due(path) /\ Opened /\ \A op : ~Ahead(op)
      /\ Len(stack) = Len(path) + 1 /\ Len(frames) = FramesOf(path) + ObjectIn(t)
      /\ \A i \in 1 .. Len(path) : stack[i].kind = path[i].tree.node
      /\ stack[Len(path) + 1].kind = t.node
      /\ Len(path) \in Nat /\ DOMAIN path = 1 .. Len(path)
      /\ Top("Object") <=> t.node = "Object"
      /\ ~(Top("Object") /\ NamePending)
  BY OpenedLevel
<1>2. LevelsFit(path) /\ NamesFollow(path) /\ OpenedEmpty /\ StackFollows(path)
  BY DEF EncodingFollows
<1>3. /\ q \in Seq(Level) /\ Len(q) = Len(path) + 1 /\ q # <<>>
      /\ \A i \in DOMAIN path : q[i] = path[i]
      /\ q[Len(path) + 1] = b /\ FramesOf(q) = FramesOf(path) + ObjectIn(t)
      /\ LevelsFit(q) /\ ~Due(q)
  <2>1. LevelsFit(path) /\ ~Due(path) /\ t \in Trees /\ IsContainer(t)
    BY <1>1, <1>2
  <2>2. /\ q \in Seq(Level) /\ Len(q) = Len(path) + 1 /\ q # <<>>
        /\ \A i \in DOMAIN path : q[i] = path[i]
        /\ Bottom(q) = q[Len(path) + 1]
        /\ FramesOf(q) = FramesOf(path) + ObjectIn(t)
        /\ LevelsFit(q) /\ ~Due(q)
    BY ZenonT(30), <2>1, DeeperPath
  <2>3. Bottom(q) = b
    BY <2>1, DeeperPath
  <2>4. QED
    BY <2>2, <2>3
<1>4. b.tree = t /\ b.taken = 0 /\ b.visited = 0 /\ b.frame = FramesOf(path) + ObjectIn(t)
  OBVIOUS
<1>5. DOMAIN q = 1 .. Len(path) + 1 /\ Len(path) \in Nat
  BY <1>1, <1>3, LenProperties
<1> HIDE DEF q, b
<1>6. \A op : Ahead(op)' = FALSE
  BY DEF Ahead
<1>7. Opened' = FALSE /\ Stacked'
  BY DEF Opened, Stacked
<1>8. LevelsFit(q)' /\ FramesOf(q)' = FramesOf(q) /\ Due(q)' = FALSE
  BY <1>3, SameLevels
<1>9. StackFollows(q)'
  <2>1. \A i \in 1 .. Len(q) : i \in 1 .. Len(path) \/ i = Len(path) + 1
    BY <1>1, <1>3
  <2>2. \A i \in 1 .. Len(q) : stack'[i].kind = q[i].tree.node
    BY <1>1, <1>3, <1>4, <2>1
  <2>3. PathOnStack(q)'
    BY <1>1, <1>3, <1>6, <1>8, <2>2 DEF PathOnStack
  <2>4. QED
    BY <1>3, <1>7, <2>3, Unopened
<1>10. OpenedEmpty'
  BY <1>7 DEF OpenedEmpty
<1>11. PlanFollows(q)'
  BY <1>6, <1>7, <1>8 DEF PlanFollows
<1>12. PendingFollows(q)'
  <2>1. Top("Object")' = Top("Object") /\ NamePending' = NamePending
    BY DEF Top, NamePending, TopFrame
  <2>2. QED
    BY <1>1, <1>8, <2>1 DEF PendingFollows
<1>13. NamesFollow(q)
  <2>1. ASSUME NEW i \in DOMAIN path, path[i].tree.node = "Object"
        PROVE  NamesFollowAt(q[i])
    BY <1>2, <1>3, <2>1 DEF NamesFollow
  <2>2. ASSUME t.node = "Object"
        PROVE  NamesFollowAt(b)
    <3>1. b.frame = Len(frames)
      BY <1>1, <1>4
    <3>2. frames[Len(frames)].members = Len(open_members)
      BY <1>1, <2>2 DEF OpenedEmpty, EncodingFollows
    <3>3. FramesOf(path) \in Nat /\ ObjectIn(t) = 1
      BY <1>2, <2>2, FramesCounted DEF ObjectIn
    <3>4. frames # <<>> /\ Last(frames) = frames[Len(frames)] /\ Len(frames) \in Nat \ {0}
      <4>1. frames \in Seq(Frame)
        BY DEF TypeOK, TextOK
      <4>2. QED
        BY <1>1, <3>3, <4>1, EmptySeq DEF Last
    <3>5. ~Pends(b.frame)
      BY <1>1, <2>2, <3>1, <3>4 DEF Pends, NamePending, TopFrame
    <3>6. MembersEnd(b.frame) = Len(open_members)
      BY <3>1, <3>4 DEF MembersEnd
    <3>7. RecordedOf(b) = 0
      BY <1>4, <3>5 DEF RecordedOf
    <3>8. Len(open_members) \in Nat
      BY LenProperties DEF TypeOK, OpenedOK
    <3>9. QED
      BY <3>1, <3>2, <3>5, <3>6, <3>7, <3>8 DEF NamesFollowAt
  <2>3. \A i \in DOMAIN q : i \in DOMAIN path \/ i = Len(path) + 1
    BY <1>1, <1>5
  <2>4. QED
    BY <1>3, <1>4, <2>1, <2>2, <2>3 DEF NamesFollow
<1>14. NamesFollow(q)'
  BY <1>13 DEF NamesFollow, NamesFollowAt, MembersEnd, RecordedOf, Pends
<1>15. QED
  BY <1>8, <1>9, <1>10, <1>11, <1>12, <1>14 DEF Framed, q

(* The innermost object, when its turn comes. *)
LEMMA InnermostObject ==
    ASSUME TypeOK, todo = <<>>, Stacked, NEW path \in Seq(Level), EncodingFollows(path),
           path # <<>>, Bottom(path).tree.node = "Object", ~Due(path)
    PROVE  /\ Top("Object") /\ frames # <<>> /\ Bottom(path).frame = Len(frames)
           /\ Len(frames) \in DOMAIN frames /\ Len(frames) \in Nat \ {0}
           /\ DOMAIN frames = 1 .. Len(frames) /\ TopFrame = frames[Len(frames)]
           /\ ~NamePending /\ ~Pends(Len(frames)) /\ Bottom(path).taken = Bottom(path).visited
           /\ NamesFollowAt(Bottom(path)) /\ Bottom(path) \in Level
           /\ Len(path) \in DOMAIN path /\ Bottom(path) = path[Len(path)]
<1>1. Len(path) \in DOMAIN path /\ Bottom(path) = path[Len(path)] /\ Bottom(path) \in Level
  BY BottomOf
<1>2. stack # <<>> /\ Last(stack).kind = "Object" /\ PathOnStack(path) /\ \A op : ~Ahead(op)
  BY IdleStack
<1>3. Top("Object")
  BY <1>2 DEF Top
<1>4. LevelsFit(path) /\ StackFollows(path) /\ PendingFollows(path) /\ NamesFollow(path)
  BY DEF EncodingFollows
<1>5. Bottom(path).frame = Len(frames)
  BY <1>2 DEF PathOnStack, FramesOf
<1>6. Len(frames) \in DOMAIN frames
  BY <1>1, <1>4, <1>5, FramesBelow
<1>7. frames # <<>> /\ TextOK
  BY <1>6 DEF TypeOK
<1>8. /\ TopFrame = frames[Len(frames)] /\ Len(frames) \in Nat \ {0}
      /\ DOMAIN frames = 1 .. Len(frames)
  BY <1>7, TopFrameAt
<1>9. ~NamePending
  BY <1>2, <1>3, <1>4 DEF PendingFollows, Opening
<1>10. ~Pends(Len(frames))
  BY <1>7, <1>8, <1>9 DEF Pends, NamePending
<1>11. Bottom(path).taken = Bottom(path).visited
  <2>1. /\ path[Len(path)].taken \in Nat /\ path[Len(path)].visited \in Nat
        /\ path[Len(path)].visited <= path[Len(path)].taken
    BY <1>1, <1>4, LevelFacts
  <2>2. QED
    BY <1>1, <2>1 DEF Due
<1>12. NamesFollowAt(Bottom(path))
  BY <1>1, <1>4 DEF NamesFollow
<1>13. QED
  BY <1>1, <1>3, <1>5, <1>6, <1>7, <1>8, <1>9, <1>10, <1>11, <1>12

LEMMA NameFollows ==
    ASSUME TypeOK, TypeOK', Consistent, todo = <<>>, ~refused, Stacked, Stacked',
           NEW path \in Seq(Level), EncodingFollows(path),
           path # <<>>, Bottom(path).tree.node = "Object", ~Due(path),
           Bottom(path).taken + 1 <= Size(Bottom(path).tree),
           NEW n, n = MemberName(Bottom(path).tree, Bottom(path).taken + 1), NameEvent(n)
    PROVE  \/ refused' /\ answer' = "ObjectBytes"
           \/ /\ ~refused' /\ answer' = "running" /\ started' = started
              /\ Framed(Moved(path, Bottom(path).taken + 1, Bottom(path).visited))'
<1> DEFINE b == Bottom(path)
           q == Moved(path, b.taken + 1, b.visited)
           top == Len(frames)
<1>1. /\ Top("Object") /\ frames # <<>> /\ b.frame = top
      /\ top \in DOMAIN frames /\ top \in Nat \ {0}
      /\ DOMAIN frames = 1 .. top /\ TopFrame = frames[top]
      /\ ~NamePending /\ ~Pends(top) /\ b.taken = b.visited
      /\ NamesFollowAt(b) /\ b \in Level
      /\ Len(path) \in DOMAIN path /\ b = path[Len(path)]
  BY InnermostObject
<1>2. CASE OffsetTooLarge
  <2>1. NameError = "ObjectBytes"
    BY <1>1, <1>2 DEF NameError
  <2>2. QED
    BY <2>1 DEF NameEvent, Refuse
<1>3. CASE ~OffsetTooLarge
  <2>1. NameError = "none"
    BY <1>1, <1>3 DEF NameError
  <2>2. /\ UNCHANGED <<buffer, open_members, stack, started>>
        /\ frames' = [frames EXCEPT ![Len(frames)].pending = Len(buffer)]
        /\ todo' = <<Produce(n), Produce(":")>> /\ answer' = "running" /\ ~refused'
    BY <2>1 DEF NameEvent, Run, opened
  <2>3. LevelsFit(path) /\ StackFollows(path) /\ NamesFollow(path)
    BY DEF EncodingFollows
  <2>4. b.taken \in Nat /\ b.visited \in Nat
    BY <1>1, <2>3, LevelFacts
  <2>5. /\ q \in Seq(Level) /\ q # <<>> /\ Len(q) = Len(path)
        /\ LevelsFit(q) /\ FramesOf(q) = FramesOf(path)
        /\ \A i \in DOMAIN path : i # Len(path) => q[i] = path[i]
        /\ \A i \in DOMAIN path : q[i].tree = path[i].tree /\ q[i].frame = path[i].frame
    BY <1>1, <2>3, <2>4, MovedPath
  <2>6. /\ Bottom(q).taken = b.taken + 1 /\ Bottom(q).visited = b.visited
        /\ Bottom(q).tree = b.tree /\ Bottom(q).frame = b.frame
    BY <1>1, <2>3, <2>4, MovedPath
  <2>7. Due(q)
    BY <2>4, <2>5, <2>6, <1>1 DEF Due
  <2>8. /\ Len(path) \in Nat /\ DOMAIN path = 1 .. Len(path) /\ DOMAIN q = 1 .. Len(path)
        /\ Bottom(q) = q[Len(path)]
    BY <2>5, LenProperties DEF Bottom
  <2> HIDE DEF q, b
  <2>9. /\ Len(frames') = top /\ frames' # <<>>
        /\ \A k \in 1 .. top - 1 : frames'[k] = frames[k]
        /\ \A k \in 1 .. top : frames'[k].members = frames[k].members
        /\ TopFrame' = frames'[top] /\ frames'[top].pending = Len(buffer)
    BY <1>1, <2>2, PendingFrames DEF TypeOK
  <2>10. /\ todo' # <<>> /\ todo'[1] = Produce(n)
         /\ \A i \in DOMAIN todo' : todo'[i].op = "produce"
    BY <2>2 DEF Produce
  <2>11. \A op : op # "produce" => Ahead(op)' = FALSE
    BY <2>10 DEF Ahead
  <2>12. Opened' = FALSE /\ LevelsFit(q)' /\ Due(q)' = TRUE /\ FramesOf(q)' = FramesOf(q)
    BY <2>5, <2>7, SameLevels DEF Opened
  <2>13. StackFollows(q)'
    <3>1. PathOnStack(path) /\ Len(stack) = Len(path)
      BY IdleStack
    <3>2. \A i \in 1 .. Len(q) : stack'[i].kind = q[i].tree.node
      BY <2>2, <2>5, <2>8, <3>1 DEF PathOnStack
    <3>3. Len(stack') = Len(q) /\ Len(frames') = FramesOf(q)
      BY <1>1, <2>2, <2>5, <2>9, <3>1 DEF FramesOf, b
    <3>4. PathOnStack(q)'
      BY <2>11, <2>12, <3>2, <3>3 DEF PathOnStack
    <3>5. QED
      BY <2>5, <2>12, <3>4, Unopened
  <2>14. OpenedEmpty'
    BY <2>12 DEF OpenedEmpty
  <2>15. PlanFollows(q)'
    BY <2>10, <2>11, <2>12 DEF PlanFollows
  <2>16. PendingFollows(q)'
    <3>1. Len(buffer) \in Nat
      BY LenProperties DEF TypeOK, TextOK
    <3>2. Len(buffer) # NoOffset
      BY <3>1 DEF NoOffset
    <3>3. NamePending'
      BY <2>9, <3>2 DEF NamePending
    <3>4. QED
      BY <2>12, <3>3 DEF PendingFollows
  <2>17. NamesFollow(q)'
    <3>1. ASSUME NEW i \in DOMAIN q, q[i].tree.node = "Object", i # Len(path)
          PROVE  NamesFollowAt(q[i])'
      <4>1. i \in DOMAIN path /\ q[i] = path[i] /\ path[i] \in Level
        BY <2>5, <2>8, <3>1, ElementOfSeq
      <4>2. NamesFollowAt(path[i])
        BY <2>3, <3>1, <4>1 DEF NamesFollow
      <4>3. path[i].frame \in 1 .. top /\ path[i].frame < top
        <5>1. FramesOf(path) = top
          BY <1>1 DEF FramesOf, b
        <5>2. QED
          BY <1>1, <2>3, <3>1, <4>1, <5>1, FramesBelow
      <4>4. frames'[path[i].frame] = frames[path[i].frame]
        BY SMTT(30), <1>1, <2>9, <4>3
      <4>5. MembersEnd(path[i].frame)' = MembersEnd(path[i].frame)
        <5>1. path[i].frame + 1 \in 1 .. top
          BY <1>1, <4>3
        <5>2. QED
          BY <2>9, <4>3, <5>1 DEF MembersEnd
      <4>6. Pends(path[i].frame) => frames[path[i].frame].pending < Len(buffer)
        <5>1. ~At("produce")
          BY DEF At
        <5>2. QED
          BY <1>1, <4>3, <5>1, PendingWritten
      <4>7. Len(buffer) \in Nat
        BY LenProperties DEF TypeOK, TextOK
      <4>8. NamesFollowAt(path[i])'
        BY <1>1, <2>2, <4>1, <4>2, <4>3, <4>4, <4>5, <4>6, <4>7, NamesKept
      <4>9. QED
        BY <4>1, <4>8
    <3>2. NamesFollowAt(Bottom(q))'
      <4> DEFINE l == Bottom(q)
                 f == l.frame
      <4>1. l.taken = b.taken + 1 /\ l.tree = b.tree /\ f = b.frame /\ f = top
        BY <1>1, <2>6
      <4> HIDE DEF l
      <4>2. Pends(f)' /\ frames'[f].pending = Len(buffer') /\ Len(buffer') \in Nat
        <5>1. Len(buffer) \in Nat /\ buffer' = buffer
          BY <2>2, LenProperties DEF TypeOK, TextOK
        <5>2. QED
          BY <2>9, <4>1, <5>1 DEF Pends, NoOffset
      <4>3. RecordedOf(l)' = b.taken /\ RecordedOf(b) = b.taken
        BY <1>1, <2>4, <4>1, <4>2 DEF RecordedOf
      <4>4. MembersEnd(f)' = MembersEnd(b.frame)
        <5>1. open_members' = open_members
          BY <2>2
        <5>2. QED
          BY <1>1, <2>9, <4>1, <5>1 DEF MembersEnd
      <4>5. frames'[f].members = frames[b.frame].members
        BY <1>1, <2>9, <4>1
      <4>6. n = MemberName(l.tree, l.taken)
        BY <4>1 DEF b
      <4>7. todo' # <<>> /\ todo'[1] = Produce(MemberName(l.tree, l.taken))
        BY <2>10, <4>6
      <4>8. l.taken > 0
        BY <2>4, <4>1
      <4>9. /\ MembersEnd(b.frame) = frames[b.frame].members + b.taken
            /\ \A k \in 1 .. b.taken :
                  buffer[open_members[frames[b.frame].members + k].start + 1] = MemberName(b.tree, k)
        BY <1>1, <4>3 DEF NamesFollowAt
      <4>10. ~(frames'[f].pending < Len(buffer'))
        BY <4>2
      <4>11. \A k \in 1 .. b.taken :
                buffer'[open_members'[frames'[f].members + k].start + 1] = MemberName(l.tree, k)
        BY <2>2, <4>1, <4>5, <4>9
      <4>12. NamesFollowAt(l)'
        BY <4>2, <4>3, <4>4, <4>5, <4>7, <4>8, <4>9, <4>10, <4>11 DEF NamesFollowAt, MemberName
      <4>13. QED
        BY <4>12 DEF l
    <3>3. QED
      BY <2>8, <3>1, <3>2 DEF NamesFollow
  <2>18. Framed(q)'
    BY <2>12, <2>13, <2>14, <2>15, <2>16, <2>17 DEF Framed
  <2>19. QED
    BY <2>2, <2>18 DEF q, b
<1>4. QED
  BY <1>2, <1>3

LEMMA EndArrayFollows ==
    ASSUME TypeOK, Consistent, todo = <<>>, ~refused, Stacked, Stacked',
           NEW path \in Seq(Level), EncodingFollows(path),
           path # <<>>, Bottom(path).tree.node = "Array", EndArray
    PROVE  ~refused' /\ answer' = "running" /\ started' = started /\ Framed(Front(path))'
<1> DEFINE q == Front(path)
<1>1. Top("Array")
  BY IdleStack DEF Top
<1>2. /\ UNCHANGED <<frames, buffer, open_members, stack, started>>
      /\ todo' = <<Produce("]"), Pop, AfterValue>> /\ answer' = "running" /\ ~refused'
  BY <1>1 DEF EndArray, EndContainer, Run, text, opened
<1>3. LevelsFit(path) /\ NamesFollow(path) /\ PathOnStack(path) /\ Len(stack) = Len(path)
  BY IdleStack DEF EncodingFollows
<1>4. /\ q \in Seq(Level) /\ Len(q) = Len(path) - 1 /\ Len(path) \in Nat \ {0}
      /\ \A i \in 1 .. Len(path) - 1 : q[i] = path[i] /\ i \in DOMAIN path
      /\ LevelsFit(q) /\ ~Due(q) /\ FramesOf(q) + ObjectIn(Bottom(path).tree) = FramesOf(path)
  BY <1>3, FrontPath
<1>5. ObjectIn(Bottom(path).tree) = 0 /\ FramesOf(q) \in Nat /\ FramesOf(path) \in Nat
  BY <1>3, <1>4, FramesCounted DEF ObjectIn
<1>6. DOMAIN q = 1 .. Len(path) - 1
  BY <1>4, LenProperties
<1> HIDE DEF q
<1>7. /\ \A i : i \in DOMAIN todo' <=> i = 1 \/ i = 2 \/ i = 3
      /\ todo'[1].op = "produce" /\ todo'[2].op = "pop" /\ todo'[3].op = "after_value"
  BY <1>2 DEF Produce, Pop, AfterValue
<1>8. \A op : Ahead(op)' <=> op \in {"produce", "pop", "after_value"}
  BY <1>7 DEF Ahead
<1>9. Opened' = FALSE /\ Opening' = FALSE /\ Ahead("pop")' = TRUE /\ Ahead("after_value")' = TRUE
  BY <1>8 DEF Opened, Opening
<1>10. LevelsFit(q)' /\ Due(q)' = FALSE /\ FramesOf(q)' = FramesOf(q)
  BY <1>4, SameLevels
<1>11. StackFollows(q)'
  <2>1. Len(stack') = Len(q) + 1 /\ Len(frames') = FramesOf(q)
    BY <1>2, <1>3, <1>4, <1>5, IdleStack DEF PathOnStack
  <2>2. \A i \in 1 .. Len(q) : stack'[i].kind = q[i].tree.node
    BY <1>2, <1>3, <1>4 DEF PathOnStack
  <2>3. PathOnStack(q)'
    BY <1>9, <1>10, <2>1, <2>2 DEF PathOnStack
  <2>4. QED
    BY <1>4, <1>9, <2>3, Unopened
<1>12. OpenedEmpty'
  BY <1>9 DEF OpenedEmpty
<1>13. PlanFollows(q)'
  <2>1. \A i \in DOMAIN todo' : todo'[i].op # "push_open"
    BY <1>7
  <2>2. QED
    BY <1>9, <1>10, <2>1 DEF PlanFollows, Opening
<1>14. PendingFollows(q)'
  BY <1>9, <1>10 DEF PendingFollows
<1>15. NamesFollow(q)'
  <2>1. NamesFollow(q)
    BY <1>3, <1>4, <1>6 DEF NamesFollow
  <2>2. NamesFollow(path)'
    <3>1. ~At("produce")
      BY DEF At
    <3>2. \A f \in DOMAIN frames : frames'[f] = frames[f] /\ MembersEnd(f)' = MembersEnd(f)
      BY <1>2 DEF MembersEnd
    <3>3. StackFollows(path)
      BY DEF EncodingFollows
    <3>4. QED
      BY <1>2, <1>3, <3>1, <3>2, <3>3, WrittenNames
  <2>3. \A i \in DOMAIN q : i \in DOMAIN path /\ q[i] = path[i]
    BY <1>4, <1>6
  <2>4. \A i \in DOMAIN q : NamesFollowAt(q[i])' <=> NamesFollowAt(path[i])'
    BY <2>3
  <2>5. QED
    BY <2>2, <2>3, <2>4 DEF NamesFollow
<1>16. QED
  BY <1>2, <1>10, <1>11, <1>12, <1>13, <1>14, <1>15 DEF Framed, q

(* An item taken is due: nothing of the writer changes. *)
LEMMA ItemFollows ==
    ASSUME TypeOK, Consistent, todo = <<>>, Stacked, Stacked',
           UNCHANGED <<stack, frames, buffer, open_members, todo>>,
           NEW path \in Seq(Level), EncodingFollows(path),
           path # <<>>, Bottom(path).tree.node = "Array",
           NEW q \in Seq(Level), LevelsFit(q), SameContainers(path, q)
    PROVE  Framed(q)'
<1>1. /\ Len(q) = Len(path) /\ FramesOf(q) = FramesOf(path)
      /\ Len(path) \in Nat /\ DOMAIN path = 1 .. Len(path) /\ DOMAIN q = 1 .. Len(q)
      /\ \A i \in DOMAIN path :
            /\ q[i].tree = path[i].tree /\ q[i].frame = path[i].frame
            /\ q[i].tree.node = "Object" => q[i].taken = path[i].taken
  BY LenProperties DEF SameContainers
<1>2. /\ PathOnStack(path) /\ Len(stack) = Len(path) /\ ~Opened /\ \A op : ~Ahead(op)
      /\ LevelsFit(path) /\ NamesFollow(path) /\ Last(stack).kind = "Array"
  BY IdleStack DEF EncodingFollows
<1>3. StackFollows(q)
  <2>1. PathOnStack(q)
    BY <1>1, <1>2 DEF PathOnStack
  <2>2. QED
    BY <1>2, <2>1, Unopened
<1>4. NamesFollow(q)
  BY <1>1, <1>2, NamesOfMoved
<1>5. NamesFollow(q)'
  <2>1. ~At("produce")
    BY DEF At
  <2>2. \A f \in DOMAIN frames : frames'[f] = frames[f] /\ MembersEnd(f)' = MembersEnd(f)
    BY DEF MembersEnd
  <2>3. QED
    BY <1>3, <1>4, <2>1, <2>2, WrittenNames
<1>6. (\A op : Ahead(op)' = FALSE) /\ Opened' = FALSE /\ todo' = <<>>
  BY DEF Ahead, Opened
<1>7. LevelsFit(q)' /\ FramesOf(q)' = FramesOf(q)
  BY SameLevels
<1>8. StackFollows(q)'
  <2>1. PathOnStack(q)'
    BY <1>1, <1>2, <1>6, <1>7 DEF PathOnStack
  <2>2. QED
    BY <1>6, <2>1, Unopened
<1>9. OpenedEmpty' /\ PlanFollows(q)'
  BY <1>6 DEF OpenedEmpty, PlanFollows
<1>10. PendingFollows(q)'
  <2>1. ~Top("Object")'
    BY <1>2 DEF Top
  <2>2. QED
    BY <2>1 DEF PendingFollows
<1>11. QED
  BY <1>5, <1>7, <1>8, <1>9, <1>10 DEF Framed

(* An object's recorded members have names of their own, as its tree's     *)
(* have, and in whatever order they are sorted no two neighbours are equal.*)
LEMMA NoDuplicate ==
    ASSUME TypeOK, Consistent, todo = <<>>, EndObjectError = "none",
           NEW l \in Level, NamesFollowAt(l), l.tree.node = "Object", l.frame = Len(frames),
           l.taken <= Size(l.tree), ~Pends(l.frame),
           NEW members \in SortedMembers(SubSeq(open_members, TopFrame.members + 1,
                                                Len(open_members)))
    PROVE  CloseError(members) \in {"Internal", "CanonicalBytes", "none"}
<1> DEFINE own == SubSeq(open_members, TopFrame.members + 1, Len(open_members))
           m == TopFrame.members
           NameOf(k) == MemberName(l.tree, k)
<1>1. /\ frames # <<>> /\ Len(frames) \in Nat \ {0} /\ Len(frames) \in DOMAIN frames
      /\ TopFrame = frames[Len(frames)] /\ m \in Nat /\ m <= Len(open_members)
  BY Closing
<1>2. /\ open_members \in Seq(Span) /\ Len(open_members) \in Nat
      /\ \A i \in 1 .. Len(open_members) :
            /\ InBuffer(open_members[i]) /\ open_members[i].start < open_members[i].end
  BY <1>1, MembersInBuffer DEF TypeOK, OpenedOK
<1>3. l.tree \in Trees /\ l.taken \in Nat /\ IsContainer(l.tree)
  BY DEF Level, IsContainer
<1>4. /\ Len(own) = Len(open_members) - m /\ own \in Seq(Span)
      /\ \A k \in 1 .. Len(own) : m + k \in 1 .. Len(open_members) /\ own[k] = open_members[m + k]
  <2>1. m \in Nat /\ m <= Len(open_members) /\ open_members \in Seq(Span)
    BY <1>1, <1>2
  <2>2. own = SubSeq(open_members, m + 1, Len(open_members))
    OBVIOUS
  <2> HIDE DEF m, own
  <2>3. \A k \in 1 .. Len(own) : m + k \in 1 .. Len(open_members) /\ own[k] = open_members[m + k]
    BY <2>1, <2>2, SuffixElements
  <2>4. Len(own) = Len(open_members) - m /\ own \in Seq(Span)
    BY <2>1, <2>2, SuffixType
  <2>5. QED
    BY <2>3, <2>4
<1>5. /\ Len(own) = l.taken
      /\ \A k \in 1 .. l.taken : buffer[open_members[m + k].start + 1] = NameOf(k)
  <2>1. RecordedOf(l) = l.taken /\ MembersEnd(l.frame) = Len(open_members)
    BY <1>1 DEF RecordedOf, MembersEnd
  <2>2. /\ Len(open_members) = m + l.taken
        /\ \A k \in 1 .. l.taken : buffer[open_members[m + k].start + 1] = NameOf(k)
    BY <1>1, <2>1 DEF NamesFollowAt
  <2>3. QED
    BY <1>1, <1>2, <1>3, <1>4, <2>2
<1>6. /\ \A k \in 1 .. l.taken : NameOf(k) \in Names
      /\ \A j, k \in 1 .. l.taken : NameOf(j) = NameOf(k) => j = k
  <2>1. /\ \A k \in 1 .. Size(l.tree) : NameOf(k) \in Names
        /\ \A j, k \in 1 .. Size(l.tree) : NameOf(j) = NameOf(k) => j = k
        /\ Size(l.tree) \in Nat
    BY <1>3, TreeChildren
  <2>2. 1 .. l.taken \subseteq 1 .. Size(l.tree)
    BY <1>3, <2>1
  <2>3. QED
    BY <2>1, <2>2
<1>7. DOMAIN own = 1 .. l.taken
  BY <1>4, <1>5, LenProperties
<1> HIDE DEF own, NameOf, m
<1>8. ASSUME NEW k \in 1 .. l.taken
      PROVE  MemberRank(own[k]) = Rank[NameOf(k)]
  <2>1. own[k] = open_members[m + k] /\ InBuffer(own[k]) /\ own[k].start < own[k].end
    BY <1>2, <1>4, <1>5
  <2>2. buffer[own[k].start + 1] = NameOf(k)
    BY <1>5, <2>1
  <2>3. QED
    BY <2>1, <2>2 DEF MemberRank
<1>9. PICK p \in [1 .. l.taken -> 1 .. l.taken] :
        /\ \A i, j \in 1 .. l.taken : i < j => p[i] # p[j]
        /\ members = [i \in 1 .. l.taken |-> own[p[i]]]
  <2>1. members \in SortedMembers(own)
    BY DEF own, m
  <2>2. QED
    BY SMTT(30), <1>7, <2>1 DEF SortedMembers
<1>10. Len(members) = l.taken
  BY <1>4, <1>5, SortedType DEF own, m
<1>11. ASSUME NEW i \in 1 .. l.taken
       PROVE  MemberRank(members[i]) = Rank[NameOf(p[i])]
  <2>1. members[i] = own[p[i]] /\ p[i] \in 1 .. l.taken
    BY <1>9
  <2>2. QED
    BY <1>8, <2>1
<1>12. ASSUME NEW i \in 1 .. l.taken - 1
       PROVE  MemberRank(members[i]) # MemberRank(members[i + 1])
  <2>1. i \in 1 .. l.taken /\ i + 1 \in 1 .. l.taken /\ i < i + 1
    BY <1>3
  <2>2. p[i] \in 1 .. l.taken /\ p[i + 1] \in 1 .. l.taken /\ p[i] # p[i + 1]
    BY <1>9, <2>1
  <2>3. NameOf(p[i]) # NameOf(p[i + 1]) /\ NameOf(p[i]) \in Names /\ NameOf(p[i + 1]) \in Names
    BY <1>6, <2>2
  <2>4. Rank[NameOf(p[i])] # Rank[NameOf(p[i + 1])]
    BY <2>3, RankAssumption
  <2>5. QED
    BY <1>11, <2>1, <2>4
<1>13. QED
  BY <1>10, <1>12 DEF CloseError

LEMMA CloseAnswers ==
    ASSUME EndObjectEvent, EndObjectError = "none", ~refused,
           \A members \in SortedMembers(SubSeq(open_members, TopFrame.members + 1,
                                               Len(open_members))) :
               CloseError(members) \in {"Internal", "CanonicalBytes", "none"}
    PROVE  \/ refused' /\ answer' \in {"Internal", "CanonicalBytes", "ObjectBytes", "Allocation"}
           \/ /\ ~refused' /\ answer' = "running" /\ stack' = Front(stack) /\ frames' = Front(frames)
              /\ buffer' = buffer /\ started' = started
              /\ \/ Len(frames) = 1 /\ todo' = <<Walk, AfterValue>>
                 \/ /\ Len(frames) > 1 /\ todo' = <<AfterValue>>
                    /\ open_members' = Kept(open_members, TopFrame.members)
<1> DEFINE own == SubSeq(open_members, TopFrame.members + 1, Len(open_members))
           children == SubSeq(open_children, TopFrame.children + 1, Len(open_children))
<1>1. stack' = Front(stack) /\ frames' = Front(frames) /\ buffer' = buffer /\ started' = started
  BY DEF EndObjectEvent
<1>2. PICK members \in SortedMembers(own) :
        \/ CloseError(members) # "none" /\ Refuse(CloseError(members))
        \/ Len(frames) = 1 /\ CloseOutermost(members)
        \/ Len(frames) > 1 /\ CloseNested(members)
  BY DEF EndObjectEvent
<1> HIDE DEF own
<1>3. CloseError(members) \in {"Internal", "CanonicalBytes", "none"}
  BY <1>2 DEF own
<1>4. CASE CloseError(members) # "none" /\ Refuse(CloseError(members))
  BY <1>3, <1>4 DEF Refuse
<1>5. CASE Len(frames) = 1 /\ CloseOutermost(members)
  <2>1. Run(<<Walk, AfterValue>>)
    BY <1>5 DEF CloseOutermost
  <2>2. QED
    BY <1>1, <1>5, <2>1 DEF Run
<1>6. CASE Len(frames) > 1 /\ CloseNested(members)
  <2>1. PICK done \in 0 .. 5 :
          /\ open_members' = IF done >= 3 THEN Kept(open_members, TopFrame.members)
                             ELSE open_members
          /\ IF done = 5 THEN Run(<<AfterValue>>)
             ELSE /\ StageFault(done, members, children) # "none"
                  /\ Refuse(StageFault(done, members, children))
    BY <1>6 DEF CloseNested
  <2>2. StageFault(done, members, children) \in {"Internal", "ObjectBytes", "Allocation", "none"}
    BY DEF StageFault
  <2> HIDE DEF children
  <2>3. CASE done = 5
    BY <1>1, <1>6, <2>1, <2>3 DEF Run
  <2>4. CASE done # 5
    BY <2>1, <2>2, <2>4 DEF Refuse
  <2>5. QED
    BY <2>3, <2>4
<1>7. QED
  BY <1>2, <1>4, <1>5, <1>6

LEMMA EndObjectFollows ==
    ASSUME TypeOK, TypeOK', Consistent, todo = <<>>, ~refused, Stacked, Stacked',
           NEW path \in Seq(Level), EncodingFollows(path),
           path # <<>>, Bottom(path).tree.node = "Object", ~Due(path), EndObjectEvent
    PROVE  \/ refused' /\ answer' \in {"Internal", "CanonicalBytes", "ObjectBytes", "Allocation"}
           \/ ~refused' /\ answer' = "running" /\ started' = started /\ Framed(Front(path))'
<1> DEFINE q == Front(path)
           b == Bottom(path)
           n == Len(frames)
<1>1. /\ Top("Object") /\ frames # <<>> /\ b.frame = n
      /\ n \in DOMAIN frames /\ n \in Nat \ {0}
      /\ DOMAIN frames = 1 .. n /\ TopFrame = frames[n]
      /\ ~NamePending /\ ~Pends(n) /\ b.taken = b.visited
      /\ NamesFollowAt(b) /\ b \in Level
      /\ Len(path) \in DOMAIN path /\ b = path[Len(path)]
  BY InnermostObject
<1>2. /\ LevelsFit(path) /\ NamesFollow(path) /\ StackFollows(path)
      /\ PathOnStack(path) /\ Len(stack) = Len(path)
  BY IdleStack DEF EncodingFollows
<1>3. EndObjectError = "none"
  BY <1>1 DEF EndObjectError
<1>4. b.taken <= Size(b.tree) /\ b.tree.node = "Object"
  BY <1>1, <1>2, LevelFacts
<1> SUFFICES ASSUME ~(refused' /\ answer' \in {"Internal", "CanonicalBytes", "ObjectBytes", "Allocation"})
             PROVE  ~refused' /\ answer' = "running" /\ started' = started /\ Framed(q)'
  OBVIOUS
<1>5. \A members \in SortedMembers(SubSeq(open_members, TopFrame.members + 1,
                                          Len(open_members))) :
          CloseError(members) \in {"Internal", "CanonicalBytes", "none"}
  BY <1>1, <1>3, <1>4, NoDuplicate
<1>6. /\ ~refused' /\ answer' = "running" /\ stack' = Front(stack) /\ frames' = Front(frames)
      /\ buffer' = buffer /\ started' = started
      /\ \/ n = 1 /\ todo' = <<Walk, AfterValue>>
         \/ n > 1 /\ todo' = <<AfterValue>> /\ open_members' = Kept(open_members, TopFrame.members)
  BY <1>3, <1>5, CloseAnswers
<1>7. /\ q \in Seq(Level) /\ Len(q) = Len(path) - 1 /\ Len(path) \in Nat \ {0}
      /\ \A i \in 1 .. Len(path) - 1 : q[i] = path[i] /\ i \in DOMAIN path
      /\ LevelsFit(q) /\ ~Due(q) /\ FramesOf(q) + ObjectIn(b.tree) = FramesOf(path)
  BY <1>2, FrontPath
<1>8. /\ DOMAIN q = 1 .. Len(path) - 1 /\ FramesOf(path) = n /\ FramesOf(q) = n - 1
  <2>1. DOMAIN q = 1 .. Len(path) - 1
    BY <1>7, LenProperties
  <2>2. FramesOf(path) = n /\ ObjectIn(b.tree) = 1
    BY <1>1, <1>4 DEF FramesOf, ObjectIn
  <2>3. FramesOf(q) \in Nat
    BY <1>7, FramesCounted
  <2>4. QED
    BY <1>1, <1>7, <2>1, <2>2, <2>3
<1> HIDE DEF q, b
<1>9. /\ Len(frames') = n - 1 /\ \A k \in 1 .. n - 1 : frames'[k] = frames[k]
  BY <1>3, <1>6, ClosedFrames
<1>10. /\ \A i \in DOMAIN todo' : todo'[i].op \in {"write_out", "after_value"}
       /\ Ahead("after_value")'
  <2>1. CASE todo' = <<Walk, AfterValue>>
    <3>1. /\ \A i : i \in DOMAIN todo' <=> i = 1 \/ i = 2
          /\ todo'[1].op = "write_out" /\ todo'[2].op = "after_value"
      BY <2>1 DEF Walk, AfterValue
    <3>2. QED
      BY <3>1 DEF Ahead
  <2>2. CASE todo' = <<AfterValue>>
    <3>1. /\ \A i : i \in DOMAIN todo' <=> i = 1
          /\ todo'[1].op = "after_value"
      BY <2>2 DEF AfterValue
    <3>2. QED
      BY <3>1 DEF Ahead
  <2>3. QED
    BY <1>6, <2>1, <2>2
<1>11. /\ \A op : op \notin {"write_out", "after_value"} => Ahead(op)' = FALSE
       /\ Opened' = FALSE /\ Opening' = FALSE /\ Ahead("after_value")' = TRUE
  <2>1. \A op : op \notin {"write_out", "after_value"} => Ahead(op)' = FALSE
    BY <1>10 DEF Ahead
  <2>2. QED
    BY <1>10, <2>1 DEF Opened, Opening
<1>12. LevelsFit(q)' /\ Due(q)' = FALSE /\ FramesOf(q)' = FramesOf(q)
  BY <1>7, SameLevels
<1>13. StackFollows(q)'
  <2>1. /\ Len(Front(stack)) = Len(stack) - 1
        /\ \A i \in 1 .. Len(stack) - 1 : Front(stack)[i] = stack[i]
    BY <1>1, FrontLast DEF Top, TypeOK, StackOK
  <2>2. Len(stack') = Len(q) /\ Len(frames') = FramesOf(q)
    BY <1>2, <1>6, <1>7, <1>8, <1>9, <2>1
  <2>3. \A i \in 1 .. Len(q) : stack'[i] = stack[i] /\ i \in 1 .. Len(path)
    BY <1>2, <1>6, <1>7, <2>1
  <2>4. \A i \in 1 .. Len(q) : stack'[i].kind = q[i].tree.node
    BY <1>2, <1>7, <2>3 DEF PathOnStack
  <2>5. PathOnStack(q)'
    BY <1>11, <1>12, <2>2, <2>4 DEF PathOnStack
  <2>6. QED
    BY <1>7, <1>11, <2>5, Unopened
<1>14. OpenedEmpty'
  BY <1>11 DEF OpenedEmpty
<1>15. PlanFollows(q)'
  <2>1. \A i \in DOMAIN todo' : todo'[i].op # "push_open"
    BY <1>10
  <2>2. QED
    BY <1>11, <1>12, <2>1 DEF PlanFollows, Opening
<1>16. PendingFollows(q)'
  BY <1>11, <1>12 DEF PendingFollows
<1>17. ASSUME NEW i \in DOMAIN q, q[i].tree.node = "Object"
       PROVE  NamesFollowAt(q[i])'
  <2>1. i \in DOMAIN path /\ q[i] = path[i] /\ i # Len(path) /\ path[i] \in Level
    BY <1>7, <1>8, ElementOfSeq
  <2>2. NamesFollowAt(path[i])
    BY <1>2, <1>17, <2>1 DEF NamesFollow
  <2>3. path[i].frame \in 1 .. n /\ path[i].frame < n
    BY <1>2, <1>4, <1>8, <1>17, <2>1, FramesBelow DEF b
  <2>4. n > 1 /\ open_members' = Kept(open_members, TopFrame.members)
    BY <1>1, <1>6, <2>3
  <2>5. /\ open_members \in Seq(Span) /\ TopFrame.members \in Nat
        /\ TopFrame.members <= Len(open_members)
    BY <1>3, Closing DEF TypeOK, OpenedOK
  <2>6. /\ Len(open_members') = TopFrame.members
        /\ \A k \in 1 .. TopFrame.members : open_members'[k] = open_members[k]
    BY <2>4, <2>5, KeptElements
  <2>7. frames'[path[i].frame] = frames[path[i].frame]
    BY SMTT(30), <1>1, <1>9, <2>3
  <2>8. MembersEnd(path[i].frame) = frames[path[i].frame + 1].members
    BY <2>3 DEF MembersEnd
  <2>9. MembersEnd(path[i].frame)' = MembersEnd(path[i].frame)
    <3>1. CASE path[i].frame = n - 1
      <4>1. MembersEnd(path[i].frame) = TopFrame.members
        BY <1>1, <2>8, <3>1
      <4>2. QED
        BY <1>1, <1>9, <2>6, <3>1, <4>1 DEF MembersEnd
    <3>2. CASE path[i].frame # n - 1
      <4>1. path[i].frame < n - 1 /\ path[i].frame + 1 \in 1 .. n - 1
        BY <1>1, <2>3, <3>2
      <4>2. QED
        BY <1>9, <2>8, <4>1 DEF MembersEnd
    <3>3. QED
      BY <3>1, <3>2
  <2>10. MembersEnd(path[i].frame) <= TopFrame.members /\ MembersEnd(path[i].frame) \in Nat
    <3>1. path[i].frame + 1 \in DOMAIN frames /\ path[i].frame \in DOMAIN frames
      BY <1>1, <2>3
    <3>2. path[i].frame + 1 < n => frames[path[i].frame + 1].members <= frames[n].members
      BY <1>1, <3>1 DEF Consistent, Framing, FramesFit
    <3>3. path[i].frame + 1 = n \/ path[i].frame + 1 < n
      BY <1>1, <2>3
    <3>4. MembersEnd(path[i].frame) \in Nat
      BY <3>1, MembersInBuffer
    <3>5. QED
      BY <1>1, <2>5, <2>8, <3>2, <3>3, <3>4
  <2>11. Pends(path[i].frame) => frames[path[i].frame].pending < Len(buffer)
    <3>1. ~At("produce")
      BY DEF At
    <3>2. QED
      BY <1>1, <2>3, <3>1, PendingWritten
  <2>12. Len(buffer) \in Nat
    BY LenProperties DEF TypeOK, TextOK
  <2>13. \A k \in 1 .. MembersEnd(path[i].frame) : open_members'[k] = open_members[k]
    BY <2>5, <2>6, <2>10
  <2>14. NamesFollowAt(path[i])'
    BY <1>1, <1>6, <2>1, <2>2, <2>3, <2>7, <2>9, <2>11, <2>12, <2>13, NamesKept
  <2>15. QED
    BY <2>1, <2>14
<1>18. NamesFollow(q)'
  BY <1>17 DEF NamesFollow
<1>19. QED
  BY <1>6, <1>12, <1>13, <1>14, <1>15, <1>16, <1>18 DEF Framed

-----------------------------------------------------------------------------
(* The iterators of Value's encoder. *)

(* What a level has left: its first child, and the rest behind it. *)
LEMMA RestOf ==
    ASSUME NEW l \in Level, IsContainer(l.tree), l.taken <= Size(l.tree)
    PROVE  /\ Rest(l) \in Seq(Trees) \cup Seq([name : Names, value : Trees])
           /\ l.taken = 0 => Rest(l) = Children(l.tree)
           /\ Rest(l) = <<>> <=> l.taken = Size(l.tree)
           /\ l.taken < Size(l.tree) =>
                 /\ l.taken + 1 \in 1 .. Size(l.tree)
                 /\ l.tree.node = "Array" => Head(Rest(l)) = Child(l.tree, l.taken + 1)
                 /\ l.tree.node = "Object" =>
                       /\ Head(Rest(l)).name = MemberName(l.tree, l.taken + 1)
                       /\ Head(Rest(l)).value = Child(l.tree, l.taken + 1)
                 /\ Tail(Rest(l)) = SubSeq(Children(l.tree), l.taken + 1 + 1, Size(l.tree))
<1> DEFINE c == Children(l.tree)
           n == Size(l.tree)
           k == l.taken
           Pairs == [name : Names, value : Trees]
<1>1. l.tree \in Trees /\ k \in Nat
  BY DEF Level
<1>2. n \in Nat /\ c \in Seq(Trees) \cup Seq(Pairs) /\ Len(c) = n /\ k <= n
  BY <1>1, TreeChildren
<1>3. Rest(l) = SubSeq(c, k + 1, n)
  BY DEF Rest
<1>4. l.tree.node = "Array" => \A j : c[j] = Child(l.tree, j)
  BY DEF Children, Child
<1>5. l.tree.node = "Object" =>
          \A j : c[j].name = MemberName(l.tree, j) /\ c[j].value = Child(l.tree, j)
  BY DEF Children, Child, MemberName
<1> HIDE DEF c, n, k, Pairs
<1>6. ASSUME NEW S, c \in Seq(S)
      PROVE  /\ SubSeq(c, k + 1, n) \in Seq(S)
             /\ k = 0 => SubSeq(c, k + 1, n) = c
             /\ SubSeq(c, k + 1, n) = <<>> <=> k = n
             /\ k < n => /\ k + 1 \in 1 .. n /\ Head(SubSeq(c, k + 1, n)) = c[k + 1]
                         /\ Tail(SubSeq(c, k + 1, n)) = SubSeq(c, k + 1 + 1, n)
  <2> DEFINE r == SubSeq(c, k + 1, n)
  <2>1. r \in Seq(S) /\ Len(r) = n - k /\ Len(r) \in Nat
    BY <1>1, <1>2, <1>6, SuffixType
  <2>2. \A i \in 1 .. Len(r) : r[i] = c[k + i]
    BY <1>1, <1>2, <1>6, SuffixElements
  <2>3. DOMAIN r = 1 .. Len(r)
    BY <2>1, LenProperties
  <2> HIDE DEF r
  <2>4. k = 0 => r = c
    <3>1. DOMAIN c = 1 .. n
      BY <1>2, <1>6, LenProperties
    <3>2. ASSUME k = 0
          PROVE  r = c
      <4>1. Len(r) = Len(c) /\ \A i \in 1 .. Len(r) : r[i] = c[i]
        BY <1>2, <2>1, <2>2, <3>2
      <4>2. QED
        BY <1>6, <2>1, <4>1, SeqEqual
    <3>3. QED
      BY <3>2
  <2>5. r = <<>> <=> k = n
    BY <1>1, <1>2, <2>1, EmptySeq
  <2>6. ASSUME k < n
        PROVE  /\ k + 1 \in 1 .. n /\ Head(r) = c[k + 1] /\ Tail(r) = SubSeq(c, k + 1 + 1, n)
    <3>1. k + 1 \in 1 .. n /\ r # <<>> /\ 1 \in 1 .. Len(r) /\ k + 1 <= n /\ k + 1 \in Nat
      BY <1>1, <1>2, <2>1, <2>5, <2>6
    <3>2. Head(r) = r[1] /\ r[1] = c[k + 1]
      BY <2>1, <2>2, <3>1, TailElements
    <3>3. /\ Tail(r) \in Seq(S) /\ Len(Tail(r)) = Len(r) - 1
          /\ \A i \in 1 .. Len(r) - 1 : Tail(r)[i] = r[i + 1]
      BY <2>1, <3>1, TailElements
    <3> DEFINE k1 == k + 1
               u == SubSeq(c, k1 + 1, n)
    <3>4. k1 \in Nat /\ k1 = k + 1 /\ k1 <= n
      BY <3>1
    <3> HIDE DEF k1
    <3>5. u \in Seq(S) /\ Len(u) = n - k1 /\ \A i \in 1 .. Len(u) : u[i] = c[k1 + i]
      <4>1. u = SubSeq(c, k1 + 1, Len(c)) /\ k1 \in Nat /\ c \in Seq(S) /\ k1 <= Len(c)
        BY <1>2, <1>6, <3>4
      <4> HIDE DEF u
      <4>2. \A i \in 1 .. Len(u) : u[i] = c[k1 + i]
        BY <4>1, SuffixElements
      <4>3. u \in Seq(S) /\ Len(u) = Len(c) - k1
        BY <4>1, SuffixType
      <4>4. QED
        BY <1>2, <4>2, <4>3
    <3> HIDE DEF u
    <3>6. Len(Tail(r)) = Len(u)
      BY <1>1, <1>2, <2>1, <3>3, <3>4, <3>5
    <3>7. ASSUME NEW i \in 1 .. Len(u)
          PROVE  Tail(r)[i] = u[i]
      <4>1. i \in 1 .. Len(r) - 1 /\ i + 1 \in 1 .. Len(r) /\ k + (i + 1) = k1 + i
        BY <1>1, <1>2, <2>1, <3>4, <3>5
      <4>2. Tail(r)[i] = r[i + 1] /\ r[i + 1] = c[k + (i + 1)] /\ u[i] = c[k1 + i]
        BY <2>2, <3>3, <3>5, <4>1
      <4>3. QED
        BY <4>1, <4>2
    <3>8. Tail(r) = u
      BY <3>3, <3>5, <3>6, <3>7, SeqEqual
    <3>9. QED
      BY <3>1, <3>2, <3>8 DEF u, k1
  <2>7. QED
    BY <2>1, <2>4, <2>5, <2>6 DEF r
<1>7. SubSeq(c, k + 1, n) \in Seq(Trees) \cup Seq(Pairs)
  BY <1>2, <1>6
<1>8. /\ k = 0 => SubSeq(c, k + 1, n) = c
      /\ SubSeq(c, k + 1, n) = <<>> <=> k = n
      /\ k < n => /\ k + 1 \in 1 .. n /\ Head(SubSeq(c, k + 1, n)) = c[k + 1]
                  /\ Tail(SubSeq(c, k + 1, n)) = SubSeq(c, k + 1 + 1, n)
  BY <1>2, <1>6
<1>9. QED
  BY <1>3, <1>4, <1>5, <1>7, <1>8 DEF c, n, k, Pairs

IteratorOf(l) == [node |-> l.tree.node, left |-> Rest(l)]

LEMMA IteratorType ==
    ASSUME NEW l \in Level, IsContainer(l.tree), l.taken <= Size(l.tree)
    PROVE  IteratorOf(l) \in WorkItem
<1> DEFINE c == Rest(l)
           S == Seq(Trees) \cup Seq([name : Names, value : Trees])
<1>1. c \in S /\ l.tree.node \in {"Array", "Object"}
  BY RestOf DEF IsContainer
<1> HIDE DEF c, S
<1>2. [node |-> l.tree.node, left |-> c] \in [node : {"Array", "Object"}, left : S]
  BY <1>1
<1>3. [node : {"Array", "Object"}, left : S] \subseteq WorkItem
  BY DEF WorkItem, S
<1>4. QED
  BY <1>2, <1>3 DEF IteratorOf, c

LEMMA TopIterator ==
    ASSUME NEW path \in Seq(Level), LevelsFit(path), IteratorsFollow(path),
           work \in Seq(WorkItem), work # <<>>
    PROVE  /\ path # <<>> /\ Len(path) \in Nat \ {0} /\ Bottom(path) = path[Len(path)]
           /\ Bottom(path) \in Level /\ IsContainer(Bottom(path).tree)
           /\ Bottom(path).taken <= Size(Bottom(path).tree)
           /\ Last(work) = IteratorOf(Bottom(path))
           /\ Front(work) \in Seq(WorkItem) /\ Len(Front(work)) = Len(path) - 1
           /\ \A i \in 1 .. Len(path) - 1 : Front(work)[i] = IteratorOf(path[i])
<1>1. Len(work) = Len(path) /\ \A i \in DOMAIN path : IteratorAt(i, path[i])
  BY DEF IteratorsFollow
<1>2. /\ Len(work) \in Nat \ {0} /\ Front(work) \in Seq(WorkItem)
      /\ Len(Front(work)) = Len(work) - 1
      /\ \A i \in 1 .. Len(work) - 1 : Front(work)[i] = work[i]
  BY FrontLast
<1>3. path # <<>>
  BY <1>1, <1>2
<1>4. /\ Len(path) \in DOMAIN path /\ DOMAIN path = 1 .. Len(path)
      /\ Bottom(path) = path[Len(path)] /\ Bottom(path) \in Level
  BY <1>3, BottomOf
<1>5. IsContainer(path[Len(path)].tree) /\ path[Len(path)].taken <= Size(path[Len(path)].tree)
  BY <1>4, LevelFacts
<1>6. Last(work) = work[Len(path)]
  BY <1>1 DEF Last
<1>7. \A i \in DOMAIN path : work[i] = IteratorOf(path[i])
  BY <1>1 DEF IteratorAt, IteratorOf
<1>8. QED
  BY <1>1, <1>2, <1>3, <1>4, <1>5, <1>6, <1>7

(* The child taken of a tree is one of its trees. *)
LEMMA ChildTaken ==
    ASSUME NEW l \in Level, IsContainer(l.tree), l.taken < Size(l.tree)
    PROVE  /\ Child(l.tree, l.taken + 1) \in Trees /\ Child(l.tree, l.taken + 1) # Nothing
           /\ l.taken + 1 <= Size(l.tree)
<1>1. l.tree \in Trees /\ l.taken \in Nat
  BY DEF Level
<1>2. Size(l.tree) \in Nat /\ \A k \in 1 .. Size(l.tree) : Child(l.tree, k) \in Trees
  BY <1>1, TreeChildren
<1>3. l.taken + 1 \in 1 .. Size(l.tree)
  BY <1>1, <1>2
<1>4. Child(l.tree, l.taken + 1) \in Trees
  BY <1>2, <1>3
<1>5. QED
  BY <1>1, <1>2, <1>3, <1>4, NotNothing

LEMMA IteratorAdvances ==
    ASSUME NEW path \in Seq(Level), LevelsFit(path), IteratorsFollow(path), ~Due(path),
           work \in Seq(WorkItem), work # <<>>,
           Bottom(path).taken < Size(Bottom(path).tree),
           work' = Advanced, value' = Child(Bottom(path).tree, Bottom(path).taken + 1)
    PROVE  /\ work' \in Seq(WorkItem)
           /\ IteratorsFollow(Moved(path, Bottom(path).taken + 1, Bottom(path).visited))'
<1> DEFINE b == Bottom(path)
           v == b.taken + 1
           w == b.visited
           q == Moved(path, v, w)
           r == IteratorOf(q[Len(path)])
<1>1. /\ path # <<>> /\ Len(path) \in Nat \ {0} /\ b = path[Len(path)]
      /\ b \in Level /\ IsContainer(b.tree) /\ b.taken <= Size(b.tree)
      /\ Last(work) = IteratorOf(b)
      /\ Front(work) \in Seq(WorkItem) /\ Len(Front(work)) = Len(path) - 1
      /\ \A i \in 1 .. Len(path) - 1 : Front(work)[i] = IteratorOf(path[i])
  BY TopIterator
<1>2. /\ b.taken \in Nat /\ w \in Nat /\ b.visited = b.taken /\ v \in Nat /\ w = b.visited
      /\ w <= v /\ v <= w + 1 /\ v <= Size(b.tree) /\ b.tree \in Trees /\ v = b.taken + 1
  <2>1. b.taken \in Nat /\ b.visited \in Nat /\ b.tree \in Trees
    BY <1>1 DEF Level
  <2>2. b.visited <= b.taken
    BY <1>1, BottomOf, LevelFacts
  <2>3. ~(b.taken > b.visited)
    BY <1>1 DEF Due
  <2>4. v <= Size(b.tree)
    BY <1>1, ChildTaken
  <2>5. QED
    BY <2>1, <2>2, <2>3, <2>4
<1>3. Child(b.tree, v) \in Trees /\ Child(b.tree, v) # Nothing
  BY <1>1, ChildTaken
<1> HIDE DEF v, w
<1>4. /\ q \in Seq(Level) /\ q # <<>> /\ Len(q) = Len(path) /\ LevelsFit(q)
      /\ \A i \in DOMAIN path : i # Len(path) => q[i] = path[i]
      /\ Bottom(q) = q[Len(path)]
      /\ Bottom(q).taken = v /\ Bottom(q).visited = w /\ Bottom(q).tree = b.tree
  BY SMTT(30), <1>1, <1>2, MovedPath DEF b
<1>5. DOMAIN q = 1 .. Len(path) /\ DOMAIN path = 1 .. Len(path) /\ q[Len(path)] \in Level
  BY <1>1, <1>4, LenProperties, ElementOfSeq
<1> HIDE DEF q
<1>6. r \in WorkItem
  BY <1>1, <1>2, <1>4, <1>5, IteratorType
<1>7. /\ Last(work).node = r.node /\ Tail(Last(work).left) = r.left
      /\ r = [node |-> r.node, left |-> r.left]
  <2>1. Tail(Rest(b)) = SubSeq(Children(b.tree), v + 1, Size(b.tree))
    BY <1>1, <1>2, RestOf DEF v
  <2>2. Tail(Rest(b)) = Rest(q[Len(path)])
    BY <1>4, <2>1 DEF Rest
  <2> HIDE DEF b
  <2>3. QED
    BY <1>1, <1>4, <2>2 DEF IteratorOf
<1> HIDE DEF r
<1>8. work' = Append(Front(work), r)
  BY <1>7 DEF Advanced
<1>9. /\ work' \in Seq(WorkItem) /\ Len(work') = Len(path) /\ work'[Len(path)] = r
      /\ \A i \in 1 .. Len(path) - 1 : work'[i] = Front(work)[i]
  <2>1. /\ work' \in Seq(WorkItem) /\ Len(work') = Len(path) - 1 + 1
        /\ work'[Len(path) - 1 + 1] = r
        /\ \A i \in 1 .. Len(path) - 1 : work'[i] = Front(work)[i]
    BY <1>1, <1>6, <1>8, AppendProperties
  <2>2. QED
    BY <1>1, <2>1
<1>10. ASSUME NEW i \in DOMAIN q
       PROVE  work'[i] = IteratorOf(q[i])
  <2>1. CASE i = Len(path)
    BY <1>9, <2>1 DEF r
  <2>2. CASE i # Len(path)
    <3>1. i \in 1 .. Len(path) - 1 /\ i \in DOMAIN path
      BY <1>1, <1>5, <2>2
    <3>2. QED
      BY <1>1, <1>4, <1>9, <2>2, <3>1
  <2>3. QED
    BY <2>1, <2>2
<1>11. \A i \in DOMAIN q : IteratorAt(i, q[i])'
  BY <1>10 DEF IteratorAt, IteratorOf, Rest
<1>12. Due(q)
  BY <1>2, <1>4 DEF Due
<1>13. value' = Child(Bottom(q).tree, Bottom(q).taken) /\ value' # Nothing
  BY <1>3, <1>4 DEF v, b
<1>14. IteratorsFollow(q)'
  <2>1. Due(q)' = TRUE /\ Child(Bottom(q).tree, Bottom(q).taken)' = Child(Bottom(q).tree, Bottom(q).taken)
    BY <1>12 DEF Due, Bottom, Child
  <2>2. QED
    BY <1>4, <1>9, <1>11, <1>13, <2>1 DEF IteratorsFollow, Nothing
<1>15. QED
  BY <1>9, <1>14 DEF q, b, v, w

(* A child visited: the iterators stay and the value is gone. *)
LEMMA IteratorVisited ==
    ASSUME NEW path \in Seq(Level), IteratorsFollow(path),
           work' = work, value' = Nothing,
           NEW q \in Seq(Level), Len(q) = Len(path), ~Due(q),
           \A i \in DOMAIN path : q[i].tree = path[i].tree /\ q[i].taken = path[i].taken
    PROVE  IteratorsFollow(q)'
<1>1. DOMAIN q = DOMAIN path
  BY LenProperties
<1>2. Len(work) = Len(path) /\ \A i \in DOMAIN path : IteratorAt(i, path[i])
  BY DEF IteratorsFollow
<1>3. \A i \in DOMAIN q : IteratorAt(i, q[i])
  BY <1>1, <1>2 DEF IteratorAt, Rest
<1>4. \A i \in DOMAIN q : IteratorAt(i, q[i])'
  BY <1>3 DEF IteratorAt, Rest
<1>5. Due(q)' = FALSE
  BY DEF Due, Bottom
<1>6. Len(work') = Len(q)
  BY <1>2
<1>7. QED
  BY <1>4, <1>5, <1>6 DEF IteratorsFollow, Nothing

(* The root visited: nothing is taken of it. *)
LEMMA NoIterator ==
    ASSUME work' = <<>>, value' = Nothing
    PROVE  IteratorsFollow(<<>>)' /\ work' \in Seq(WorkItem)
<1>1. Len(work') = 0 /\ Len(<<>>) = 0 /\ DOMAIN <<>> = {} /\ work' \in Seq(WorkItem)
  BY EmptySeq
<1>2. Due(<<>>)' = FALSE
  BY DEF Due
<1>3. \A i \in DOMAIN <<>> : IteratorAt(i, <<>>[i])'
  BY <1>1
<1>4. QED
  BY <1>1, <1>2, <1>3 DEF IteratorsFollow, Nothing

LEMMA IteratorPushed ==
    ASSUME NEW path \in Seq(Level), LevelsFit(path), IteratorsFollow(path), ~Due(path),
           work \in Seq(WorkItem), NEW t \in Trees, IsContainer(t), NEW a \in Nat,
           work' = Append(work, Iterator(t)), value' = value
    PROVE  work' \in Seq(WorkItem) /\ IteratorsFollow(Deeper(path, t, a))'
<1> DEFINE q == Deeper(path, t, a)
           n == Len(path)
<1>1. /\ q \in Seq(Level) /\ Len(q) = n + 1 /\ n \in Nat /\ DOMAIN path = 1 .. n
      /\ \A i \in DOMAIN path : q[i] = path[i]
      /\ Bottom(q) = q[n + 1]
      /\ Bottom(q).tree = t /\ Bottom(q).taken = 0
      /\ LevelsFit(q) /\ ~Due(q)
  <2> DEFINE b == Bottom(q)
             f == FramesOf(path) + ObjectIn(t)
  <2>1. b = [tree |-> t, taken |-> 0, visited |-> 0, frame |-> f, at |-> a]
    BY DeeperPath
  <2>2. /\ q \in Seq(Level) /\ Len(q) = n + 1 /\ n \in Nat /\ DOMAIN path = 1 .. n
        /\ \A i \in DOMAIN path : q[i] = path[i]
        /\ b = q[n + 1] /\ LevelsFit(q) /\ ~Due(q)
    BY ZenonT(30), DeeperPath
  <2> HIDE DEF b, f, q
  <2>3. b.tree = t /\ b.taken = 0
    BY <2>1
  <2>4. QED
    BY <2>2, <2>3 DEF b
<1> HIDE DEF q
<1>2. DOMAIN q = 1 .. n + 1 /\ q[n + 1] \in Level
  BY <1>1, LenProperties, ElementOfSeq
<1>3. Size(t) \in Nat /\ 0 <= Size(t)
  BY TreeChildren
<1>4. Rest(q[n + 1]) = Children(t) /\ IteratorOf(q[n + 1]) \in WorkItem
  BY <1>1, <1>2, <1>3, RestOf, IteratorType
<1>5. Iterator(t) = IteratorOf(q[n + 1])
  BY <1>1, <1>4 DEF Iterator, IteratorOf
<1>6. Len(work) = n /\ (\A i \in DOMAIN path : IteratorAt(i, path[i])) /\ value = Nothing
  BY DEF IteratorsFollow
<1>7. /\ work' \in Seq(WorkItem) /\ Len(work') = n + 1 /\ work'[n + 1] = IteratorOf(q[n + 1])
      /\ \A i \in 1 .. n : work'[i] = work[i]
  BY <1>4, <1>5, <1>6, AppendProperties
<1>8. ASSUME NEW i \in DOMAIN q
      PROVE  work'[i] = IteratorOf(q[i])
  <2>1. CASE i = n + 1
    BY <1>7, <2>1
  <2>2. CASE i # n + 1
    <3>1. i \in 1 .. n
      BY <1>1, <1>2, <2>2
    <3>2. work[i] = IteratorOf(path[i])
      BY <1>1, <1>6, <3>1 DEF IteratorAt, IteratorOf
    <3>3. QED
      BY <1>1, <1>7, <3>1, <3>2
  <2>3. QED
    BY <2>1, <2>2
<1>9. \A i \in DOMAIN q : IteratorAt(i, q[i])'
  BY <1>8 DEF IteratorAt, IteratorOf, Rest
<1>10. Due(q)' = FALSE
  BY <1>1 DEF Due, Bottom
<1>11. IteratorsFollow(q)'
  BY <1>1, <1>6, <1>7, <1>9, <1>10 DEF IteratorsFollow, Nothing
<1>12. QED
  BY <1>7, <1>11 DEF q

LEMMA IteratorPopped ==
    ASSUME NEW path \in Seq(Level), LevelsFit(path), IteratorsFollow(path), ~Due(path),
           work \in Seq(WorkItem), work # <<>>, work' = Front(work), value' = value
    PROVE  work' \in Seq(WorkItem) /\ IteratorsFollow(Front(path))'
<1> DEFINE q == Front(path)
           n == Len(path)
<1>1. /\ path # <<>> /\ n \in Nat \ {0}
      /\ Front(work) \in Seq(WorkItem) /\ Len(Front(work)) = n - 1
      /\ \A i \in 1 .. n - 1 : Front(work)[i] = IteratorOf(path[i])
  BY TopIterator
<1>2. /\ q \in Seq(Level) /\ Len(q) = n - 1 /\ ~Due(q)
      /\ \A i \in 1 .. n - 1 : q[i] = path[i]
  BY <1>1, FrontPath
<1> HIDE DEF q
<1>3. DOMAIN q = 1 .. n - 1
  BY <1>2, LenProperties
<1>4. \A i \in DOMAIN q : work'[i] = IteratorOf(q[i])
  BY <1>1, <1>2, <1>3
<1>5. \A i \in DOMAIN q : IteratorAt(i, q[i])'
  BY <1>4 DEF IteratorAt, IteratorOf, Rest
<1>6. Due(q)' = FALSE
  BY <1>2 DEF Due, Bottom
<1>7. value' = Nothing
  BY DEF IteratorsFollow
<1>8. QED
  BY <1>1, <1>2, <1>5, <1>6, <1>7 DEF IteratorsFollow, Nothing, q

-----------------------------------------------------------------------------
(* NodeRef's tasks. *)

LEMMA TaskTypes ==
    ASSUME NEW t \in Trees
    PROVE  /\ ValueTask(t) \in WorkItem
           /\ \A n \in Names : NameTask(n) \in WorkItem
           /\ IsContainer(t) => EndTask(t.node) \in WorkItem
<1>1. ValueTask(t) \in [do : {"Value"}, tree : Trees]
  BY DEF ValueTask
<1>2. \A n \in Names : NameTask(n) \in [do : {"Name"}, name : Names]
  BY DEF NameTask
<1>3. ASSUME NEW kind \in {"Array", "Object"}
      PROVE  EndTask(kind) \in [do : {"End"}, node : {"Array", "Object"}]
  BY DEF EndTask
<1>4. /\ [do : {"Value"}, tree : Trees] \subseteq WorkItem
      /\ [do : {"Name"}, name : Names] \subseteq WorkItem
      /\ [do : {"End"}, node : {"Array", "Object"}] \subseteq WorkItem
  BY DEF WorkItem
<1>5. IsContainer(t) => t.node \in {"Array", "Object"}
  BY DEF IsContainer
<1>6. QED
  BY <1>1, <1>2, <1>3, <1>4, <1>5

LEMMA FirstBelow ==
    ASSUME NEW S, NEW x \in S, NEW s \in Seq(S)
    PROVE  /\ <<x>> \o s \in Seq(S) /\ Len(<<x>> \o s) = 1 + Len(s) /\ (<<x>> \o s)[1] = x
           /\ \A j \in 1 .. Len(s) : (<<x>> \o s)[j + 1] = s[j]
<1> DEFINE one == <<x>>
<1>1. one \in Seq(S) /\ Len(one) = 1 /\ one[1] = x
  OBVIOUS
<1> HIDE DEF one
<1>2. Len(s) \in Nat
  BY LenProperties
<1>3. /\ one \o s \in Seq(S) /\ Len(one \o s) = Len(one) + Len(s)
      /\ \A i \in 1 .. Len(one) + Len(s) :
            (one \o s)[i] = IF i <= Len(one) THEN one[i] ELSE s[i - Len(one)]
  BY <1>1, ConcatProperties
<1>4. (one \o s)[1] = x
  BY <1>1, <1>2, <1>3
<1>5. ASSUME NEW j \in 1 .. Len(s)
      PROVE  (one \o s)[j + 1] = s[j]
  <2>1. j + 1 \in 1 .. Len(one) + Len(s) /\ ~(j + 1 <= Len(one)) /\ j + 1 - Len(one) = j
    BY <1>1, <1>2
  <2>2. QED
    BY <1>3, <2>1
<1>6. QED
  BY <1>1, <1>3, <1>4, <1>5 DEF one

LEMMA TasksOfArray ==
    ASSUME NEW t \in Trees, t.node = "Array"
    PROVE  /\ TasksFor(t) \in Seq(WorkItem) /\ Len(TasksFor(t)) = 1 + Size(t)
           /\ TasksFor(t)[1] = EndTask(t.node)
           /\ \A k \in 1 .. Size(t) : TasksFor(t)[2 + Size(t) - k] = ValueTask(Child(t, k))
<1> DEFINE n == Size(t)
           e == EndTask(t.node)
           s == [j \in 1 .. n |-> ValueTask(t.items[n - j + 1])]
<1>1. IsContainer(t)
  BY DEF IsContainer
<1>2. n \in Nat /\ e \in WorkItem /\ \A k \in 1 .. n : Child(t, k) \in Trees /\ Child(t, k) = t.items[k]
  BY <1>1, TreeChildren, TaskTypes DEF Child
<1>3. TasksFor(t) = <<e>> \o s
  BY DEF TasksFor, Size
<1> HIDE DEF n, e
<1>4. ASSUME NEW j \in 1 .. n
      PROVE  n - j + 1 \in 1 .. n /\ ValueTask(t.items[n - j + 1]) \in WorkItem
  <2>1. n - j + 1 \in 1 .. n
    BY <1>2
  <2>2. QED
    BY <1>2, <2>1, TaskTypes
<1>5. s \in [1 .. n -> WorkItem]
  BY <1>4
<1>6. \A k \in 1 .. n : n + 1 - k \in 1 .. n /\ s[n + 1 - k] = ValueTask(t.items[k])
  <2>1. ASSUME NEW k \in 1 .. n
        PROVE  n + 1 - k \in 1 .. n /\ n - (n + 1 - k) + 1 = k
    BY <1>2
  <2>2. QED
    BY <2>1
<1>7. s \in Seq(WorkItem) /\ Len(s) = n
  BY <1>2, <1>5, FunctionIsSeq
<1> HIDE DEF s
<1>8. /\ TasksFor(t) \in Seq(WorkItem) /\ Len(TasksFor(t)) = 1 + n /\ TasksFor(t)[1] = e
      /\ \A j \in 1 .. n : TasksFor(t)[j + 1] = s[j]
  BY <1>2, <1>3, <1>7, FirstBelow
<1>9. ASSUME NEW k \in 1 .. n
      PROVE  TasksFor(t)[2 + n - k] = ValueTask(Child(t, k))
  <2> DEFINE j == n + 1 - k
  <2>1. 2 + n - k = j + 1 /\ j \in 1 .. n
    BY <1>2
  <2>2. s[j] = ValueTask(t.items[k])
    BY <1>6
  <2> HIDE DEF j
  <2>3. TasksFor(t)[j + 1] = ValueTask(t.items[k])
    BY <1>8, <2>1, <2>2
  <2>4. QED
    BY <1>2, <2>1, <2>3
<1>10. QED
  BY <1>8, <1>9 DEF n, e

LEMMA TasksOfObject ==
    ASSUME NEW t \in Trees, t.node = "Object"
    PROVE  /\ TasksFor(t) \in Seq(WorkItem) /\ Len(TasksFor(t)) = 1 + 2 * Size(t)
           /\ TasksFor(t)[1] = EndTask(t.node)
           /\ \A k \in 1 .. Size(t) :
                 /\ TasksFor(t)[2 + 2 * (Size(t) - k)] = ValueTask(Child(t, k))
                 /\ TasksFor(t)[3 + 2 * (Size(t) - k)] = NameTask(MemberName(t, k))
<1> DEFINE n == Size(t)
           e == EndTask(t.node)
           K(j) == n - (j - 1) \div 2
           Piece(j) == IF j % 2 = 1 THEN ValueTask(t.members[K(j)].value)
                                    ELSE NameTask(t.members[K(j)].name)
           s == [j \in 1 .. 2 * n |-> Piece(j)]
<1>1. IsContainer(t)
  BY DEF IsContainer
<1>2. /\ n \in Nat /\ e \in WorkItem
      /\ \A k \in 1 .. n : Child(t, k) \in Trees /\ Child(t, k) = t.members[k].value
      /\ \A k \in 1 .. n : t.members[k].name \in Names /\ MemberName(t, k) = t.members[k].name
  BY <1>1, TreeChildren, TaskTypes DEF Child, MemberName
<1>3. TasksFor(t) = <<e>> \o s
  BY DEF TasksFor, Size
<1> HIDE DEF n, e
<1>4. ASSUME NEW j \in 1 .. 2 * n
      PROVE  K(j) \in 1 .. n
  BY <1>2
<1>5. ASSUME NEW k \in 1 .. n
      PROVE  LET j == 1 + 2 * (n - k)
             IN  /\ j \in 1 .. 2 * n /\ j % 2 = 1 /\ K(j) = k
                 /\ j + 1 \in 1 .. 2 * n /\ (j + 1) % 2 # 1 /\ K(j + 1) = k
                 /\ 2 + 2 * (n - k) = j + 1 /\ 3 + 2 * (n - k) = (j + 1) + 1
  BY <1>2
<1> HIDE DEF K
<1>6. ASSUME NEW j \in 1 .. 2 * n
      PROVE  Piece(j) \in WorkItem
  BY <1>2, <1>4, TaskTypes
<1>7. s \in [1 .. 2 * n -> WorkItem] /\ \A j \in 1 .. 2 * n : s[j] = Piece(j)
  BY <1>6
<1>8. s \in Seq(WorkItem) /\ Len(s) = 2 * n
  BY <1>2, <1>7, FunctionIsSeq
<1> HIDE DEF s
<1>9. /\ TasksFor(t) \in Seq(WorkItem) /\ Len(TasksFor(t)) = 1 + 2 * n /\ TasksFor(t)[1] = e
      /\ \A j \in 1 .. 2 * n : TasksFor(t)[j + 1] = s[j]
  BY <1>2, <1>3, <1>8, FirstBelow
<1>10. ASSUME NEW k \in 1 .. n
       PROVE  /\ TasksFor(t)[2 + 2 * (n - k)] = ValueTask(Child(t, k))
              /\ TasksFor(t)[3 + 2 * (n - k)] = NameTask(MemberName(t, k))
  <2> DEFINE j == 1 + 2 * (n - k)
  <2>1. /\ j \in 1 .. 2 * n /\ j % 2 = 1 /\ K(j) = k
        /\ j + 1 \in 1 .. 2 * n /\ (j + 1) % 2 # 1 /\ K(j + 1) = k
        /\ 2 + 2 * (n - k) = j + 1 /\ 3 + 2 * (n - k) = (j + 1) + 1
    BY <1>5
  <2> HIDE DEF j
  <2>2. Piece(j) = ValueTask(t.members[k].value) /\ Piece(j + 1) = NameTask(t.members[k].name)
    BY <2>1
  <2> HIDE DEF Piece
  <2>3. TasksFor(t)[j + 1] = Piece(j) /\ TasksFor(t)[(j + 1) + 1] = Piece(j + 1)
    BY <1>7, <1>9, <2>1
  <2>4. QED
    BY <1>2, <2>1, <2>2, <2>3
<1>11. QED
  BY <1>9, <1>10 DEF n, e

(* Where a level's tasks lie. *)
TaskLevel(l) ==
    /\ l \in Level /\ IsContainer(l.tree)
    /\ l.visited <= l.taken /\ l.taken <= l.visited + 1 /\ l.taken <= Size(l.tree)
    /\ l.tree.node = "Array" => l.taken = l.visited

LEMMA TaskIndices ==
    ASSUME NEW l, TaskLevel(l)
    PROVE  /\ TasksLeft(l) \in Nat /\ l.at \in Nat /\ Size(l.tree) \in Nat
           /\ l.taken \in Nat /\ l.visited \in Nat
           /\ \A k \in l.visited + 1 .. Size(l.tree) :
                 ValueAt(l, k) \in l.at .. l.at + TasksLeft(l)
           /\ l.tree.node = "Object" => \A k \in l.taken + 1 .. Size(l.tree) :
                 NameAt(l, k) \in l.at .. l.at + TasksLeft(l)
<1> DEFINE n == Size(l.tree)
           v == l.taken
           w == l.visited
           a == l.at
           array == l.tree.node = "Array"
<1>1. l \in Level /\ IsContainer(l.tree)
  BY DEF TaskLevel
<1>2. /\ n \in Nat /\ v \in Nat /\ w \in Nat /\ a \in Nat
      /\ w <= v /\ v <= w + 1 /\ v <= n /\ (array => v = w)
  <2>1. l.tree \in Trees /\ v \in Nat /\ w \in Nat /\ a \in Nat
    BY <1>1 DEF Level
  <2>2. n \in Nat
    BY <1>1, <2>1, TreeChildren
  <2>3. QED
    BY <2>1, <2>2 DEF TaskLevel
<1>3. TasksLeft(l) = IF array THEN n - v ELSE (n - w) + (n - v)
  BY DEF TasksLeft
<1>4. \A k : ValueAt(l, k) = a + (IF array THEN 1 + n - k ELSE 1 + 2 * (n - k))
  BY DEF ValueAt
<1>5. \A k : NameAt(l, k) = a + 2 + 2 * (n - k)
  BY DEF NameAt
<1> HIDE DEF n, v, w, a, array
<1>6. TasksLeft(l) \in Nat
  BY <1>2, <1>3
<1>7. ASSUME NEW k \in w + 1 .. n
      PROVE  ValueAt(l, k) \in a .. a + TasksLeft(l)
  <2>1. CASE array
    BY <1>2, <1>3, <1>4, <2>1
  <2>2. CASE ~array
    BY <1>2, <1>3, <1>4, <2>2
  <2>3. QED
    BY <2>1, <2>2
<1>8. ASSUME NEW k \in v + 1 .. n, ~array
      PROVE  NameAt(l, k) \in a .. a + TasksLeft(l)
  BY <1>2, <1>3, <1>5, <1>8
<1>9. l.tree.node = "Object" => ~array
  BY DEF array
<1>10. QED
  BY <1>2, <1>6, <1>7, <1>8, <1>9 DEF n, v, w, a

(* The tasks of a level outlive those above them. *)
LEMMA TasksKept ==
    ASSUME NEW l, TaskLevel(l), NEW m, TaskLevel(m), m.tree = l.tree, m.at = l.at,
           l.taken <= m.taken, l.visited <= m.visited, TasksFollowAt(l),
           \A i \in l.at .. l.at + TasksLeft(m) : work'[i] = work[i]
    PROVE  TasksFollowAt(m)'
<1>1. /\ l.taken \in Nat /\ l.visited \in Nat /\ m.taken \in Nat /\ m.visited \in Nat
      /\ Size(m.tree) \in Nat /\ TasksLeft(m) \in Nat /\ l.at \in Nat
  BY TaskIndices
<1>2. /\ \A k \in m.visited + 1 .. Size(m.tree) : ValueAt(m, k) \in l.at .. l.at + TasksLeft(m)
      /\ m.tree.node = "Object" => \A k \in m.taken + 1 .. Size(m.tree) :
            NameAt(m, k) \in l.at .. l.at + TasksLeft(m)
  BY TaskIndices
<1>3. \A k : ValueAt(m, k) = ValueAt(l, k) /\ NameAt(m, k) = NameAt(l, k)
  BY DEF ValueAt, NameAt
<1>4. ASSUME NEW k \in m.visited + 1 .. Size(m.tree)
      PROVE  work'[ValueAt(m, k)] = ValueTask(Child(m.tree, k))
  <2>1. k \in l.visited + 1 .. Size(l.tree)
    BY <1>1
  <2>2. work[ValueAt(l, k)] = ValueTask(Child(l.tree, k))
    BY <2>1 DEF TasksFollowAt
  <2>3. QED
    BY <1>2, <1>3, <2>2
<1>5. ASSUME NEW k \in m.taken + 1 .. Size(m.tree), m.tree.node = "Object"
      PROVE  work'[NameAt(m, k)] = NameTask(MemberName(m.tree, k))
  <2>1. k \in l.taken + 1 .. Size(l.tree)
    BY <1>1
  <2>2. work[NameAt(l, k)] = NameTask(MemberName(l.tree, k))
    BY <1>5, <2>1 DEF TasksFollowAt
  <2>3. QED
    BY <1>2, <1>3, <1>5, <2>2
<1>6. work'[m.at] = EndTask(m.tree.node)
  <2>1. work[l.at] = EndTask(l.tree.node)
    BY DEF TasksFollowAt
  <2>2. l.at \in l.at .. l.at + TasksLeft(m)
    BY <1>1
  <2>3. QED
    BY <2>1, <2>2
<1>7. m.tree.node = "Array" => m.taken = m.visited
  BY DEF TaskLevel
<1>8. QED
  BY <1>4, <1>5, <1>6, <1>7
     DEF TasksFollowAt, ValueAt, NameAt, EndTask, ValueTask, NameTask, Child, MemberName, Size, Children

LEMMA TaskPlaces ==
    ASSUME NEW path \in Seq(Level), LevelsFit(path), TasksFollow(path)
    PROVE  \A i \in DOMAIN path :
              /\ TaskLevel(path[i]) /\ path[i].at \in Nat \ {0} /\ TasksLeft(path[i]) \in Nat
              /\ LevelTop(path, i) = path[i].at + TasksLeft(path[i])
              /\ LevelTop(path, i) <= Len(work)
              /\ i < Len(path) => LevelTop(path, i) < Bottom(path).at
              /\ i \in 1 .. Len(path)
<1>1. ASSUME NEW i \in DOMAIN path
      PROVE  /\ TaskLevel(path[i]) /\ path[i].at \in Nat /\ TasksLeft(path[i]) \in Nat
             /\ LevelTop(path, i) = path[i].at + TasksLeft(path[i])
             /\ i \in 1 .. Len(path)
  <2>1. Len(path) \in Nat /\ i \in 1 .. Len(path)
    BY LenProperties
  <2>2. path[i] \in Level /\ IsContainer(path[i].tree) /\ path[i].at \in Nat
        /\ TasksLeft(path[i]) \in Nat
    BY LevelFacts
  <2>3. TasksFollowAt(path[i])
    BY DEF TasksFollow
  <2>4. TaskLevel(path[i])
    BY <2>2, <2>3 DEF TaskLevel, LevelsFit, TasksFollowAt
  <2>5. QED
    BY <2>1, <2>2, <2>4 DEF LevelTop
<1>2. ASSUME NEW i \in DOMAIN path
      PROVE  path[i].at # 0
  <2>1. LevelTop(path, i - 1) \in Nat
    <3>1. CASE i = 1
      BY <3>1 DEF LevelTop
    <3>2. CASE i # 1
      <4>1. i - 1 \in DOMAIN path
        BY <1>1, <3>2, LenProperties
      <4>2. QED
        BY <1>1, <4>1
    <3>3. QED
      BY <3>1, <3>2
  <2>2. path[i].at = LevelTop(path, i - 1) + 1
    BY DEF TasksFollow
  <2>3. QED
    BY <2>1, <2>2
<1>3. ASSUME NEW i \in DOMAIN path
      PROVE  /\ i < Len(path) => LevelTop(path, i) < Bottom(path).at
             /\ LevelTop(path, i) <= Len(work)
  <2>1. path # <<>> /\ Len(path) \in DOMAIN path /\ Bottom(path) = path[Len(path)]
    BY BottomOf, EmptySeq
  <2>2. Len(work) = LevelTop(path, Len(path))
    BY DEF TasksFollow
  <2>3. i < Len(path) => LevelTop(path, i) < path[Len(path)].at
    BY <2>1 DEF TasksFollow
  <2>4. LevelTop(path, Len(path)) = path[Len(path)].at + TasksLeft(path[Len(path)])
        /\ path[Len(path)].at \in Nat /\ TasksLeft(path[Len(path)]) \in Nat
    BY <1>1, <2>1
  <2>5. i \in 1 .. Len(path) /\ Len(path) \in Nat /\ LevelTop(path, i) \in Nat
    BY <1>1, <2>1, LenProperties
  <2>6. CASE i = Len(path)
    BY <2>1, <2>2, <2>5, <2>6
  <2>7. CASE i # Len(path)
    BY <2>1, <2>2, <2>3, <2>4, <2>5, <2>7
  <2>8. QED
    BY <2>6, <2>7
<1>4. QED
  BY <1>1, <1>2, <1>3

(* The task on top is the innermost container's next. *)
LEMMA TaskOnTop ==
    ASSUME NEW path \in Seq(Level), LevelsFit(path), TasksFollow(path),
           work \in Seq(WorkItem), work # <<>>
    PROVE  /\ path # <<>> /\ Len(work) = Bottom(path).at + TasksLeft(Bottom(path))
           /\ TaskLevel(Bottom(path))
           /\ \/ /\ Last(work) = EndTask(Bottom(path).tree.node)
                 /\ Bottom(path).taken = Bottom(path).visited
                 /\ Bottom(path).taken = Size(Bottom(path).tree)
              \/ /\ Last(work) = ValueTask(Child(Bottom(path).tree, Bottom(path).visited + 1))
                 /\ Bottom(path).visited < Size(Bottom(path).tree)
                 /\ IF Bottom(path).tree.node = "Array"
                      THEN Bottom(path).taken = Bottom(path).visited
                      ELSE Bottom(path).taken = Bottom(path).visited + 1
              \/ /\ Last(work) = NameTask(MemberName(Bottom(path).tree, Bottom(path).taken + 1))
                 /\ Bottom(path).tree.node = "Object"
                 /\ Bottom(path).taken = Bottom(path).visited
                 /\ Bottom(path).taken < Size(Bottom(path).tree)
<1> DEFINE l == Bottom(path)
           n == Size(l.tree)
           v == l.taken
           w == l.visited
           a == l.at
           array == l.tree.node = "Array"
<1>1. path # <<>>
  <2>1. Len(work) # 0
    BY EmptySeq
  <2>2. QED
    BY <2>1, EmptySeq DEF TasksFollow, LevelTop
<1>2. Len(path) \in DOMAIN path /\ l = path[Len(path)] /\ l.tree.node \in {"Array", "Object"}
  BY <1>1, BottomOf, LevelFacts
<1>3. TaskLevel(l) /\ LevelTop(path, Len(path)) = a + TasksLeft(l)
  BY <1>2, TaskPlaces
<1>4. Len(work) = a + TasksLeft(l) /\ TasksFollowAt(l)
  BY <1>2, <1>3 DEF TasksFollow
<1>5. Last(work) = work[a + TasksLeft(l)]
  BY <1>4 DEF Last
<1> HIDE DEF l
<1>6. /\ n \in Nat /\ v \in Nat /\ w \in Nat /\ a \in Nat
      /\ w <= v /\ v <= w + 1 /\ v <= n /\ (array => v = w)
  <2>1. n \in Nat /\ v \in Nat /\ w \in Nat /\ a \in Nat
    BY <1>3, TaskIndices
  <2>2. QED
    BY <1>3, <2>1 DEF TaskLevel
<1>7. TasksLeft(l) = IF array THEN n - v ELSE (n - w) + (n - v)
  BY DEF TasksLeft
<1>8. \A k : ValueAt(l, k) = a + (IF array THEN 1 + n - k ELSE 1 + 2 * (n - k))
  BY DEF ValueAt
<1>9. \A k : NameAt(l, k) = a + 2 + 2 * (n - k)
  BY DEF NameAt
<1>10. /\ work[a] = EndTask(l.tree.node)
       /\ \A k \in w + 1 .. n : work[ValueAt(l, k)] = ValueTask(Child(l.tree, k))
       /\ ~array => \A k \in v + 1 .. n : work[NameAt(l, k)] = NameTask(MemberName(l.tree, k))
  BY <1>2, <1>4 DEF TasksFollowAt, l
<1>11. ~array => l.tree.node = "Object"
  BY <1>2
<1> HIDE DEF n, v, w, a, array
<1>12. CASE w = n
  <2>1. a + TasksLeft(l) = a /\ v = w /\ v = n
    BY <1>6, <1>7, <1>12
  <2>2. QED
    BY <1>1, <1>3, <1>4, <1>5, <1>10, <2>1 DEF l, n, v, w, a
<1>13. CASE w # n /\ (array \/ v # w)
  <2>1. w + 1 \in w + 1 .. n /\ w < n
    BY <1>6, <1>13
  <2>2. ValueAt(l, w + 1) = a + TasksLeft(l)
    <3>1. CASE array
      BY <1>6, <1>7, <1>8, <1>13, <3>1
    <3>2. CASE ~array
      <4>1. v = w + 1
        BY <1>6, <1>13, <3>2
      <4>2. QED
        BY <1>6, <1>7, <1>8, <3>2, <4>1
    <3>3. QED
      BY <3>1, <3>2
  <2>3. IF array THEN v = w ELSE v = w + 1
    BY <1>6, <1>13
  <2>4. Last(work) = ValueTask(Child(l.tree, w + 1))
    BY <1>5, <1>10, <2>1, <2>2
  <2>5. QED
    BY <1>1, <1>3, <1>4, <2>1, <2>3, <2>4 DEF l, n, v, w, a, array
<1>14. CASE w # n /\ ~array /\ v = w
  <2>1. v + 1 \in v + 1 .. n /\ v < n
    BY <1>6, <1>14
  <2>2. NameAt(l, v + 1) = a + TasksLeft(l)
    BY <1>6, <1>7, <1>9, <1>14
  <2>3. Last(work) = NameTask(MemberName(l.tree, v + 1))
    BY <1>5, <1>10, <1>14, <2>1, <2>2
  <2>4. QED
    BY <1>1, <1>3, <1>4, <1>11, <1>14, <2>1, <2>3 DEF l, n, v, w, a
<1>15. QED
  BY <1>12, <1>13, <1>14

LEMMA BelowTop ==
    ASSUME NEW a \in Nat \ {0}, NEW b \in Nat, NEW c \in Nat, NEW d \in Nat,
           a + b < c, c <= d - 1, NEW j \in a .. a + b
    PROVE  j \in 1 .. d - 1
  OBVIOUS

(* A task done: the innermost container has one less. *)
LEMMA TaskDone ==
    ASSUME NEW path \in Seq(Level), LevelsFit(path), TasksFollow(path),
           work \in Seq(WorkItem), work # <<>>, work' = Front(work), value' = value,
           NEW v \in Nat, NEW w \in Nat, w <= v, v <= w + 1, v <= Size(Bottom(path).tree),
           Bottom(path).taken <= v, Bottom(path).visited <= w,
           Bottom(path).tree.node = "Array" => v = w,
           v + w = Bottom(path).taken + Bottom(path).visited
                     + (IF Bottom(path).tree.node = "Array" THEN 2 ELSE 1)
    PROVE  work' \in Seq(WorkItem) /\ TasksFollow(Moved(path, v, w))'
<1> DEFINE l == Bottom(path)
           q == Moved(path, v, w)
           m == Bottom(q)
           n == Len(path)
<1>1. path # <<>> /\ Len(work) = l.at + TasksLeft(l) /\ TaskLevel(l)
  BY TaskOnTop
<1>2. /\ n \in DOMAIN path /\ n \in Nat \ {0} /\ DOMAIN path = 1 .. n /\ l = path[n]
      /\ TasksFollowAt(l)
  BY <1>1, BottomOf DEF TasksFollow
<1>3. /\ q \in Seq(Level) /\ q # <<>> /\ Len(q) = n /\ LevelsFit(q)
      /\ \A i \in DOMAIN path : i # n => q[i] = path[i]
      /\ m = q[n] /\ m.taken = v /\ m.visited = w /\ m.tree = l.tree /\ m.at = l.at
      /\ \A i \in DOMAIN path : q[i].at = path[i].at
  BY <1>1, MovedPath
<1> HIDE DEF q
<1>4. DOMAIN q = 1 .. n /\ m \in Level
  BY <1>2, <1>3, BottomOf
<1>5. /\ Len(work) \in Nat \ {0} /\ work' \in Seq(WorkItem) /\ Len(work') = Len(work) - 1
      /\ \A i \in 1 .. Len(work) - 1 : work'[i] = work[i]
  BY FrontLast
<1>6. TaskLevel(m)
  BY <1>1, <1>3, <1>4 DEF TaskLevel
<1> HIDE DEF l, m
<1>7. TasksLeft(m) = TasksLeft(l) - 1
  <2>1. Size(l.tree) \in Nat /\ l.taken \in Nat /\ l.visited \in Nat
        /\ (l.tree.node = "Array" => l.taken = l.visited)
    BY <1>1, TaskIndices DEF TaskLevel
  <2> DEFINE array == l.tree.node = "Array"
             s == Size(l.tree)
             x == l.taken
             y == l.visited
  <2>2. TasksLeft(l) = IF array THEN s - x ELSE (s - y) + (s - x)
    BY DEF TasksLeft
  <2>3. TasksLeft(m) = IF array THEN s - v ELSE (s - w) + (s - v)
    BY <1>3 DEF TasksLeft
  <2>4. v + w = x + y + (IF array THEN 2 ELSE 1) /\ (array => v = w)
    BY DEF l
  <2> HIDE DEF array, s, x, y
  <2>5. s \in Nat /\ x \in Nat /\ y \in Nat /\ (array => x = y)
    BY <2>1 DEF array, s, x, y
  <2>6. CASE array
    BY <2>2, <2>3, <2>4, <2>5, <2>6
  <2>7. CASE ~array
    BY <2>2, <2>3, <2>4, <2>5, <2>7
  <2>8. QED
    BY <2>6, <2>7
<1>8. TasksLeft(m) \in Nat /\ TasksLeft(l) \in Nat /\ l.at \in Nat
  BY <1>1, <1>6, TaskIndices
<1>9. Len(work') = LevelTop(q, n)
  BY <1>1, <1>2, <1>3, <1>5, <1>7, <1>8 DEF LevelTop
<1>10. ASSUME NEW i \in 0 .. n - 1
       PROVE  LevelTop(q, i) = LevelTop(path, i)
  <2>1. i # 0 => q[i] = path[i]
    BY <1>2, <1>3
  <2>2. QED
    BY <2>1 DEF LevelTop
<1>11. ASSUME NEW i \in 1 .. n
       PROVE  q[i].at = LevelTop(q, i - 1) + 1
  <2>1. path[i].at = LevelTop(path, i - 1) + 1
    BY <1>2 DEF TasksFollow
  <2>2. i - 1 \in 0 .. n - 1
    BY <1>2
  <2>3. QED
    BY <1>2, <1>3, <1>10, <2>1, <2>2
<1>12. ASSUME NEW i \in 1 .. n, NEW j \in 1 .. n, i < j
       PROVE  LevelTop(q, i) < q[j].at
  <2>1. LevelTop(path, i) < path[j].at
    BY <1>2, <1>12 DEF TasksFollow
  <2>2. i \in 0 .. n - 1
    BY <1>2, <1>12
  <2>3. QED
    BY <1>2, <1>3, <1>10, <2>1, <2>2
<1>13. ASSUME NEW i \in 1 .. n
       PROVE  TasksFollowAt(q[i])'
  <2>1. CASE i = n
    <3>1. \A j \in l.at .. l.at + TasksLeft(m) : work'[j] = work[j]
      <4>1. l.at \in Nat \ {0}
        BY <1>2, TaskPlaces
      <4> DEFINE low == l.at
                 high == l.at + TasksLeft(m)
                 size == Len(work')
      <4>2. low \in Nat \ {0} /\ high \in Nat /\ size \in Nat /\ high <= size
        <5> DEFINE left == TasksLeft(l)
                   less == TasksLeft(m)
        <5>1. size = Len(work) - 1 /\ Len(work) = low + left /\ low \in Nat \ {0}
          BY <1>1, <1>5, <4>1
        <5>2. left \in Nat /\ less \in Nat /\ less = left - 1 /\ high = low + less
          BY <1>7, <1>8
        <5> HIDE DEF low, high, size, left, less
        <5>3. QED
          BY <5>1, <5>2
      <4>3. \A j \in 1 .. size : work'[j] = work[j]
        BY <1>1, <1>5
      <4> HIDE DEF low, high, size
      <4>4. \A j \in low .. high : work'[j] = work[j]
        BY <4>2, <4>3
      <4>5. QED
        BY <4>4 DEF low, high
    <3>2. TasksFollowAt(m)'
      BY <1>1, <1>2, <1>3, <1>6, <3>1, TasksKept DEF l
    <3>3. QED
      BY <1>3, <2>1, <3>2 DEF m
  <2>2. CASE i # n
    <3> DEFINE k == path[i]
    <3>1. /\ q[i] = k /\ TasksFollowAt(k) /\ TaskLevel(k)
          /\ k.at \in Nat \ {0} /\ TasksLeft(k) \in Nat
          /\ k.at + TasksLeft(k) < l.at
      <4>1. i \in DOMAIN path /\ i < n /\ q[i] = k
        BY <1>2, <1>3, <2>2
      <4>2. TasksFollowAt(k)
        BY <4>1 DEF TasksFollow
      <4>3. /\ TaskLevel(k) /\ k.at \in Nat \ {0} /\ TasksLeft(k) \in Nat
            /\ LevelTop(path, i) = k.at + TasksLeft(k)
            /\ LevelTop(path, i) < l.at
        BY <4>1, TaskPlaces DEF l
      <4>4. QED
        BY <4>1, <4>2, <4>3
    <3>2. ASSUME NEW j \in k.at .. k.at + TasksLeft(k)
          PROVE  work'[j] = work[j]
      <4> HIDE DEF k, n
      <4>1. l.at <= Len(work) - 1 /\ Len(work) \in Nat
        BY <1>1, <1>7, <1>8
      <4>2. k.at \in Nat \ {0} /\ TasksLeft(k) \in Nat /\ k.at + TasksLeft(k) < l.at
        BY <3>1
      <4>3. j \in 1 .. Len(work) - 1
        BY <1>8, <4>1, <4>2, BelowTop
      <4>4. QED
        BY <1>5, <4>3
    <3>3. path[i].taken <= path[i].taken /\ path[i].visited <= path[i].visited
      BY <3>1, TaskIndices
    <3>4. TasksFollowAt(path[i])'
      BY <3>1, <3>2, <3>3, TasksKept
    <3>5. QED
      BY <3>1, <3>4
  <2>3. QED
    BY <2>1, <2>2
<1>14. value' = Nothing
  BY DEF TasksFollow
<1>15. TasksFollow(q)'
  BY <1>3, <1>4, <1>9, <1>11, <1>12, <1>13, <1>14
     DEF TasksFollow, LevelTop, TasksLeft, Nothing, Size, Children
<1>16. QED
  BY <1>5, <1>15 DEF q

(* The end task done: its level is gone. *)
LEMMA LastTaskDone ==
    ASSUME NEW path \in Seq(Level), LevelsFit(path), TasksFollow(path),
           work \in Seq(WorkItem), work # <<>>, work' = Front(work), value' = value,
           Bottom(path).taken = Bottom(path).visited,
           Bottom(path).taken = Size(Bottom(path).tree)
    PROVE  work' \in Seq(WorkItem) /\ TasksFollow(Front(path))'
<1> DEFINE l == Bottom(path)
           q == Front(path)
           n == Len(path)
<1>1. path # <<>> /\ Len(work) = l.at + TasksLeft(l) /\ TaskLevel(l)
  BY TaskOnTop
<1>2. n \in DOMAIN path /\ n \in Nat \ {0} /\ DOMAIN path = 1 .. n /\ l = path[n]
  BY <1>1, BottomOf
<1>3. /\ q \in Seq(Level) /\ Len(q) = n - 1 /\ LevelsFit(q)
      /\ \A i \in 1 .. n - 1 : q[i] = path[i]
  BY <1>1, FrontPath
<1> HIDE DEF q
<1>4. DOMAIN q = 1 .. n - 1
  BY <1>3, LenProperties
<1>5. /\ Len(work) \in Nat \ {0} /\ work' \in Seq(WorkItem) /\ Len(work') = Len(work) - 1
      /\ \A i \in 1 .. Len(work) - 1 : work'[i] = work[i]
  BY FrontLast
<1>6. TasksLeft(l) = 0 /\ l.at \in Nat
  <2>1. Size(l.tree) \in Nat /\ l.at \in Nat
    BY <1>1, TaskIndices
  <2>2. QED
    BY <2>1 DEF TasksLeft
<1> HIDE DEF l
<1>7. ASSUME NEW i \in 0 .. n - 1
      PROVE  LevelTop(q, i) = LevelTop(path, i)
  <2>1. i # 0 => q[i] = path[i]
    BY <1>2, <1>3
  <2>2. QED
    BY <2>1 DEF LevelTop
<1>8. Len(work') = LevelTop(q, n - 1)
  <2>1. l.at = LevelTop(path, n - 1) + 1
    BY <1>2 DEF TasksFollow
  <2>2. n - 1 \in 0 .. n - 1
    BY <1>2
  <2>3. LevelTop(path, n - 1) \in Nat
    <3>1. CASE n = 1
      BY <3>1 DEF LevelTop
    <3>2. CASE n # 1
      <4>1. n - 1 \in DOMAIN path /\ n - 1 < n
        BY <1>2, <3>2
      <4>2. /\ path[n - 1].at \in Nat \ {0} /\ TasksLeft(path[n - 1]) \in Nat
            /\ LevelTop(path, n - 1) = path[n - 1].at + TasksLeft(path[n - 1])
        BY <4>1, TaskPlaces
      <4>3. QED
        BY <4>2
    <3>3. QED
      BY <3>1, <3>2
  <2>4. QED
    BY <1>1, <1>5, <1>6, <1>7, <2>1, <2>2, <2>3
<1>9. ASSUME NEW i \in 1 .. n - 1
      PROVE  q[i].at = LevelTop(q, i - 1) + 1
  <2>1. path[i].at = LevelTop(path, i - 1) + 1
    BY <1>2 DEF TasksFollow
  <2>2. i - 1 \in 0 .. n - 1
    BY <1>2
  <2>3. QED
    BY <1>3, <1>7, <2>1, <2>2
<1>10. ASSUME NEW i \in 1 .. n - 1, NEW j \in 1 .. n - 1, i < j
       PROVE  LevelTop(q, i) < q[j].at
  <2>1. i \in DOMAIN path /\ j \in DOMAIN path /\ i \in 0 .. n - 1
    BY <1>2
  <2>2. LevelTop(path, i) < path[j].at
    BY <1>10, <2>1 DEF TasksFollow
  <2>3. QED
    BY <1>3, <1>7, <2>1, <2>2
<1>11. ASSUME NEW i \in 1 .. n - 1
       PROVE  TasksFollowAt(q[i])'
  <2> DEFINE k == path[i]
  <2>1. /\ q[i] = k /\ TasksFollowAt(k) /\ TaskLevel(k)
        /\ k.at \in Nat \ {0} /\ TasksLeft(k) \in Nat
        /\ k.at + TasksLeft(k) < l.at
    <3>1. i \in DOMAIN path /\ i < n /\ q[i] = k
      BY <1>2, <1>3
    <3>2. TasksFollowAt(k)
      BY <3>1 DEF TasksFollow
    <3>3. /\ TaskLevel(k) /\ k.at \in Nat \ {0} /\ TasksLeft(k) \in Nat
          /\ LevelTop(path, i) = k.at + TasksLeft(k)
          /\ LevelTop(path, i) < l.at
      BY <3>1, TaskPlaces DEF l
    <3>4. QED
      BY <3>1, <3>2, <3>3
  <2>2. ASSUME NEW j \in k.at .. k.at + TasksLeft(k)
        PROVE  work'[j] = work[j]
    <3> HIDE DEF k, n
    <3>1. j \in 1 .. Len(work) - 1
      BY <1>1, <1>5, <1>6, <2>1
    <3>2. QED
      BY <1>5, <3>1
  <2>3. path[i].taken <= path[i].taken /\ path[i].visited <= path[i].visited
    BY <2>1, TaskIndices
  <2>4. TasksFollowAt(path[i])'
    BY <2>1, <2>2, <2>3, TasksKept
  <2>5. QED
    BY <2>1, <2>4
<1>12. value' = Nothing
  BY DEF TasksFollow
<1>13. TasksFollow(q)'
  BY <1>3, <1>4, <1>8, <1>9, <1>10, <1>11, <1>12
     DEF TasksFollow, LevelTop, TasksLeft, Nothing, Size, Children
<1>14. QED
  BY <1>5, <1>13 DEF q

(* A container's tasks pushed: a level more. *)
LEMMA TasksPushed ==
    ASSUME NEW path \in Seq(Level), LevelsFit(path), TasksFollow(path), ~Due(path),
           work \in Seq(WorkItem), NEW t \in Trees, IsContainer(t),
           work' = work \o TasksFor(t), value' = value, NEW a \in Nat, a = Len(work) + 1
    PROVE  work' \in Seq(WorkItem) /\ TasksFollow(Deeper(path, t, a))'
<1> DEFINE q == Deeper(path, t, a)
           m == Bottom(q)
           n == Len(path)
           s == TasksFor(t)
<1>1. Len(work) \in Nat /\ a \in Nat \ {0} /\ a = Len(work) + 1
  BY LenProperties
<1>2. /\ q \in Seq(Level) /\ Len(q) = n + 1 /\ n \in Nat /\ DOMAIN path = 1 .. n /\ q # <<>>
      /\ \A i \in DOMAIN path : q[i] = path[i]
      /\ m = q[n + 1] /\ LevelsFit(q)
      /\ m.tree = t /\ m.taken = 0 /\ m.visited = 0 /\ m.at = a
  <2> DEFINE b == Bottom(q)
             f == FramesOf(path) + ObjectIn(t)
  <2>1. b = [tree |-> t, taken |-> 0, visited |-> 0, frame |-> f, at |-> a]
    BY <1>1, DeeperPath
  <2>2. /\ q \in Seq(Level) /\ Len(q) = n + 1 /\ n \in Nat /\ DOMAIN path = 1 .. n /\ q # <<>>
        /\ \A i \in DOMAIN path : q[i] = path[i]
        /\ b = q[n + 1] /\ LevelsFit(q)
    BY ZenonT(30), <1>1, DeeperPath
  <2> HIDE DEF b, f, q
  <2>3. b.tree = t /\ b.taken = 0 /\ b.visited = 0 /\ b.at = a
    BY <2>1
  <2>4. QED
    BY <2>2, <2>3 DEF b
<1> HIDE DEF q
<1>3. DOMAIN q = 1 .. n + 1 /\ m \in Level
  BY <1>2, BottomOf
<1> HIDE DEF m
<1>4. Size(t) \in Nat /\ t.node \in {"Array", "Object"}
  BY TreeChildren DEF IsContainer
<1>5. TaskLevel(m)
  BY <1>2, <1>3, <1>4 DEF TaskLevel
<1>6. TasksLeft(m) = IF t.node = "Array" THEN Size(t) ELSE 2 * Size(t)
  BY <1>2, <1>4 DEF TasksLeft
<1>7. /\ s \in Seq(WorkItem) /\ Len(s) = 1 + TasksLeft(m) /\ s[1] = EndTask(t.node)
      /\ \A k \in 1 .. Size(t) :
            s[IF t.node = "Array" THEN 2 + Size(t) - k ELSE 2 + 2 * (Size(t) - k)]
              = ValueTask(Child(t, k))
      /\ t.node = "Object" =>
            \A k \in 1 .. Size(t) : s[3 + 2 * (Size(t) - k)] = NameTask(MemberName(t, k))
  <2>1. CASE t.node = "Array"
    BY <1>6, <2>1, TasksOfArray
  <2>2. CASE t.node = "Object"
    BY <1>6, <2>2, TasksOfObject
  <2>3. QED
    BY <1>4, <2>1, <2>2
<1> HIDE DEF s
<1>8. TasksLeft(m) \in Nat
  BY <1>5, TaskIndices
<1>9. /\ work' \in Seq(WorkItem) /\ Len(work') = Len(work) + Len(s)
      /\ \A i \in 1 .. Len(work) + Len(s) :
            work'[i] = IF i <= Len(work) THEN work[i] ELSE s[i - Len(work)]
  BY <1>7, ConcatProperties DEF s
<1>10. \A i \in 1 .. Len(work) : work'[i] = work[i]
  BY <1>1, <1>7, <1>8, <1>9
<1>11. ASSUME NEW j \in 1 .. Len(s)
       PROVE  work'[Len(work) + j] = s[j]
  <2>1. /\ Len(work) + j \in 1 .. Len(work) + Len(s) /\ ~(Len(work) + j <= Len(work))
        /\ Len(work) + j - Len(work) = j
    BY <1>1, <1>7, <1>8
  <2>2. QED
    BY <1>9, <2>1
<1>12. ASSUME NEW i \in 0 .. n
       PROVE  LevelTop(q, i) = LevelTop(path, i)
  <2>1. i # 0 => q[i] = path[i]
    BY <1>2
  <2>2. QED
    BY <2>1 DEF LevelTop
<1>13. LevelTop(path, n) = Len(work) /\ value = Nothing
  BY DEF TasksFollow
<1>14. LevelTop(q, n + 1) = a + TasksLeft(m)
  BY <1>2 DEF LevelTop
<1>15. Len(work') = LevelTop(q, n + 1)
  BY <1>1, <1>7, <1>8, <1>9, <1>14
<1>16. ASSUME NEW i \in 1 .. n + 1
       PROVE  q[i].at = LevelTop(q, i - 1) + 1
  <2>1. CASE i = n + 1
    <3>1. i - 1 = n /\ n \in 0 .. n
      BY <1>2, <2>1
    <3>2. LevelTop(q, n) = Len(work)
      BY <1>12, <1>13, <3>1
    <3>3. QED
      BY <1>1, <1>2, <2>1, <3>1, <3>2
  <2>2. CASE i # n + 1
    <3>1. i \in DOMAIN path /\ i - 1 \in 0 .. n
      BY <1>2, <2>2
    <3>2. path[i].at = LevelTop(path, i - 1) + 1
      BY <3>1 DEF TasksFollow
    <3>3. QED
      BY <1>2, <1>12, <3>1, <3>2
  <2>3. QED
    BY <2>1, <2>2
<1>17. ASSUME NEW i \in 1 .. n + 1, NEW j \in 1 .. n + 1, i < j
       PROVE  LevelTop(q, i) < q[j].at
  <2>1. i \in DOMAIN path /\ i \in 0 .. n
    BY <1>2, <1>17
  <2>2. CASE j = n + 1
    <3>1. LevelTop(path, i) <= Len(work) /\ LevelTop(path, i) = path[i].at + TasksLeft(path[i])
          /\ path[i].at \in Nat \ {0} /\ TasksLeft(path[i]) \in Nat
      BY <2>1, TaskPlaces
    <3>2. LevelTop(path, i) < a
      BY <1>1, <3>1
    <3>3. QED
      BY <1>2, <1>12, <2>1, <2>2, <3>2
  <2>3. CASE j # n + 1
    <3>1. j \in DOMAIN path
      BY <1>2, <2>3
    <3>2. LevelTop(path, i) < path[j].at
      BY <1>17, <2>1, <3>1 DEF TasksFollow
    <3>3. QED
      BY <1>2, <1>12, <2>1, <3>1, <3>2
  <2>4. QED
    BY <2>2, <2>3
<1>18. ASSUME NEW i \in 1 .. n
       PROVE  TasksFollowAt(q[i])'
  <2> DEFINE k == path[i]
  <2>1. /\ q[i] = k /\ TasksFollowAt(k) /\ TaskLevel(k)
        /\ k.at \in Nat \ {0} /\ TasksLeft(k) \in Nat
        /\ k.at + TasksLeft(k) <= Len(work)
    <3>1. i \in DOMAIN path /\ q[i] = k
      BY <1>2
    <3>2. TasksFollowAt(k)
      BY <3>1 DEF TasksFollow
    <3>3. /\ TaskLevel(k) /\ k.at \in Nat \ {0} /\ TasksLeft(k) \in Nat
          /\ LevelTop(path, i) = k.at + TasksLeft(k)
          /\ LevelTop(path, i) <= Len(work)
      BY <3>1, TaskPlaces
    <3>4. QED
      BY <3>1, <3>2, <3>3
  <2>2. ASSUME NEW j \in k.at .. k.at + TasksLeft(k)
        PROVE  work'[j] = work[j]
    <3> HIDE DEF k, n
    <3>1. k.at \in Nat \ {0} /\ TasksLeft(k) \in Nat /\ k.at + TasksLeft(k) <= Len(work)
      BY <2>1
    <3>2. j \in 1 .. Len(work)
      BY <1>1, <3>1
    <3>3. QED
      BY <1>10, <3>2
  <2>3. k.taken <= k.taken /\ k.visited <= k.visited
    BY <2>1, TaskIndices
  <2>4. TasksFollowAt(k)'
    BY <2>1, <2>2, <2>3, TasksKept
  <2>5. QED
    BY <2>1, <2>4
<1>19. TasksFollowAt(q[n + 1])'
  <2>1. work'[m.at] = EndTask(m.tree.node)
    <3>1. 1 \in 1 .. Len(s)
      BY <1>7, <1>8
    <3>2. work'[Len(work) + 1] = s[1]
      BY <1>11, <3>1
    <3>3. QED
      BY <1>1, <1>2, <1>7, <3>2
  <2>2. ASSUME NEW k \in m.visited + 1 .. Size(m.tree)
        PROVE  work'[ValueAt(m, k)] = ValueTask(Child(m.tree, k))
    <3> DEFINE z == Size(t)
               array == t.node = "Array"
               j == IF array THEN 2 + z - k ELSE 2 + 2 * (z - k)
    <3>1. k \in 1 .. z /\ s[j] = ValueTask(Child(t, k))
      BY <1>2, <1>7
    <3>2. j \in 1 .. Len(s)
      <4>1. z \in Nat /\ Len(s) = 1 + (IF array THEN z ELSE 2 * z)
        BY <1>4, <1>6, <1>7
      <4> HIDE DEF z, array, s
      <4>2. QED
        BY <3>1, <4>1
    <3>3. ValueAt(m, k) = Len(work) + j
      <4>1. ValueAt(m, k) = a + (IF array THEN 1 + z - k ELSE 1 + 2 * (z - k)) /\ z \in Nat
        BY <1>2, <1>4 DEF ValueAt
      <4>2. k \in Nat
        BY <3>1
      <4> HIDE DEF z, array, s
      <4>3. CASE array
        BY <1>1, <4>1, <4>2, <4>3
      <4>4. CASE ~array
        BY <1>1, <4>1, <4>2, <4>4
      <4>5. QED
        BY <4>3, <4>4
    <3> HIDE DEF j
    <3>4. work'[Len(work) + j] = s[j]
      BY <1>11, <3>2
    <3>5. QED
      BY <1>2, <3>1, <3>3, <3>4
  <2>3. ASSUME NEW k \in m.taken + 1 .. Size(m.tree), m.tree.node = "Object"
        PROVE  work'[NameAt(m, k)] = NameTask(MemberName(m.tree, k))
    <3> DEFINE z == Size(t)
               j == 3 + 2 * (z - k)
    <3>1. k \in 1 .. z /\ s[j] = NameTask(MemberName(t, k))
      BY <1>2, <1>7, <2>3
    <3>2. j \in 1 .. Len(s)
      BY SMTT(30), <1>2, <1>4, <1>6, <1>7, <2>3, <3>1
    <3>3. NameAt(m, k) = Len(work) + j
      <4>1. NameAt(m, k) = a + 2 + 2 * (z - k) /\ z \in Nat
        BY <1>2, <1>4 DEF NameAt
      <4> HIDE DEF z, s
      <4>2. QED
        BY <1>1, <3>1, <4>1
    <3> HIDE DEF j
    <3>4. work'[Len(work) + j] = s[j]
      BY <1>11, <3>2
    <3>5. QED
      BY <1>2, <3>1, <3>3, <3>4
  <2>4. TasksFollowAt(m)'
    BY <1>2, <2>1, <2>2, <2>3
       DEF TasksFollowAt, ValueAt, NameAt, EndTask, ValueTask, NameTask, Child, MemberName, Size,
           Children
  <2>5. QED
    BY <1>2, <2>4
<1>20. \A i \in DOMAIN q : TasksFollowAt(q[i])'
  <2>1. \A i \in DOMAIN q : i \in 1 .. n \/ i = n + 1
    BY <1>2, <1>3
  <2>2. QED
    BY <1>18, <1>19, <2>1
<1>21. TasksFollow(q)'
  BY <1>2, <1>3, <1>13, <1>15, <1>16, <1>17, <1>20
     DEF TasksFollow, LevelTop, TasksLeft, Nothing, Size, Children
<1>22. QED
  BY <1>9, <1>21 DEF q

(* The root's task done: it is the only one. *)
LEMMA NoTask ==
    ASSUME work' = <<>>, value' = Nothing
    PROVE  TasksFollow(<<>>)' /\ work' \in Seq(WorkItem)
<1>1. Len(work') = 0 /\ Len(<<>>) = 0 /\ DOMAIN <<>> = {} /\ work' \in Seq(WorkItem)
  BY EmptySeq
<1>2. LevelTop(<<>>, 0)' = 0
  BY DEF LevelTop
<1>3. QED
  BY <1>1, <1>2 DEF TasksFollow, Nothing

-----------------------------------------------------------------------------
(* What each turn takes from the work. *)

LEMMA TaskFields ==
    /\ \A t : ValueTask(t).do = "Value" /\ ValueTask(t).tree = t
    /\ \A n : NameTask(n).do = "Name" /\ NameTask(n).name = n
    /\ \A kind : EndTask(kind).do = "End" /\ EndTask(kind).node = kind
  BY DEF ValueTask, NameTask, EndTask

LEMMA WorkGoesOn ==
    ASSUME NEW path, WorkFollows(path), started
    PROVE  /\ encoder \in {"NodeRef", "Value"} /\ work \in Seq(WorkItem)
           /\ encoder = "NodeRef" => TasksFollow(path)
           /\ encoder = "Value" => IteratorsFollow(path)
  BY DEF WorkFollows

LEMMA WorkArrives ==
    ASSUME NEW q, started', encoder' = encoder, work' \in Seq(WorkItem),
           \/ encoder = "NodeRef" /\ TasksFollow(q)'
           \/ encoder = "Value" /\ IteratorsFollow(q)'
    PROVE  WorkFollows(q)'
  BY DEF WorkFollows

(* The counts of the innermost container. *)
LEMMA BottomCounts ==
    ASSUME NEW path \in Seq(Level), LevelsFit(path), path # <<>>
    PROVE  /\ Bottom(path).tree \in Trees /\ IsContainer(Bottom(path).tree)
           /\ Bottom(path).tree.node \in {"Array", "Object"}
           /\ Bottom(path).taken \in Nat /\ Bottom(path).visited \in Nat
           /\ Bottom(path).visited <= Bottom(path).taken
           /\ Bottom(path).taken <= Bottom(path).visited + 1
           /\ Bottom(path).taken <= Size(Bottom(path).tree) /\ Size(Bottom(path).tree) \in Nat
<1>1. Len(path) \in DOMAIN path /\ Bottom(path) = path[Len(path)]
  BY BottomOf
<1>2. Bottom(path).taken <= Bottom(path).visited + 1
  BY <1>1 DEF LevelsFit
<1>3. QED
  BY <1>1, <1>2, LevelFacts

(* The path after its next value was visited. *)
Visited(path) == Moved(path, Bottom(path).visited + 1, Bottom(path).visited + 1)

LEMMA VisitedPath ==
    ASSUME NEW path \in Seq(Level), LevelsFit(path), path # <<>>,
           Bottom(path).visited < Size(Bottom(path).tree),
           Bottom(path).tree.node = "Object" => Due(path)
    PROVE  /\ Visited(path) \in Seq(Level) /\ LevelsFit(Visited(path)) /\ ~Due(Visited(path))
           /\ SameContainers(path, Visited(path)) /\ Len(Visited(path)) = Len(path)
           /\ Due(path) => \A i \in DOMAIN path :
                 /\ Visited(path)[i].tree = path[i].tree
                 /\ Visited(path)[i].taken = path[i].taken
           /\ Bottom(path).visited + 1 \in Nat
<1> DEFINE v == Bottom(path).visited + 1
           q == Moved(path, v, v)
<1>1. /\ Bottom(path).taken \in Nat /\ Bottom(path).visited \in Nat
      /\ Bottom(path).visited <= Bottom(path).taken
      /\ Bottom(path).taken <= Bottom(path).visited + 1
      /\ Size(Bottom(path).tree) \in Nat
  BY BottomCounts
<1>2. v \in Nat /\ v <= v /\ v <= v + 1 /\ v <= Size(Bottom(path).tree)
  BY <1>1
<1>3. Due(path) => Bottom(path).taken = v
  BY <1>1 DEF Due
<1>4. Len(path) \in DOMAIN path /\ Bottom(path) = path[Len(path)] /\ DOMAIN path = 1 .. Len(path)
  BY BottomOf
<1> HIDE DEF v
<1>5. /\ q \in Seq(Level) /\ q # <<>> /\ Len(q) = Len(path) /\ LevelsFit(q)
      /\ FramesOf(q) = FramesOf(path)
      /\ \A i \in DOMAIN path : i # Len(path) => q[i] = path[i]
      /\ Bottom(q) = q[Len(path)] /\ Bottom(q).taken = v /\ Bottom(q).visited = v
      /\ \A i \in DOMAIN path : q[i].tree = path[i].tree /\ q[i].frame = path[i].frame
  BY <1>2, MovedPath
<1> HIDE DEF q
<1>6. ~Due(q)
  BY <1>2, <1>5 DEF Due
<1>7. ASSUME NEW i \in DOMAIN path, Due(path)
      PROVE  q[i].taken = path[i].taken
  <2>1. CASE i = Len(path)
    BY <1>3, <1>4, <1>5, <1>7, <2>1
  <2>2. CASE i # Len(path)
    BY <1>5, <2>2
  <2>3. QED
    BY <2>1, <2>2
<1>8. ASSUME NEW i \in DOMAIN path, q[i].tree.node = "Object"
      PROVE  q[i].taken = path[i].taken
  <2>1. CASE i = Len(path)
    <3>1. Bottom(path).tree.node = "Object"
      BY <1>4, <1>5, <1>8, <2>1
    <3>2. QED
      BY <1>7, <3>1
  <2>2. CASE i # Len(path)
    BY <1>5, <2>2
  <2>3. QED
    BY <2>1, <2>2
<1>9. SameContainers(path, q)
  BY <1>5, <1>8 DEF SameContainers
<1>10. QED
  BY <1>2, <1>5, <1>6, <1>7, <1>9 DEF Visited, q, v

LEMMA RootContainers ==
    /\ <<>> \in Seq(Level) /\ LevelsFit(<<>>) /\ ~Due(<<>>) /\ SameContainers(<<>>, <<>>)
<1>1. DOMAIN <<>> = {} /\ <<>> \in Seq(Level)
  BY EmptySeq
<1>2. QED
  BY <1>1 DEF LevelsFit, Due, SameContainers

LEMMA ValueTaken ==
    ASSUME encoder = "NodeRef", encoder' = encoder, work # <<>>, Last(work).do = "Value",
           work' = Front(work), value' = value,
           NEW path \in Seq(Level), LevelsFit(path), WorkFollows(path)
    PROVE  /\ Last(work).tree \in Trees /\ ValueMayCome(path)
           /\ started' => \E q \in Seq(Level) :
                 LevelsFit(q) /\ ~Due(q) /\ SameContainers(path, q) /\ WorkFollows(q)'
<1>1. CASE ~started
  <2>1. /\ path = <<>> /\ tree \in Trees /\ work = <<ValueTask(tree)>> /\ value = Nothing
    BY <1>1 DEF WorkFollows, Unbegun
  <2>2. Last(work) = ValueTask(tree) /\ Front(work) = <<>>
    <3> DEFINE task == ValueTask(tree)
    <3>1. work = <<task>>
      BY <2>1
    <3> HIDE DEF task
    <3>2. Len(<<task>>) = 1 /\ <<task>>[1] = task
      OBVIOUS
    <3>3. Last(work) = task
      BY <3>1, <3>2 DEF Last
    <3>4. Len(work) = 1
      BY <3>1, <3>2
    <3>5. work \in Seq(WorkItem)
      BY DEF WorkFollows
    <3>6. Front(work) \in Seq(WorkItem) /\ Len(Front(work)) = Len(work) - 1
      BY <3>5, FrontLast
    <3>7. QED
      BY <3>3, <3>4, <3>6, EmptySeq DEF task
  <2>3. Last(work).tree = tree
    BY <2>2, TaskFields
  <2>4. TasksFollow(<<>>)' /\ work' \in Seq(WorkItem)
    BY <2>1, <2>2, NoTask
  <2>5. started' => WorkFollows(<<>>)'
    BY <2>4, WorkArrives
  <2>6. ValueMayCome(path)
    BY <1>1, <2>1 DEF ValueMayCome
  <2>7. QED
    BY <2>1, <2>3, <2>5, <2>6, RootContainers
<1>2. CASE started
  <2> DEFINE b == Bottom(path)
  <2>1. work \in Seq(WorkItem) /\ TasksFollow(path)
    BY <1>2, WorkGoesOn
  <2>2. /\ path # <<>>
        /\ \/ Last(work) = EndTask(b.tree.node)
           \/ /\ Last(work) = ValueTask(Child(b.tree, b.visited + 1))
              /\ b.visited < Size(b.tree)
              /\ IF b.tree.node = "Array" THEN b.taken = b.visited ELSE b.taken = b.visited + 1
           \/ Last(work) = NameTask(MemberName(b.tree, b.taken + 1))
    BY <2>1, TaskOnTop
  <2>3. /\ Last(work) = ValueTask(Child(b.tree, b.visited + 1))
        /\ b.visited < Size(b.tree)
        /\ IF b.tree.node = "Array" THEN b.taken = b.visited ELSE b.taken = b.visited + 1
    BY <2>2, TaskFields
  <2>4. /\ b.tree \in Trees /\ IsContainer(b.tree) /\ b.tree.node \in {"Array", "Object"}
        /\ b.taken \in Nat /\ b.visited \in Nat /\ Size(b.tree) \in Nat
    BY <2>2, BottomCounts
  <2>5. b.tree.node = "Object" => Due(path)
    BY <2>2, <2>3, <2>4 DEF Due
  <2>6. ValueMayCome(path)
    BY <2>2, <2>5 DEF ValueMayCome
  <2>7. Last(work).tree \in Trees
    <3>1. b.visited + 1 \in 1 .. Size(b.tree)
      BY <2>3, <2>4
    <3>2. Child(b.tree, b.visited + 1) \in Trees
      BY <2>4, <3>1, TreeChildren
    <3>3. QED
      BY <2>3, <3>2, TaskFields
  <2> DEFINE v == b.visited + 1
  <2>8. /\ v \in Nat /\ v <= v /\ v <= v + 1 /\ v <= Size(b.tree)
        /\ b.taken <= v /\ b.visited <= v
        /\ v + v = b.taken + b.visited + (IF b.tree.node = "Array" THEN 2 ELSE 1)
    BY <2>3, <2>4
  <2> HIDE DEF v
  <2>9. work' \in Seq(WorkItem) /\ TasksFollow(Moved(path, v, v))'
    BY <2>1, <2>8, TaskDone
  <2>10. TasksFollow(Visited(path))' = TasksFollow(Moved(path, v, v))'
    BY DEF Visited, v
  <2>11. started' => WorkFollows(Visited(path))'
    BY <2>9, <2>10, WorkArrives
  <2>12. QED
    BY <2>2, <2>3, <2>5, <2>6, <2>7, <2>11, VisitedPath
<1>3. QED
  BY <1>1, <1>2 DEF WorkFollows

LEMMA ValueVisited ==
    ASSUME encoder = "Value", encoder' = encoder, value # Nothing,
           work' = work, value' = Nothing,
           NEW path \in Seq(Level), LevelsFit(path), WorkFollows(path)
    PROVE  /\ value \in Trees /\ ValueMayCome(path)
           /\ started' => \E q \in Seq(Level) :
                 LevelsFit(q) /\ ~Due(q) /\ SameContainers(path, q) /\ WorkFollows(q)'
<1>1. CASE ~started
  <2>1. path = <<>> /\ tree \in Trees /\ work = <<>> /\ value = tree
    BY <1>1 DEF WorkFollows, Unbegun
  <2>2. IteratorsFollow(<<>>)' /\ work' \in Seq(WorkItem)
    BY <2>1, NoIterator
  <2>3. started' => WorkFollows(<<>>)'
    BY <2>2, WorkArrives
  <2>4. ValueMayCome(path)
    BY <1>1, <2>1 DEF ValueMayCome
  <2>5. QED
    BY <2>1, <2>3, <2>4, RootContainers
<1>2. CASE started
  <2> DEFINE b == Bottom(path)
             q == Visited(path)
  <2>1. work \in Seq(WorkItem) /\ IteratorsFollow(path)
    BY <1>2, WorkGoesOn
  <2>2. Due(path) /\ value = Child(b.tree, b.taken)
    BY <2>1 DEF IteratorsFollow
  <2>3. path # <<>> /\ b.taken > b.visited
    BY <2>2 DEF Due
  <2>4. /\ b.tree \in Trees /\ IsContainer(b.tree) /\ b.taken <= Size(b.tree)
        /\ b.taken \in Nat /\ b.visited \in Nat /\ Size(b.tree) \in Nat
    BY <2>3, BottomCounts
  <2>5. b.taken \in 1 .. Size(b.tree) /\ b.visited < Size(b.tree)
    BY <2>3, <2>4
  <2>6. value \in Trees
    BY <2>2, <2>4, <2>5, TreeChildren
  <2>7. ValueMayCome(path)
    BY <2>2, <2>3 DEF ValueMayCome
  <2>8. /\ q \in Seq(Level) /\ LevelsFit(q) /\ ~Due(q) /\ SameContainers(path, q)
        /\ Len(q) = Len(path)
        /\ \A i \in DOMAIN path : q[i].tree = path[i].tree /\ q[i].taken = path[i].taken
    BY <2>2, <2>3, <2>5, VisitedPath
  <2> HIDE DEF q
  <2>9. IteratorsFollow(q)'
    BY <2>1, <2>8, IteratorVisited
  <2>10. work' \in Seq(WorkItem)
    BY <2>1
  <2>11. started' => WorkFollows(q)'
    BY <2>9, <2>10, WorkArrives
  <2>12. QED
    BY <2>6, <2>7, <2>8, <2>11
<1>3. QED
  BY <1>1, <1>2

(* The name of a member, which NodeRef's encoder takes. *)
LEMMA NameTaken ==
    ASSUME encoder = "NodeRef", encoder' = encoder, work # <<>>, Last(work).do = "Name",
           work' = Front(work), value' = value, started' = started,
           NEW path \in Seq(Level), LevelsFit(path), WorkFollows(path),
           NEW b, b = Bottom(path)
    PROVE  /\ started /\ path # <<>> /\ b.tree.node = "Object" /\ ~Due(path)
           /\ b.taken + 1 <= Size(b.tree)
           /\ Last(work).name = MemberName(b.tree, b.taken + 1)
           /\ WorkFollows(Moved(path, b.taken + 1, b.visited))'
<1>1. started
  <2>1. SUFFICES ASSUME ~started
                 PROVE  FALSE
    OBVIOUS
  <2>2. work = <<ValueTask(tree)>>
    BY <2>1 DEF WorkFollows, Unbegun
  <2> DEFINE task == ValueTask(tree)
  <2>3. task.do = "Value" /\ work = <<task>>
    BY <2>2, TaskFields
  <2> HIDE DEF task
  <2>4. Last(work) = task
    BY <2>3 DEF Last
  <2>5. QED
    BY <2>3, <2>4
<1>2. work \in Seq(WorkItem) /\ TasksFollow(path)
  BY <1>1, WorkGoesOn
<1>3. /\ path # <<>>
      /\ \/ Last(work) = EndTask(b.tree.node)
         \/ Last(work) = ValueTask(Child(b.tree, b.visited + 1))
         \/ /\ Last(work) = NameTask(MemberName(b.tree, b.taken + 1))
            /\ b.tree.node = "Object" /\ b.taken = b.visited /\ b.taken < Size(b.tree)
  BY <1>2, TaskOnTop
<1>4. /\ Last(work) = NameTask(MemberName(b.tree, b.taken + 1))
      /\ b.tree.node = "Object" /\ b.taken = b.visited /\ b.taken < Size(b.tree)
  BY <1>3, TaskFields
<1>5. b.taken \in Nat /\ b.visited \in Nat /\ Size(b.tree) \in Nat
  BY <1>3, BottomCounts
<1> DEFINE v == b.taken + 1
           w == b.visited
<1>6. /\ v \in Nat /\ w \in Nat /\ w <= v /\ v <= w + 1 /\ v <= Size(b.tree)
      /\ b.taken <= v /\ b.visited <= w /\ b.tree.node # "Array"
      /\ v + w = b.taken + b.visited + 1
  BY <1>4, <1>5
<1> HIDE DEF v, w
<1>7. work' \in Seq(WorkItem) /\ TasksFollow(Moved(path, v, w))'
  BY <1>2, <1>6, TaskDone
<1>8. WorkFollows(Moved(path, v, w))'
  BY <1>1, <1>7, WorkArrives
<1>9. ~Due(path)
  BY <1>4, <1>5 DEF Due
<1>10. QED
  BY <1>1, <1>3, <1>4, <1>6, <1>8, <1>9, TaskFields DEF v, w

(* The end of the innermost container of NodeRef's. *)
LEMMA EndTaken ==
    ASSUME encoder = "NodeRef", encoder' = encoder, work # <<>>, Last(work).do = "End",
           work' = Front(work), value' = value, started' = started,
           NEW path \in Seq(Level), LevelsFit(path), WorkFollows(path)
    PROVE  /\ started /\ path # <<>> /\ ~Due(path)
           /\ Last(work).node = Bottom(path).tree.node /\ WorkFollows(Front(path))'
<1> DEFINE b == Bottom(path)
<1>1. started
  <2>1. SUFFICES ASSUME ~started
                 PROVE  FALSE
    OBVIOUS
  <2>2. work = <<ValueTask(tree)>>
    BY <2>1 DEF WorkFollows, Unbegun
  <2> DEFINE task == ValueTask(tree)
  <2>3. task.do = "Value" /\ work = <<task>>
    BY <2>2, TaskFields
  <2> HIDE DEF task
  <2>4. Last(work) = task
    BY <2>3 DEF Last
  <2>5. QED
    BY <2>3, <2>4
<1>2. work \in Seq(WorkItem) /\ TasksFollow(path)
  BY <1>1, WorkGoesOn
<1>3. /\ path # <<>>
      /\ \/ /\ Last(work) = EndTask(b.tree.node)
            /\ b.taken = b.visited /\ b.taken = Size(b.tree)
         \/ Last(work) = ValueTask(Child(b.tree, b.visited + 1))
         \/ Last(work) = NameTask(MemberName(b.tree, b.taken + 1))
  BY <1>2, TaskOnTop
<1>4. Last(work) = EndTask(b.tree.node) /\ b.taken = b.visited /\ b.taken = Size(b.tree)
  BY <1>3, TaskFields
<1>5. b.taken \in Nat
  BY <1>3, BottomCounts
<1>6. work' \in Seq(WorkItem) /\ TasksFollow(Front(path))'
  BY <1>2, <1>4, LastTaskDone
<1>7. WorkFollows(Front(path))'
  BY <1>1, <1>6, WorkArrives
<1>8. ~Due(path)
  BY <1>4, <1>5 DEF Due
<1>9. QED
  BY <1>1, <1>3, <1>4, <1>7, <1>8, TaskFields

LEMMA ContainerStacked ==
    ASSUME ~Stacked, encoder' = encoder, started' = started, value' = value,
           NEW path \in Seq(Level), LevelsFit(path), ~Due(path), WorkFollows(path),
           NEW t \in Trees, IsContainer(t),
           \/ encoder = "NodeRef" /\ work' = work \o TasksFor(t)
           \/ encoder = "Value" /\ work' = Append(work, Iterator(t))
    PROVE  \E a \in Nat : WorkFollows(Deeper(path, t, a))'
<1>1. started
  BY DEF WorkFollows, Unbegun
<1>2. /\ work \in Seq(WorkItem)
      /\ encoder = "NodeRef" => TasksFollow(path)
      /\ encoder = "Value" => IteratorsFollow(path)
  BY <1>1, WorkGoesOn
<1>3. Len(work) \in Nat
  BY <1>2, LenProperties
<1>4. PICK a \in Nat : a = Len(work) + 1
  BY <1>3
<1>5. CASE encoder = "NodeRef"
  <2>1. work' \in Seq(WorkItem) /\ TasksFollow(Deeper(path, t, a))'
    BY <1>2, <1>4, <1>5, TasksPushed
  <2>2. QED
    BY <1>1, <1>5, <2>1, WorkArrives
<1>6. CASE encoder = "Value"
  <2>1. work' \in Seq(WorkItem) /\ IteratorsFollow(Deeper(path, t, a))'
    BY <1>2, <1>6, IteratorPushed
  <2>2. QED
    BY <1>1, <1>6, <2>1, WorkArrives
<1>7. QED
  BY <1>5, <1>6

(* What Value's encoder reads from its topmost iterator. *)
LEMMA IteratorRead ==
    ASSUME encoder = "Value", value = Nothing, work # <<>>,
           NEW path \in Seq(Level), LevelsFit(path), WorkFollows(path),
           NEW b, b = Bottom(path)
    PROVE  /\ started /\ path # <<>> /\ ~Due(path) /\ IteratorsFollow(path)
           /\ work \in Seq(WorkItem) /\ Last(work).node = b.tree.node
           /\ b.taken \in Nat /\ Size(b.tree) \in Nat
           /\ Last(work).left # <<>> =>
                 /\ b.taken < Size(b.tree)
                 /\ b.tree.node = "Array" => Head(Last(work).left) = Child(b.tree, b.taken + 1)
                 /\ b.tree.node = "Object" =>
                       /\ Head(Last(work).left).name = MemberName(b.tree, b.taken + 1)
                       /\ Head(Last(work).left).value = Child(b.tree, b.taken + 1)
<1>1. started
  BY DEF WorkFollows, Unbegun
<1>2. work \in Seq(WorkItem) /\ IteratorsFollow(path)
  BY <1>1, WorkGoesOn
<1>3. ~Due(path)
  BY <1>2 DEF IteratorsFollow
<1>4. /\ path # <<>> /\ b \in Level /\ IsContainer(b.tree) /\ b.taken <= Size(b.tree)
      /\ Last(work) = IteratorOf(b)
  BY <1>2, TopIterator
<1>5. Last(work).node = b.tree.node /\ Last(work).left = Rest(b)
  BY <1>4 DEF IteratorOf
<1>6. b.taken \in Nat /\ Size(b.tree) \in Nat
  BY <1>4, BottomCounts
<1>7. Rest(b) # <<>> =>
        /\ b.taken < Size(b.tree)
        /\ b.tree.node = "Array" => Head(Rest(b)) = Child(b.tree, b.taken + 1)
        /\ b.tree.node = "Object" =>
              /\ Head(Rest(b)).name = MemberName(b.tree, b.taken + 1)
              /\ Head(Rest(b)).value = Child(b.tree, b.taken + 1)
  BY <1>4, <1>6, RestOf
<1>8. QED
  BY <1>1, <1>2, <1>3, <1>4, <1>5, <1>6, <1>7

LEMMA ChildRead ==
    ASSUME encoder = "Value", encoder' = encoder, value = Nothing, work # <<>>,
           Last(work).left # <<>>, work' = Advanced, started' = started,
           NEW path \in Seq(Level), LevelsFit(path), WorkFollows(path),
           NEW b, b = Bottom(path), value' = Child(b.tree, b.taken + 1)
    PROVE  WorkFollows(Moved(path, b.taken + 1, b.visited))'
<1>1. /\ started /\ path # <<>> /\ ~Due(path) /\ IteratorsFollow(path)
      /\ work \in Seq(WorkItem) /\ b.taken < Size(b.tree)
  BY IteratorRead
<1>2. /\ work' \in Seq(WorkItem)
      /\ IteratorsFollow(Moved(path, b.taken + 1, b.visited))'
  BY <1>1, IteratorAdvances
<1>3. QED
  BY <1>1, <1>2, WorkArrives

LEMMA IteratorEnded ==
    ASSUME encoder = "Value", encoder' = encoder, value = Nothing, work # <<>>,
           work' = Front(work), value' = value, started' = started,
           NEW path \in Seq(Level), LevelsFit(path), WorkFollows(path)
    PROVE  WorkFollows(Front(path))'
<1>1. /\ started /\ ~Due(path) /\ IteratorsFollow(path) /\ work \in Seq(WorkItem)
  BY IteratorRead
<1>2. work' \in Seq(WorkItem) /\ IteratorsFollow(Front(path))'
  BY <1>1, IteratorPopped
<1>3. QED
  BY <1>1, <1>2, WorkArrives

-----------------------------------------------------------------------------
(* An encoder's steps are the writer's own, but for its refusals of a      *)
(* failed reservation and of a literal too wide to be an integer.          *)
RefusesItself ==
    Accepting /\ \E error \in {"Source", "Allocation"} : RefuseThrough(error)
WriterMoves == [Next]_vars \/ RefusesItself

LEMMA SoundMoves ==
    ASSUME TypeOK, Sound, WriterMoves
    PROVE  TypeOK' /\ Sound'
<1>1. CASE [Next]_vars
  BY <1>1, TypeStays, SoundStays
<1>2. ASSUME NEW error \in {"Source", "Allocation"}, Accepting, RefuseThrough(error)
      PROVE  TypeOK' /\ Sound'
  <2>1. error \in Errors /\ error # "Internal"
    BY DEF Errors
  <2>2. /\ todo' = <<>> /\ answer' = error /\ refused' /\ finished' = finished
        /\ finished = "no"
    BY <1>2 DEF RefuseThrough, Refuse, Accepting, Idle
  <2>3. ControlOK'
    BY <1>2, <2>1, RefuseType DEF TypeOK, RefuseThrough
  <2>4. OutputOK' /\ TextOK' /\ OpenedOK' /\ RecordsOK' /\ WalkOK' /\ StackOK'
    BY <1>2 DEF RefuseThrough, TypeOK, OutputOK, TextOK, OpenedOK, RecordsOK, WalkOK, StackOK,
       output, text, opened, records, walk
  <2>5. Sound'
    BY <2>1, <2>2 DEF Sound, Faultless, Settled, NoInternalFault
  <2>6. QED
    BY <2>3, <2>4, <2>5 DEF TypeOK
<1>3. QED
  BY <1>1, <1>2 DEF WriterMoves, RefusesItself

LEMMA VisitMoves ==
    ASSUME NEW t \in Trees, Visit(t), Accepting
    PROVE  WriterMoves
<1>1. CASE t.node = "Leaf" /\ Scalar(t.token)
  <2>1. t.token \in Scalars
    BY <1>1, TreeKinds
  <2>2. QED
    BY <1>1, <2>1 DEF WriterMoves, Next, Event
<1>2. CASE Unrepresentable \/ BeginArray \/ BeginObject
  BY <1>2 DEF WriterMoves, Next, Event
<1>3. CASE RefuseThrough("Source")
  BY <1>3 DEF WriterMoves, RefusesItself
<1>4. QED
  BY <1>1, <1>2, <1>3 DEF Visit

LEMMA EndMoves ==
    ASSUME NEW kind, EndEvent(kind)
    PROVE  WriterMoves
  BY DEF EndEvent, WriterMoves, Next, Event

LEMMA NameMoves ==
    ASSUME NEW path \in Seq(Level), LevelsFit(path), path # <<>>,
           Bottom(path).tree.node = "Object", Bottom(path).taken + 1 <= Size(Bottom(path).tree),
           NEW n, n = MemberName(Bottom(path).tree, Bottom(path).taken + 1)
    PROVE  n \in Names /\ (Name(n) => WriterMoves)
<1> DEFINE b == Bottom(path)
<1>1. b.tree \in Trees /\ IsContainer(b.tree) /\ b.taken \in Nat /\ Size(b.tree) \in Nat
  BY BottomCounts
<1>2. b.taken + 1 \in 1 .. Size(b.tree)
  BY <1>1
<1>3. n \in Names
  BY <1>1, <1>2, TreeChildren
<1>4. QED
  BY <1>3 DEF WriterMoves, Next, Event

LEMMA RefusalMoves ==
    ASSUME Accepting, RefuseAllocation
    PROVE  WriterMoves
  BY DEF RefuseAllocation, WriterMoves, RefusesItself

LEMMA EncoderMoves ==
    ASSUME EncodeNext, NEW path \in Seq(Level), EncodingFollows(path)
    PROVE  WriterMoves
<1>1. LevelsFit(path) /\ WorkFollows(path)
  BY DEF EncodingFollows
<1>2. CASE RunEvent \/ FinishEncoding
  BY <1>2 DEF FinishEncoding, WriterMoves, Next
<1>3. CASE PopValue
  <2>1. /\ encoder = "NodeRef" /\ encoder' = encoder /\ work # <<>> /\ Last(work).do = "Value"
        /\ work' = Front(work) /\ value' = value /\ Visit(Last(work).tree) /\ Accepting
    BY <1>3 DEF PopValue, Turn
  <2>2. Last(work).tree \in Trees
    BY <1>1, <2>1, ValueTaken
  <2>3. QED
    BY <2>1, <2>2, VisitMoves
<1>4. CASE VisitValue
  <2>1. /\ encoder = "Value" /\ encoder' = encoder /\ value # Nothing
        /\ work' = work /\ value' = Nothing /\ Visit(value) /\ Accepting
    BY <1>4 DEF VisitValue, Turn
  <2>2. value \in Trees
    BY <1>1, <2>1, ValueVisited
  <2>3. QED
    BY <2>1, <2>2, VisitMoves
<1>5. CASE PopName
  <2>1. /\ encoder = "NodeRef" /\ encoder' = encoder /\ work # <<>> /\ Last(work).do = "Name"
        /\ work' = Front(work) /\ value' = value /\ Name(Last(work).name)
    BY <1>5 DEF PopName, Turn
  <2>2. started' = started
    BY <2>1 DEF Name, NameEvent
  <2>3. /\ path # <<>> /\ Bottom(path).tree.node = "Object"
        /\ Bottom(path).taken + 1 <= Size(Bottom(path).tree)
        /\ Last(work).name = MemberName(Bottom(path).tree, Bottom(path).taken + 1)
    BY <1>1, <2>1, <2>2, NameTaken
  <2>4. QED
    BY <1>1, <2>1, <2>3, NameMoves
<1>6. CASE NextMember
  <2>1. /\ encoder = "Value" /\ value = Nothing /\ work # <<>> /\ Last(work).left # <<>>
        /\ Last(work).node = "Object" /\ Name(Head(Last(work).left).name)
    BY <1>6 DEF NextMember, Advancing, Turn
  <2>2. /\ path # <<>> /\ Bottom(path).tree.node = "Object"
        /\ Bottom(path).taken < Size(Bottom(path).tree)
        /\ Bottom(path).taken \in Nat /\ Size(Bottom(path).tree) \in Nat
        /\ Head(Last(work).left).name = MemberName(Bottom(path).tree, Bottom(path).taken + 1)
    BY <1>1, <2>1, IteratorRead
  <2>3. Bottom(path).taken + 1 <= Size(Bottom(path).tree)
    BY <2>2
  <2>4. QED
    BY <1>1, <2>1, <2>2, <2>3, NameMoves
<1>7. CASE PopEnd
  BY <1>7, EndMoves DEF PopEnd
<1>8. CASE EndInnermost
  BY <1>8, EndMoves DEF EndInnermost
<1>9. CASE NoFirstTask
  BY <1>9, RefusalMoves DEF NoFirstTask, Turn
<1>10. CASE PushTasks
  <2>1. RefuseAllocation \/ UNCHANGED vars
    BY <1>10 DEF PushTasks
  <2>2. CASE RefuseAllocation
    BY <1>10, <2>2, RefusalMoves DEF PushTasks, Turn
  <2>3. CASE UNCHANGED vars
    BY <2>3 DEF WriterMoves
  <2>4. QED
    BY <2>1, <2>2, <2>3
<1>11. CASE PushIterator
  <2>1. RefuseAllocation \/ UNCHANGED vars
    BY <1>11 DEF PushIterator
  <2>2. CASE RefuseAllocation
    BY <1>11, <2>2, RefusalMoves DEF PushIterator, Turn
  <2>3. CASE UNCHANGED vars
    BY <2>3 DEF WriterMoves
  <2>4. QED
    BY <2>1, <2>2, <2>3
<1>12. CASE NextItem
  BY <1>12 DEF NextItem, WriterMoves
<1>13. QED
  BY <1>2, <1>3, <1>4, <1>5, <1>6, <1>7, <1>8, <1>9, <1>10, <1>11, <1>12 DEF EncodeNext

-----------------------------------------------------------------------------
(* Every turn goes on along a path, or ends in an error of its own.        *)
Endings ==
    {"Internal", "CanonicalBytes", "ObjectBytes", "Unrepresentable", "Source", "Sink",
     "Allocation"}
GoesOn ==
    /\ ~refused' /\ (answer' \in {"running", "Ok"} \/ answer' = answer)
    /\ \E q \in Seq(Level) : EncodingFollows(q)'
Goes == (refused' /\ answer' \in Endings) \/ GoesOn

LEMMA RunAnswers ==
    ASSUME RunEvent
    PROVE  \/ refused' /\ answer' \in Endings
           \/ refused' = refused /\ (answer' \in {"running", "Ok"} \/ answer' = answer)
<1> DEFINE Ends == refused' /\ answer' \in Endings
           Runs == refused' = refused /\ (answer' \in {"running", "Ok"} \/ answer' = answer)
<1> SUFFICES Ends \/ Runs
  OBVIOUS
<1>1. Proceed => Runs
  BY DEF Proceed
<1>2. (UNCHANGED control) => Runs
  BY DEF control
<1>3. ASSUME NEW e \in Endings, Refuse(e)
      PROVE  Ends
  BY <1>3 DEF Refuse
<1> HIDE DEF Ends, Runs
<1>4. /\ "Internal" \in Endings /\ "CanonicalBytes" \in Endings /\ "ObjectBytes" \in Endings
      /\ "Unrepresentable" \in Endings /\ "Sink" \in Endings /\ "Allocation" \in Endings
  BY DEF Endings
<1>5. CASE ProduceStep
  <2>1. \/ Proceed \/ Refuse("CanonicalBytes") \/ Refuse("Sink") \/ Refuse("Allocation")
    BY <1>5 DEF ProduceStep
  <2>2. QED
    BY <1>1, <1>3, <1>4, <2>1
<1>6. CASE NoTextStep
  BY <1>3, <1>4, <1>6 DEF NoTextStep
<1>7. CASE PushOpenStep \/ PopStep \/ WalkDone
  <2>1. Proceed \/ Refuse("Allocation")
    BY <1>7 DEF PushOpenStep, PopStep, WalkDone
  <2>2. QED
    BY <1>1, <1>3, <1>4, <2>1
<1>8. CASE PushFrameStep
  <2>1. Proceed \/ Refuse("ObjectBytes") \/ Refuse("Internal") \/ Refuse("Allocation")
    BY <1>8 DEF PushFrameStep
  <2>2. QED
    BY <1>1, <1>3, <1>4, <2>1
<1>9. CASE AfterValueStep
  <2>1. Proceed \/ Refuse("ObjectBytes") \/ Refuse("Internal") \/ Refuse("Allocation")
    BY <1>9 DEF AfterValueStep
  <2>2. QED
    BY <1>1, <1>3, <1>4, <2>1
<1>10. CASE WalkBytes
  <2>1. (UNCHANGED control) \/ Refuse("Sink") \/ Refuse("Internal")
    BY <1>10 DEF WalkBytes, RefuseWalk
  <2>2. QED
    BY <1>2, <1>3, <1>4, <2>1
<1>11. CASE WalkBody
  <2>1. (UNCHANGED control) \/ Refuse("Sink") \/ Refuse("Internal") \/ Refuse("Allocation")
    BY <1>11 DEF WalkBody, RefuseWalk
  <2>2. QED
    BY <1>2, <1>3, <1>4, <2>1
<1>12. CASE WalkMember
  <2>1. (UNCHANGED control) \/ Refuse("Internal") \/ Refuse("Allocation")
    BY <1>12 DEF WalkMember, RefuseWalk
  <2>2. QED
    BY <1>2, <1>3, <1>4, <2>1
<1>13. QED
  BY <1>5, <1>6, <1>7, <1>8, <1>9, <1>10, <1>11, <1>12 DEF RunEvent

LEMMA AllocationRefused ==
    ASSUME RefuseAllocation
    PROVE  Goes
  BY DEF RefuseAllocation, RefuseThrough, Refuse, Goes, Endings

LEMMA VisitGoes ==
    ASSUME TypeOK, Consistent, todo = <<>>, ~refused, Stacked,
           NEW path \in Seq(Level), EncodingFollows(path), ValueMayCome(path),
           NEW t \in Trees, Visit(t), unstacked' = IF IsContainer(t) THEN t ELSE Nothing,
           started' => \E q \in Seq(Level) :
               LevelsFit(q) /\ ~Due(q) /\ SameContainers(path, q) /\ WorkFollows(q)'
    PROVE  Goes
<1>1. BeforeValueError = "none" /\ ~Top("Wrapper")
  BY ValueIsInTurn
<1>2. (refused' /\ answer' = "Source") \/ (~refused' /\ started')
  BY <1>1, VisitPlans
<1>3. CASE refused' /\ answer' = "Source"
  BY <1>3 DEF Goes, Endings
<1>4. CASE ~refused' /\ started'
  <2>1. PICK q \in Seq(Level) :
            LevelsFit(q) /\ ~Due(q) /\ SameContainers(path, q) /\ WorkFollows(q)'
    BY <1>4
  <2>2. ~refused' /\ answer' = "running" /\ Framed(q)'
    BY <1>4, <2>1, VisitFollows
  <2>3. EncodingFollows(q)'
    BY <2>1, <2>2, FramedAndWork
  <2>4. QED
    BY <2>2, <2>3 DEF Goes, GoesOn
<1>5. QED
  BY <1>2, <1>3, <1>4

LEMMA NextChildPath ==
    ASSUME NEW path \in Seq(Level), LevelsFit(path), path # <<>>, ~Due(path),
           NEW v, v = Bottom(path).taken + 1, NEW w, w = Bottom(path).visited,
           v <= Size(Bottom(path).tree)
    PROVE  /\ Moved(path, v, w) \in Seq(Level) /\ LevelsFit(Moved(path, v, w))
           /\ Bottom(path).tree.node = "Array" => SameContainers(path, Moved(path, v, w))
<1> DEFINE q == Moved(path, v, w)
<1>1. /\ Bottom(path).taken \in Nat /\ Bottom(path).visited \in Nat
      /\ Bottom(path).visited <= Bottom(path).taken
  BY BottomCounts
<1>2. v \in Nat /\ w \in Nat /\ w <= v /\ v <= w + 1
  BY <1>1 DEF Due
<1>3. Len(path) \in DOMAIN path /\ Bottom(path) = path[Len(path)]
  BY BottomOf
<1>4. /\ q \in Seq(Level) /\ Len(q) = Len(path) /\ LevelsFit(q) /\ FramesOf(q) = FramesOf(path)
      /\ \A i \in DOMAIN path : i # Len(path) => q[i] = path[i]
      /\ \A i \in DOMAIN path : q[i].tree = path[i].tree /\ q[i].frame = path[i].frame
  BY <1>2, MovedPath
<1> HIDE DEF q
<1>5. ASSUME NEW i \in DOMAIN path, q[i].tree.node = "Object", Bottom(path).tree.node = "Array"
      PROVE  q[i].taken = path[i].taken
  <2>1. i # Len(path)
    BY <1>3, <1>4, <1>5
  <2>2. QED
    BY <1>4, <2>1
<1>6. QED
  BY <1>4, <1>5 DEF SameContainers, q

LEMMA NameGoes ==
    ASSUME TypeOK, TypeOK', Consistent, todo = <<>>, ~refused, Stacked, Stacked',
           NEW path \in Seq(Level), EncodingFollows(path),
           path # <<>>, Bottom(path).tree.node = "Object", ~Due(path),
           Bottom(path).taken + 1 <= Size(Bottom(path).tree),
           NEW n, n = MemberName(Bottom(path).tree, Bottom(path).taken + 1), NameEvent(n),
           WorkFollows(Moved(path, Bottom(path).taken + 1, Bottom(path).visited))'
    PROVE  Goes
<1>1. LevelsFit(path)
  BY DEF EncodingFollows
<1>2. PICK v, w : v = Bottom(path).taken + 1 /\ w = Bottom(path).visited
  OBVIOUS
<1>3. \/ refused' /\ answer' = "ObjectBytes"
      \/ ~refused' /\ answer' = "running" /\ Framed(Moved(path, v, w))'
  BY <1>2, NameFollows
<1>4. CASE refused' /\ answer' = "ObjectBytes"
  BY <1>4 DEF Goes, Endings
<1>5. CASE ~refused' /\ answer' = "running" /\ Framed(Moved(path, v, w))'
  <2>1. Moved(path, v, w) \in Seq(Level)
    BY <1>1, <1>2, NextChildPath
  <2>2. EncodingFollows(Moved(path, v, w))'
    BY <1>2, <1>5, FramedAndWork
  <2>3. QED
    BY <1>5, <2>1, <2>2 DEF Goes, GoesOn
<1>6. QED
  BY <1>3, <1>4, <1>5

LEMMA EndGoes ==
    ASSUME TypeOK, TypeOK', Consistent, todo = <<>>, ~refused, Stacked, Stacked',
           NEW path \in Seq(Level), EncodingFollows(path), path # <<>>, ~Due(path),
           EndEvent(Bottom(path).tree.node), WorkFollows(Front(path))'
    PROVE  Goes
<1>1. LevelsFit(path)
  BY DEF EncodingFollows
<1>2. Bottom(path).tree.node \in {"Array", "Object"} /\ Front(path) \in Seq(Level)
  BY <1>1, BottomCounts, FrontPath
<1>3. ASSUME Framed(Front(path))', ~refused', answer' = "running"
      PROVE  Goes
  <2>1. EncodingFollows(Front(path))'
    BY <1>3, FramedAndWork
  <2>2. QED
    BY <1>2, <1>3, <2>1 DEF Goes, GoesOn
<1>4. CASE Bottom(path).tree.node = "Array"
  <2>1. EndArray
    BY <1>4 DEF EndEvent
  <2>2. QED
    BY <1>3, <1>4, <2>1, EndArrayFollows
<1>5. CASE Bottom(path).tree.node = "Object"
  <2>1. EndObjectEvent
    BY <1>5 DEF EndEvent, EndObject
  <2>2. \/ refused' /\ answer' \in {"Internal", "CanonicalBytes", "ObjectBytes", "Allocation"}
        \/ ~refused' /\ answer' = "running" /\ Framed(Front(path))'
    BY <1>5, <2>1, EndObjectFollows
  <2>3. QED
    BY <1>3, <2>2 DEF Goes, Endings
<1>6. QED
  BY <1>2, <1>4, <1>5

LEMMA PushGoes ==
    ASSUME TypeOK, Consistent, todo = <<>>, ~refused, ~Stacked, unstacked' = Nothing,
           UNCHANGED <<vars, encoder, value>>,
           NEW path \in Seq(Level), EncodingFollows(path),
           \/ encoder = "NodeRef" /\ work' = work \o TasksFor(unstacked)
           \/ encoder = "Value" /\ work' = Append(work, Iterator(unstacked))
    PROVE  Goes
<1>1. PICK t : t = unstacked
  OBVIOUS
<1>2. LevelsFit(path) /\ WorkFollows(path)
  BY DEF EncodingFollows
<1>3. t \in Trees /\ IsContainer(t) /\ ~Due(path)
  BY <1>1, OpenedLevel
<1>4. /\ UNCHANGED <<stack, frames, buffer, open_members, todo, started>>
      /\ refused' = refused /\ answer' = answer
  BY DEF vars, text, opened, control
<1>5. PICK a \in Nat : WorkFollows(Deeper(path, t, a))'
  BY <1>1, <1>2, <1>3, <1>4, ContainerStacked
<1>6. Framed(Deeper(path, t, a))'
  BY <1>1, <1>4, PushFollows
<1>7. Deeper(path, t, a) \in Seq(Level)
  BY <1>2, <1>3, DeeperPath
<1>8. EncodingFollows(Deeper(path, t, a))'
  BY <1>5, <1>6, FramedAndWork
<1>9. QED
  BY <1>4, <1>7, <1>8 DEF Goes, GoesOn

LEMMA TurnGoes ==
    ASSUME TypeOK, TypeOK', Sound, ~refused, EncodeNext,
           NEW path \in Seq(Level), EncodingFollows(path)
    PROVE  Goes
<1>1. Consistent
  BY DEF Sound, Faultless
<1>2. LevelsFit(path) /\ WorkFollows(path)
  BY DEF EncodingFollows
<1>3. CASE RunEvent /\ UNCHANGED driver
  <2>1. \/ refused' /\ answer' \in Endings
        \/ refused' = refused /\ (answer' \in {"running", "Ok"} \/ answer' = answer)
    BY <1>3, RunAnswers
  <2>2. ~refused' => EncodingFollows(path)'
    BY <1>1, <1>3, RunFollows
  <2>3. QED
    BY <2>1, <2>2 DEF Goes, GoesOn
<1>4. CASE PopValue
  <2>1. PICK t : t = Last(work).tree
    OBVIOUS
  <2>2. /\ encoder = "NodeRef" /\ encoder' = encoder /\ work # <<>> /\ Last(work).do = "Value"
        /\ work' = Front(work) /\ value' = value /\ todo = <<>> /\ Stacked
        /\ Visit(t) /\ unstacked' = IF IsContainer(t) THEN t ELSE Nothing
    BY <1>4, <2>1 DEF PopValue, Turn, Accepting, Idle
  <2>3. /\ t \in Trees /\ ValueMayCome(path)
        /\ started' => \E q \in Seq(Level) :
              LevelsFit(q) /\ ~Due(q) /\ SameContainers(path, q) /\ WorkFollows(q)'
    BY <1>2, <2>1, <2>2, ValueTaken
  <2>4. QED
    BY <1>1, <2>2, <2>3, VisitGoes
<1>5. CASE VisitValue
  <2>1. PICK t : t = value
    OBVIOUS
  <2>2. /\ encoder = "Value" /\ encoder' = encoder /\ value # Nothing
        /\ work' = work /\ value' = Nothing /\ todo = <<>>
        /\ Visit(t) /\ unstacked' = IF IsContainer(t) THEN t ELSE Nothing
    BY <1>5, <2>1 DEF VisitValue, Turn, Accepting, Idle
  <2>3. /\ t \in Trees /\ ValueMayCome(path)
        /\ started' => \E q \in Seq(Level) :
              LevelsFit(q) /\ ~Due(q) /\ SameContainers(path, q) /\ WorkFollows(q)'
    BY <1>2, <2>1, <2>2, ValueVisited
  <2>4. Stacked
    <3>1. CASE started
      <4>1. Due(path)
        BY <1>2, <2>2, <3>1 DEF WorkFollows, IteratorsFollow
      <4>2. QED
        BY <4>1 DEF EncodingFollows, PlanFollows
    <3>2. CASE ~started
      BY <1>2, <3>2 DEF WorkFollows, Unbegun
    <3>3. QED
      BY <3>1, <3>2
  <2>5. QED
    BY <1>1, <2>2, <2>3, <2>4, VisitGoes
<1>6. CASE PopName
  <2>1. PICK n, b : n = Last(work).name /\ b = Bottom(path)
    OBVIOUS
  <2>2. /\ encoder = "NodeRef" /\ encoder' = encoder /\ work # <<>> /\ Last(work).do = "Name"
        /\ work' = Front(work) /\ value' = value /\ todo = <<>> /\ Stacked /\ Stacked'
        /\ NameEvent(n)
    BY <1>6, <2>1 DEF PopName, Turn, Accepting, Idle, Name, Stacked, Nothing
  <2>3. started' = started
    BY <2>2 DEF NameEvent
  <2>4. /\ path # <<>> /\ b.tree.node = "Object" /\ ~Due(path)
        /\ b.taken + 1 <= Size(b.tree) /\ n = MemberName(b.tree, b.taken + 1)
        /\ WorkFollows(Moved(path, b.taken + 1, b.visited))'
    BY <1>2, <2>1, <2>2, <2>3, NameTaken
  <2>5. WorkFollows(Moved(path, Bottom(path).taken + 1, Bottom(path).visited))'
    BY <2>1, <2>4 DEF Bottom
  <2>6. QED
    BY <1>1, <2>1, <2>2, <2>4, <2>5, NameGoes
<1>7. CASE NextMember
  <2>1. PICK n, b : n = Head(Last(work).left).name /\ b = Bottom(path)
    OBVIOUS
  <2>2. /\ encoder = "Value" /\ encoder' = encoder /\ value = Nothing /\ work # <<>>
        /\ Last(work).left # <<>> /\ Last(work).node = "Object" /\ work' = Advanced
        /\ value' = Head(Last(work).left).value /\ todo = <<>> /\ Stacked /\ Stacked'
        /\ NameEvent(n)
    BY <1>7, <2>1 DEF NextMember, Advancing, Turn, Accepting, Idle, Name, Stacked, Nothing
  <2>3. started' = started
    BY <2>2 DEF NameEvent
  <2>4. /\ path # <<>> /\ b.tree.node = "Object" /\ ~Due(path) /\ b.taken < Size(b.tree)
        /\ b.taken \in Nat /\ Size(b.tree) \in Nat
        /\ n = MemberName(b.tree, b.taken + 1)
        /\ Head(Last(work).left).value = Child(b.tree, b.taken + 1)
    BY <1>2, <2>1, <2>2, IteratorRead
  <2>5. b.taken + 1 <= Size(b.tree)
    BY <2>4
  <2>6. WorkFollows(Moved(path, b.taken + 1, b.visited))'
    BY <1>2, <2>1, <2>2, <2>3, <2>4, ChildRead
  <2>7. WorkFollows(Moved(path, Bottom(path).taken + 1, Bottom(path).visited))'
    BY <2>1, <2>6 DEF Bottom
  <2>8. QED
    BY <1>1, <2>1, <2>2, <2>4, <2>5, <2>7, NameGoes
<1>8. CASE NextItem
  <2>1. PICK b, v, w : b = Bottom(path) /\ v = b.taken + 1 /\ w = b.visited
    OBVIOUS
  <2>2. /\ encoder = "Value" /\ encoder' = encoder /\ value = Nothing /\ work # <<>>
        /\ Last(work).left # <<>> /\ Last(work).node = "Array" /\ work' = Advanced
        /\ value' = Head(Last(work).left) /\ todo = <<>> /\ Stacked /\ Stacked'
        /\ UNCHANGED vars
    BY <1>8 DEF NextItem, Advancing, Turn, Accepting, Idle, Stacked, Nothing
  <2>3. /\ UNCHANGED <<stack, frames, buffer, open_members, todo>> /\ started' = started
        /\ refused' = refused /\ answer' = answer
    BY <2>2 DEF vars, text, opened, control
  <2>4. /\ path # <<>> /\ b.tree.node = "Array" /\ ~Due(path) /\ b.taken < Size(b.tree)
        /\ b.taken \in Nat /\ Size(b.tree) \in Nat
        /\ Head(Last(work).left) = Child(b.tree, b.taken + 1)
    BY <1>2, <2>1, <2>2, IteratorRead
  <2>5. v <= Size(b.tree)
    BY <2>1, <2>4
  <2>6. WorkFollows(Moved(path, b.taken + 1, b.visited))'
    BY <1>2, <2>1, <2>2, <2>3, <2>4, ChildRead
  <2>7. /\ Moved(path, v, w) \in Seq(Level) /\ LevelsFit(Moved(path, v, w))
        /\ SameContainers(path, Moved(path, v, w))
    BY <1>2, <2>1, <2>4, <2>5, NextChildPath
  <2>8. Framed(Moved(path, v, w))'
    BY <1>1, <2>1, <2>2, <2>3, <2>4, <2>7, ItemFollows
  <2>9. EncodingFollows(Moved(path, v, w))'
    BY <2>1, <2>6, <2>8, FramedAndWork
  <2>10. QED
    BY <2>3, <2>7, <2>9 DEF Goes, GoesOn
<1>9. CASE PopEnd
  <2>1. PICK kind : kind = Last(work).node
    OBVIOUS
  <2>2. /\ encoder = "NodeRef" /\ encoder' = encoder /\ work # <<>> /\ Last(work).do = "End"
        /\ work' = Front(work) /\ value' = value /\ todo = <<>> /\ Stacked /\ Stacked'
        /\ EndEvent(kind)
    BY <1>9, <2>1 DEF PopEnd, Turn, Accepting, Idle, Stacked, Nothing
  <2>3. started' = started
    BY <2>2 DEF EndEvent, EndArray, EndContainer, EndObject, EndObjectEvent
  <2>4. path # <<>> /\ ~Due(path) /\ kind = Bottom(path).tree.node /\ WorkFollows(Front(path))'
    BY <1>2, <2>1, <2>2, <2>3, EndTaken
  <2>5. QED
    BY <1>1, <2>2, <2>4, EndGoes
<1>10. CASE EndInnermost
  <2>1. PICK kind : kind = Last(work).node
    OBVIOUS
  <2>2. /\ encoder = "Value" /\ encoder' = encoder /\ value = Nothing /\ work # <<>>
        /\ work' = Front(work) /\ value' = value /\ todo = <<>> /\ Stacked /\ Stacked'
        /\ EndEvent(kind)
    BY <1>10, <2>1 DEF EndInnermost, Advancing, Turn, Accepting, Idle, Stacked, Nothing
  <2>3. started' = started
    BY <2>2 DEF EndEvent, EndArray, EndContainer, EndObject, EndObjectEvent
  <2>4. path # <<>> /\ ~Due(path) /\ kind = Bottom(path).tree.node
    BY <1>2, <2>1, <2>2, IteratorRead
  <2>5. WorkFollows(Front(path))'
    BY <1>2, <2>2, <2>3, IteratorEnded
  <2>6. QED
    BY <1>1, <2>2, <2>4, <2>5, EndGoes
<1>11. CASE PushTasks
  <2>1. CASE RefuseAllocation
    BY <2>1, AllocationRefused
  <2>2. CASE ~RefuseAllocation
    <3>1. /\ encoder = "NodeRef" /\ todo = <<>> /\ ~Stacked /\ unstacked' = Nothing
          /\ UNCHANGED <<vars, encoder, value>> /\ work' = work \o TasksFor(unstacked)
      BY <1>11, <2>2 DEF PushTasks, Turn, Accepting, Idle
    <3>2. QED
      BY <1>1, <3>1, PushGoes
  <2>3. QED
    BY <2>1, <2>2
<1>12. CASE PushIterator
  <2>1. CASE RefuseAllocation
    BY <2>1, AllocationRefused
  <2>2. CASE ~RefuseAllocation
    <3>1. /\ encoder = "Value" /\ todo = <<>> /\ ~Stacked /\ unstacked' = Nothing
          /\ UNCHANGED <<vars, encoder, value>> /\ work' = Append(work, Iterator(unstacked))
      BY <1>12, <2>2 DEF PushIterator, Turn, Accepting, Idle
    <3>2. QED
      BY <1>1, <3>1, PushGoes
  <2>3. QED
    BY <2>1, <2>2
<1>13. CASE NoFirstTask
  BY <1>13, AllocationRefused DEF NoFirstTask
<1>14. CASE FinishEncoding
  <2>1. /\ UNCHANGED <<stack, frames, buffer, open_members, todo, started, driver>>
        /\ refused' = refused /\ answer' = answer
    BY <1>14 DEF FinishEncoding, Finish, text, opened, control
  <2>2. EncodingFollows(path)'
    BY <2>1, Unmoved
  <2>3. QED
    BY <2>1, <2>2 DEF Goes, GoesOn
<1>15. QED
  BY <1>3, <1>4, <1>5, <1>6, <1>7, <1>8, <1>9, <1>10, <1>11, <1>12, <1>13, <1>14 DEF EncodeNext

(* What an encoder finishes is complete: with no work left the path is     *)
(* empty and so is the stack.                                              *)
LEMMA FinishesWhole ==
    ASSUME TypeOK, ~refused, EncodeNext, NEW path \in Seq(Level), EncodingFollows(path),
           finished \in {"no", "Ok"}
    PROVE  finished' \in {"no", "Ok"}
<1>1. LevelsFit(path) /\ WorkFollows(path)
  BY DEF EncodingFollows
<1>2. CASE FinishEncoding
  <2>1. work = <<>> /\ value = Nothing /\ Stacked /\ todo = <<>> /\ Finish
    BY <1>2 DEF FinishEncoding, Returned, Accepting, Idle
  <2>2. started
    <3> SUFFICES ASSUME ~started
                 PROVE  FALSE
      OBVIOUS
    <3>1. /\ encoder \in {"NodeRef", "Value"} /\ tree \in Trees
          /\ encoder = "NodeRef" => work = <<ValueTask(tree)>>
          /\ encoder = "Value" => value = tree
      BY <1>1 DEF WorkFollows, Unbegun
    <3>2. encoder # "Value"
      BY <2>1, <3>1, NotNothing
    <3>3. PICK task : task = ValueTask(tree)
      OBVIOUS
    <3>4. <<>> = <<task>>
      BY <2>1, <3>1, <3>2, <3>3
    <3>5. Len(<<>>) = 0 /\ Len(<<task>>) = 1
      OBVIOUS
    <3>6. QED
      BY <3>4, <3>5
  <2>3. path = <<>>
    <3> SUFFICES ASSUME path # <<>>
                 PROVE  FALSE
      OBVIOUS
    <3>1. Len(path) \in Nat \ {0} /\ Len(path) \in DOMAIN path
      BY BottomOf
    <3>2. Len(work) = 0
      BY <2>1
    <3>3. CASE encoder = "NodeRef"
      <4>1. TasksFollow(path)
        BY <1>1, <2>2, <3>3 DEF WorkFollows
      <4>2. /\ Len(work) = LevelTop(path, Len(path))
            /\ LevelTop(path, Len(path)) = path[Len(path)].at + TasksLeft(path[Len(path)])
            /\ path[Len(path)].at \in Nat \ {0} /\ TasksLeft(path[Len(path)]) \in Nat
        BY <1>1, <3>1, <4>1, TaskPlaces DEF TasksFollow
      <4>3. QED
        BY <3>2, <4>2
    <3>4. CASE encoder # "NodeRef"
      BY <1>1, <2>2, <3>1, <3>2, <3>4 DEF WorkFollows, IteratorsFollow
    <3>5. QED
      BY <3>3, <3>4
  <2>4. stack = <<>>
    BY <2>1, <2>3, IdleStack
  <2>5. QED
    BY <2>1, <2>2, <2>4 DEF Finish
<1>3. CASE RunEvent
  BY <1>3, StepsRun
<1>4. ASSUME NEW t, Visit(t)
      PROVE  finished' = finished
  BY <1>4 DEF Visit, Scalar, Unrepresentable, RefuseThrough, BeginArray, BeginObject, Value,
     ValueEvent
<1>5. ASSUME NEW kind, EndEvent(kind)
      PROVE  finished' = finished
  BY <1>5 DEF EndEvent, EndArray, EndContainer, EndObject, EndObjectEvent
<1>6. ASSUME NEW n, Name(n)
      PROVE  finished' = finished
  BY <1>6 DEF Name, NameEvent
<1>7. RefuseAllocation \/ UNCHANGED vars => finished' = finished
  BY DEF RefuseAllocation, RefuseThrough, vars
<1>8. CASE PopValue \/ VisitValue
  BY <1>4, <1>8 DEF PopValue, VisitValue
<1>9. CASE PopName \/ NextMember
  BY <1>6, <1>9 DEF PopName, NextMember
<1>10. CASE PopEnd \/ EndInnermost
  BY <1>5, <1>10 DEF PopEnd, EndInnermost
<1>11. CASE PushTasks \/ PushIterator \/ NoFirstTask \/ NextItem
  <2>1. RefuseAllocation \/ UNCHANGED vars
    BY <1>11 DEF PushTasks, PushIterator, NoFirstTask, NextItem
  <2>2. QED
    BY <1>7, <2>1
<1>12. QED
  BY <1>2, <1>3, <1>8, <1>9, <1>10, <1>11 DEF EncodeNext

-----------------------------------------------------------------------------
(* Runs.  While nothing is refused some path is followed, and no turn of   *)
(* an encoder ends in an error of the protocol.                            *)
Following == ~refused => \E path \in Seq(Level) : EncodingFollows(path)
InTurn == Sound /\ NeverOutOfTurn /\ Following

(* Before the first turn the path is empty and the root is due. *)
LEMMA EncodingBegins ==
    ASSUME EncodeInit
    PROVE  InTurn
<1>1. /\ todo = <<>> /\ stack = <<>> /\ frames = <<>> /\ started = FALSE
      /\ refused = FALSE /\ answer = "none" /\ finished = "no" /\ unstacked = Nothing
  BY DEF EncodeInit, Init
<1>2. Sound
  BY <1>1, ConsistentInit DEF EncodeInit, Sound, Faultless, Settled, NoInternalFault
<1>3. NeverOutOfTurn
  BY <1>1 DEF NeverOutOfTurn
<1>4. /\ encoder \in {"NodeRef", "Value"} /\ tree \in Trees
      /\ encoder = "NodeRef" => work = <<ValueTask(tree)>> /\ value = Nothing
      /\ encoder = "Value" => work = <<>> /\ value = tree
  BY DEF EncodeInit, Trees
<1>5. LevelsFit(<<>>) /\ ~Due(<<>>) /\ <<>> \in Seq(Level)
  BY RootContainers
<1>6. \A op : ~Ahead(op)
  BY <1>1 DEF Ahead
<1>7. Stacked /\ ~Opening /\ ~Opened /\ Extra = 0
  BY <1>1, <1>6 DEF Stacked, Opening, Opened, Extra
<1>8. StackFollows(<<>>) /\ OpenedEmpty
  BY <1>1, <1>7 DEF StackFollows, FramesOf, OpenedEmpty
<1>9. PlanFollows(<<>>) /\ PendingFollows(<<>>) /\ NamesFollow(<<>>)
  BY <1>1, <1>5, <1>6, <1>7 DEF PlanFollows, PendingFollows, Top, NamesFollow
<1>10. work \in Seq(WorkItem)
  <2>1. PICK task : task = ValueTask(tree)
    OBVIOUS
  <2>2. task \in WorkItem
    BY <1>4, <2>1, TaskTypes
  <2>3. <<task>> \in Seq(WorkItem) /\ <<>> \in Seq(WorkItem)
    BY <2>2, EmptySeq
  <2>4. QED
    BY <1>4, <2>1, <2>3
<1>11. WorkFollows(<<>>)
  BY <1>1, <1>4, <1>7, <1>10 DEF WorkFollows, Unbegun
<1>12. Following
  BY <1>5, <1>8, <1>9, <1>11 DEF Following, EncodingFollows
<1>13. QED
  BY <1>2, <1>3, <1>12 DEF InTurn

(* After an error the encoder has returned it. *)
LEMMA RefusedEncoding ==
    ASSUME Settled, refused
    PROVE  ~EncodeNext
<1>1. ~RunEvent
  BY StepsRun DEF Settled
<1>2. ~Accepting
  BY DEF Accepting
<1>3. QED
  BY <1>1, <1>2 DEF EncodeNext, PopValue, PushTasks, PopName, PopEnd, NoFirstTask, VisitValue,
     PushIterator, NextItem, NextMember, EndInnermost, Advancing, FinishEncoding, Returned, Turn

LEMMA EncodingGoesOn ==
    ASSUME TypeOK, InTurn, [EncodeNext]_allVars
    PROVE  TypeOK' /\ InTurn'
<1>1. Sound /\ NeverOutOfTurn /\ Following
  BY DEF InTurn
<1>2. CASE UNCHANGED allVars
  <2>1. UNCHANGED vars /\ UNCHANGED driver
    BY <1>2 DEF allVars
  <2>2. TypeOK' /\ Sound'
    BY <1>1, <2>1, SoundMoves DEF WriterMoves
  <2>3. /\ UNCHANGED <<stack, frames, buffer, open_members, todo, started, driver>>
        /\ answer' = answer /\ refused' = refused /\ finished' = finished
    BY <2>1 DEF vars, output, text, opened, records, walk, control
  <2>4. ~refused' => \E path \in Seq(Level) : EncodingFollows(path)'
    BY <1>1, <2>3, Unmoved DEF Following
  <2>5. NeverOutOfTurn'
    BY <1>1, <2>3 DEF NeverOutOfTurn
  <2>6. QED
    BY <2>2, <2>4, <2>5 DEF InTurn, Following
<1>3. CASE EncodeNext
  <2>1. ~refused
    BY <1>1, <1>3, RefusedEncoding DEF Sound
  <2>2. PICK path \in Seq(Level) : EncodingFollows(path)
    BY <1>1, <2>1 DEF Following
  <2>3. TypeOK' /\ Sound'
    BY <1>1, <1>3, <2>2, EncoderMoves, SoundMoves
  <2>4. Goes
    BY <1>1, <1>3, <2>1, <2>2, <2>3, TurnGoes
  <2>5. NeverOutOfTurn'
    <3>1. finished' \in {"no", "Ok"}
      BY <1>1, <1>3, <2>1, <2>2, FinishesWhole DEF NeverOutOfTurn
    <3>2. QED
      BY <1>1, <2>3, <2>4, <3>1
         DEF Goes, GoesOn, Endings, NeverOutOfTurn, Sound, NoInternalFault
  <2>6. Following'
    BY <2>4 DEF Goes, GoesOn, Following
  <2>7. QED
    BY <2>3, <2>5, <2>6 DEF InTurn
<1>4. QED
  BY <1>2, <1>3

(* Whatever the tree, the limits and the faults of the sink and of memory, *)
(* neither encoder of a tree ever breaks the writer's protocol: a name     *)
(* comes before each value of an object and never twice, every end matches *)
(* what is open, and what is finished is one whole value.  So an encoding  *)
(* fails only with a limit, the sink, memory or a number without a text    *)
(* (NodeRef::encode_into, Value::encode_into, `encode`).                   *)
THEOREM EncodersInTurn == EncodeSpec => []NeverOutOfTurn
<1>1. EncodeInit => TypeOK /\ InTurn
  BY InitType, EncodingBegins DEF EncodeInit
<1>2. TypeOK /\ InTurn /\ [EncodeNext]_allVars => TypeOK' /\ InTurn'
  BY EncodingGoesOn
<1>3. InTurn => NeverOutOfTurn
  BY DEF InTurn
<1>4. QED
  BY <1>1, <1>2, <1>3, PTL DEF EncodeSpec

=============================================================================
