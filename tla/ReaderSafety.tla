---------------------------- MODULE ReaderSafety ----------------------------
(***************************************************************************)
(* What the reader must never do, and that it returns.                     *)
(***************************************************************************)
EXTENDS Reader

Id == Nat
Children == [start : Id, end : Id]
Node == [kind : {"Leaf"}, token : Scalar] \cup [kind : {"Array", "Object"}, children : Children]
PendingMember == [name : Names, offset : Offset, id : Id]

InputOK ==
    /\ input \in Seq(Token) /\ Len(input) <= MaxInputBytes
    /\ ended \in BOOLEAN
    /\ position \in 0 .. Len(input)
ExpectOK ==
    /\ expect \in {"Value", "ValueOrEnd", "NameOrEnd", "Name", "Separator", "Colon"}
    /\ name \in [name : Names \cup {""}, offset : Offset]
    /\ expect = "Colon" => name.name \in Names
ScratchOK ==
    /\ stack \in Seq([object : BOOLEAN, start : Id])
    /\ scratch_items \in Seq(Id)
    /\ scratch_members \in Seq(PendingMember)
ArenaOK ==
    /\ slots \in Seq(Node)
    /\ items \in Seq(Id)
    /\ members \in Seq([name : Names, id : Id])
AnswerOK ==
    /\ answer.kind \in Malformed \cup {"Unread", "Reading", "Document", "Limit", "Allocation",
                                      "NumberOutOfRange"}
    /\ answer.offset \in Offset
TypeOK == InputOK /\ ExpectOK /\ ScratchOK /\ ArenaOK /\ AnswerOK

-----------------------------------------------------------------------------
(* The lookups of Document cannot miss (its comment says so), and walking  *)
(* down from any node ends: the children of a node are nodes made before   *)
(* it, whatever was open while they were read.                             *)
ChildAt(node, k) == IF node.kind = "Array" THEN items[k] ELSE members[k].id
HoldsEarlier(node, id) ==
    /\ node.children.start <= node.children.end
    /\ node.children.end <= IF node.kind = "Array" THEN Len(items) ELSE Len(members)
    /\ \A k \in node.children.start + 1 .. node.children.end : ChildAt(node, k) < id
ChildrenComeFirst ==
    \A i \in DOMAIN slots : slots[i].kind # "Leaf" => HoldsEarlier(slots[i], i - 1)

(* Every finished node is held in exactly one place, as the child of a     *)
(* node or of an open container, but for the root when nothing is open: so *)
(* the arena is a tree, and its vectors are linear in the input, as the    *)
(* "Bounds" section of the module's documentation says.  The latest member *)
(* of an object has no value while that value is being read.               *)
AwaitsValue(i) ==
    \E k \in DOMAIN stack :
        /\ stack[k].object
        /\ k < Len(stack) \/ expect = "Value"
        /\ LET inner == {j \in k + 1 .. Len(stack) : stack[j].object}
           IN  i = IF inner = {} THEN Len(scratch_members) ELSE stack[Min(inner)].start

Places ==
    ({1} \X DOMAIN items) \cup ({2} \X DOMAIN members) \cup ({3} \X DOMAIN scratch_items)
      \cup ({4} \X {i \in DOMAIN scratch_members : ~AwaitsValue(i)})
HeldAt(place) ==
    CASE place[1] = 1 -> items[place[2]]
      [] place[1] = 2 -> members[place[2]].id
      [] place[1] = 3 -> scratch_items[place[2]]
      [] place[1] = 4 -> scratch_members[place[2]].id

EveryNodeHeldOnce ==
    LET nodes == 0 .. Len(slots) - 1
        root == IF stack = <<>> THEN {Len(slots) - 1} ELSE {}
    IN  /\ {HeldAt(p) : p \in Places} = nodes \ root
        /\ Cardinality(Places) = Cardinality(nodes \ root)
        /\ Len(slots) + Len(stack) + Len(scratch_members) + Len(members) <= position

-----------------------------------------------------------------------------
(* Where a fault is reported, told from the input alone.  Positions in it  *)
(* count from 1.                                                           *)
Closing == {"}", "]"}
Before(p) == 1 .. p - 1
Depth(q, p) ==
    Cardinality({r \in q .. p - 1 : input[r] \in Opening})
      - Cardinality({r \in q .. p - 1 : input[r] \in Closing})
(* The opening byte of the container that the token at p is directly in.   *)
Parents(p) == {q \in Before(p) : input[q] \in Opening /\ \A r \in q + 1 .. p : Depth(q, r) > 0}
Directly(q, p) == Parents(p) # {} /\ Max(Parents(p)) = q
NameBefore(colon) == Max({r \in Before(colon) : input[r] \in Names})

(* The number of commas, or the name before the latest colon. *)
PathStep(q, p) ==
    IF input[q] = "["
      THEN Index(Cardinality({c \in q .. p - 1 : input[c] = "," /\ Directly(q, c)}))
      ELSE Member(input[NameBefore(Max({c \in q .. p - 1 : input[c] = ":" /\ Directly(q, c)}))])
(* From the outside in, which is from the deepest nesting to p. *)
Path(p) ==
    LET length == Cardinality(Parents(p))
    IN  [k \in 1 .. length |->
            PathStep(CHOOSE q \in Parents(p) : Depth(q, p) = length + 1 - k, p)]

(* A number out of range is reported with its own offset and the pointer   *)
(* of the value that it is (tests/read.rs: an earlier sibling container    *)
(* does not shift the index or the name).                                  *)
PointerIsPath ==
    answer.kind = "NumberOutOfRange" =>
        /\ input[answer.offset + 1] \in Huge
        /\ answer.pointer = Path(answer.offset + 1)

MemberNames(q) ==
    {NameBefore(c) : c \in {c \in q + 1 .. Len(input) : input[c] = ":" /\ Directly(q, c)}}

(* A duplicate is reported at the later name of the object that is being   *)
(* closed, and no object of the arena has two members of one name.         *)
DistinctIn(list, of) ==
    \A j, k \in of.start + 1 .. of.end : list[j].name = list[k].name => j = k
NamesDistinct ==
    \A i \in DOMAIN slots : slots[i].kind = "Object" => DistinctIn(members, slots[i].children)
DuplicateAtLaterName ==
    /\ answer.kind = "DuplicateName" =>
         LET p == answer.offset + 1
         IN  /\ Directly(Max(Parents(p)), position + 1)
             /\ p \in MemberNames(Max(Parents(p)))
             /\ \E earlier \in MemberNames(Max(Parents(p))) :
                   earlier < p /\ input[earlier] = input[p]
    /\ NamesDistinct

(* read returns, on every input within the limit. *)
ReadReturns == <>(answer.kind \notin {"Unread", "Reading"})
=============================================================================
