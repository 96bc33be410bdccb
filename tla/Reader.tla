------------------------------- MODULE Reader -------------------------------
(***************************************************************************)
(* The reader of untrusted JSON of src/read.rs: one loop over the input    *)
(* with an explicit stack of open containers, two scratch stacks shared by *)
(* all of them, and the arena it builds, flat vectors of nodes and of      *)
(* child ids.                                                              *)
(*                                                                         *)
(* The input is a sequence of tokens of one byte each: punctuation, white  *)
(* space, a string, a literal or number, or a piece that is none of these  *)
(* and that the scanner refuses at its first byte.  Its tokens are chosen  *)
(* as the reader comes to them (Disclose), which is choosing the whole of  *)
(* it beforehand, with the inputs that agree so far taken together.        *)
(* Offsets and ids are zero-based, as in the code; the node with an id is  *)
(* slots[id + 1].                                                          *)
(*                                                                         *)
(* An operator that stands directly before another one of the same         *)
(* parameters and that nothing uses is a mutant of it.                     *)
(***************************************************************************)
EXTENDS Integers, Sequences, FiniteSets, SequencesExt

CONSTANTS
    Names,          \* strings, as member names or values
    Rank,           \* their byte order, in which names are compared
    Plain,          \* the other scalars: literals, numbers with a double
    Huge,           \* numbers that have no finite double
    Space,          \* white space
    Torn,           \* strings that string() refuses
    Crooked,        \* numbers that number() refuses
    Stray,          \* other bytes: cut literals, a byte order mark
    MaxInputBytes   \* read's max_input_bytes

Opening == {"{", "["}
Punctuation == Opening \cup {"}", "]", ",", ":"}
Scalar == Names \cup Plain
Token == Punctuation \cup Scalar \cup Huge \cup Space \cup Torn \cup Crooked \cup Stray
End == "end of input"

ASSUME TokensAssumption ==
    /\ Names \cap (Punctuation \cup Plain) = {}
    /\ Scalar \cap (Punctuation \cup Huge \cup Space \cup Torn \cup Crooked \cup Stray) = {}
    /\ Space \cap Punctuation = {}
    /\ End \notin Token
ASSUME RankAssumption ==
    /\ Rank \in [Names -> Nat]
    /\ \A m, n \in Names : Rank[m] = Rank[n] => m = n
ASSUME BoundAssumption == MaxInputBytes \in Nat

VARIABLES
    input, ended,   \* the tokens disclosed, and whether these are all
    position,       \* how many of them are consumed
    expect,         \* Expect, and "Colon" inside member_name
    name,           \* the name member_name has read
    stack, scratch_items, scratch_members,
    slots, items, members,      \* the arena
    answer          \* what read returned

scratch == <<stack, scratch_items, scratch_members>>
arena   == <<slots, items, members>>
vars == <<input, ended, position, expect, name, scratch, arena, answer>>

-----------------------------------------------------------------------------
(* The shapes of the records. *)

Offset == 0 .. MaxInputBytes
SliceInclusive(start, end) == [start |-> start, end |-> end + 1]
Slice(start, end) == [start |-> start, end |-> end]
Leaf(token) == [kind |-> "Leaf", token |-> token]
Array(children) == [kind |-> "Array", children |-> children]
Object(children) == [kind |-> "Object", children |-> children]
Index(n) == [index |-> n]
Member(n) == [member |-> n]
NoStep == [none |-> ""]
Pending(n, offset) == [name |-> n, offset |-> offset, id |-> 0]
NoName == [name |-> "", offset |-> 0]

Malformed == {"InvalidUtf8", "UnexpectedEnd", "UnexpectedCharacter", "BadString",
              "InvalidNumber", "DuplicateName", "TrailingContent"}
Answer(kind, offset, pointer) == [kind |-> kind, offset |-> offset, pointer |-> pointer]
Only(kind) == Answer(kind, 0, <<>>)

-----------------------------------------------------------------------------
(* Reading the state. *)

Reading == answer.kind = "Reading"
AtEnd == position = Len(input)
Peek == IF AtEnd THEN End ELSE input[position + 1]
(* The parser's next step looks at a disclosed token that is not space.    *)
Ready == Reading /\ (AtEnd => ended) /\ Peek \notin Space

InObject(open) == open # <<>> /\ Last(open).object
InArray(open) == open # <<>> /\ ~Last(open).object
AtValue == Ready /\ expect \in {"Value", "ValueOrEnd"}
AtName == Ready /\ expect \in {"Name", "NameOrEnd"}
AtSeparator == Ready /\ expect = "Separator"
AtClose ==
    \/ AtValue /\ expect = "ValueOrEnd" /\ Peek = "]"
    \/ AtName /\ expect = "NameOrEnd" /\ Peek = "}"
    \/ AtSeparator /\ InArray(stack) /\ Peek = "]"
    \/ AtSeparator /\ InObject(stack) /\ Peek = "}"

Stop(result) ==
    /\ answer' = result
    /\ UNCHANGED <<input, ended, position, expect, name, scratch, arena>>
Refuse(kind, offset) == Stop(Answer(kind, offset, <<>>))

(* The kind unexpected() gives to the token at the position. *)
Unexpected == IF AtEnd THEN "UnexpectedEnd" ELSE "UnexpectedCharacter"

-----------------------------------------------------------------------------
(* The input. *)

(* The limit and the encoding are checked before anything is parsed, and   *)
(* the text of the whole tree is reserved.                                 *)
Begin ==
    /\ answer.kind = "Unread"
    /\ \/ Stop(Only("Reading"))
       \/ Stop(Only("Limit"))
       \/ Stop(Only("Allocation"))
       \/ \E valid_up_to \in Offset : Refuse("InvalidUtf8", valid_up_to)

DiscloseOneMore ==
    /\ Reading /\ AtEnd /\ ~ended
    /\ \/ \E t \in Token : /\ Len(input) <= MaxInputBytes
                           /\ input' = Append(input, t)
                           /\ UNCHANGED ended
       \/ ended' = TRUE /\ UNCHANGED input
    /\ UNCHANGED <<position, expect, name, scratch, arena, answer>>

(* The next token, or the end; never more than the limit. *)
Disclose ==
    /\ Reading /\ AtEnd /\ ~ended
    /\ \/ \E t \in Token : /\ Len(input) < MaxInputBytes
                           /\ input' = Append(input, t)
                           /\ UNCHANGED ended
       \/ ended' = TRUE /\ UNCHANGED input
    /\ UNCHANGED <<position, expect, name, scratch, arena, answer>>

SkipWhitespaceStuck ==
    /\ Reading /\ ~AtEnd /\ Peek \in Space
    /\ UNCHANGED vars

SkipWhitespace ==
    /\ Reading /\ ~AtEnd /\ Peek \in Space
    /\ position' = position + 1
    /\ UNCHANGED <<input, ended, expect, name, scratch, arena, answer>>

-----------------------------------------------------------------------------
(* Values. *)

(* complete: a finished value becomes an item of the array around it, or   *)
(* the value of the latest member of the object around it.                 *)
NoMember(open, pendings) == InObject(open) /\ pendings = <<>>

CompleteFirst(id, open, ids, pendings) ==
    /\ scratch_items' = IF InArray(open) THEN Append(ids, id) ELSE ids
    /\ scratch_members' = IF InObject(open)
                            THEN [pendings EXCEPT ![1].id = id] ELSE pendings
    /\ expect' = "Separator"

Complete(id, open, ids, pendings) ==
    /\ scratch_items' = IF InArray(open) THEN Append(ids, id) ELSE ids
    /\ scratch_members' = IF InObject(open)
                            THEN [pendings EXCEPT ![Len(pendings)].id = id] ELSE pendings
    /\ expect' = "Separator"

OpenContainer ==
    /\ AtValue /\ Peek \in Opening
    /\ LET object == Peek = "{"
       IN  /\ stack' = Append(stack,
                  [object |-> object,
                   start |-> IF object THEN Len(scratch_members) ELSE Len(scratch_items)])
           /\ expect' = IF object THEN "NameOrEnd" ELSE "ValueOrEnd"
    /\ position' = position + 1
    /\ UNCHANGED <<input, ended, name, scratch_items, scratch_members, arena, answer>>

LeafValue ==
    /\ AtValue /\ Peek \in Scalar
    /\ IF NoMember(stack, scratch_members)
         THEN Refuse("UnexpectedCharacter", position + 1)
         ELSE /\ slots' = Append(slots, Leaf(Peek))
              /\ Complete(Len(slots), stack, scratch_items, scratch_members)
              /\ position' = position + 1
              /\ UNCHANGED <<input, ended, name, stack, items, members, answer>>

BadValue ==
    /\ AtValue /\ ~AtClose /\ Peek \notin Opening \cup Scalar \cup Huge
    /\ Refuse(IF Peek \in Torn THEN "BadString"
              ELSE IF Peek \in Crooked THEN "InvalidNumber"
              ELSE Unexpected, position)

(* pointer: the children of an open container end where those of the next  *)
(* open one of its kind begin.  A member that cannot be found is left out  *)
(* of the pointer: NoStep.                                                 *)
PointerToTop ==
    LET ChildrenEnd(k) ==
            IF stack[k].object THEN Len(scratch_members) ELSE Len(scratch_items)
    IN  [k \in DOMAIN stack |->
            IF stack[k].object THEN Member(scratch_members[ChildrenEnd(k)].name)
            ELSE Index(ChildrenEnd(k) - stack[k].start)]

Pointer ==
    LET ChildrenEnd(k) ==
            LET inner == {j \in k + 1 .. Len(stack) : stack[j].object = stack[k].object}
            IN  IF inner # {} THEN stack[Min(inner)].start
                ELSE IF stack[k].object THEN Len(scratch_members) ELSE Len(scratch_items)
    IN  [k \in DOMAIN stack |->
            IF stack[k].object
              THEN IF ChildrenEnd(k) \in DOMAIN scratch_members
                     THEN Member(scratch_members[ChildrenEnd(k)].name)
                     ELSE NoStep
            ELSE IF ChildrenEnd(k) > stack[k].start
              THEN Index(ChildrenEnd(k) - stack[k].start)
            ELSE Index(0)]

OutOfRange ==
    /\ AtValue /\ Peek \in Huge
    /\ Stop(Answer("NumberOutOfRange", position, Pointer))

-----------------------------------------------------------------------------
(* Members. *)

MemberName ==
    /\ AtName /\ Peek \in Names
    /\ name' = [name |-> Peek, offset |-> position]
    /\ expect' = "Colon"
    /\ position' = position + 1
    /\ UNCHANGED <<input, ended, scratch, arena, answer>>

BadName ==
    /\ AtName /\ ~AtClose /\ Peek \notin Names
    /\ Refuse(IF Peek \in Torn THEN "BadString" ELSE Unexpected, position)

Colon ==
    /\ Ready /\ expect = "Colon" /\ Peek = ":"
    /\ scratch_members' = Append(scratch_members, Pending(name.name, name.offset))
    /\ name' = NoName
    /\ expect' = "Value"
    /\ position' = position + 1
    /\ UNCHANGED <<input, ended, stack, scratch_items, arena, answer>>

NoColon ==
    /\ Ready /\ expect = "Colon" /\ Peek # ":"
    /\ Refuse(Unexpected, position)

-----------------------------------------------------------------------------
(* Between values, and the end. *)

CommaThenEnd ==
    /\ AtSeparator /\ stack # <<>> /\ Peek = ","
    /\ expect' = IF InObject(stack) THEN "NameOrEnd" ELSE "ValueOrEnd"
    /\ position' = position + 1
    /\ UNCHANGED <<input, ended, name, scratch, arena, answer>>

Comma ==
    /\ AtSeparator /\ stack # <<>> /\ Peek = ","
    /\ expect' = IF InObject(stack) THEN "Name" ELSE "Value"
    /\ position' = position + 1
    /\ UNCHANGED <<input, ended, name, scratch, arena, answer>>

BadSeparator ==
    /\ AtSeparator /\ stack # <<>> /\ Peek # "," /\ ~AtClose
    /\ Refuse(Unexpected, position)

(* check_unique_names sorts by name and offset and looks at neighbours: it *)
(* finds the second of the least name that occurs twice.                   *)
FirstOfDuplicates(pendings) ==
    LET twice == {i \in DOMAIN pendings : \E j \in i + 1 .. Len(pendings) :
                                             pendings[i].name = pendings[j].name}
        Before(i, j) == \/ Rank[pendings[i].name] < Rank[pendings[j].name]
                        \/ pendings[i].name = pendings[j].name /\ i <= j
    IN  {pendings[i].offset : i \in {j \in twice : \A k \in twice : Before(j, k)}}

DuplicateAt(pendings) ==
    LET again == {j \in DOMAIN pendings : \E i \in DOMAIN pendings :
                    /\ pendings[i].name = pendings[j].name
                    /\ pendings[i].offset < pendings[j].offset}
        Before(i, j) == \/ Rank[pendings[i].name] < Rank[pendings[j].name]
                        \/ /\ pendings[i].name = pendings[j].name
                           /\ pendings[i].offset <= pendings[j].offset
    IN  {pendings[i].offset : i \in {j \in again : \A k \in again : Before(j, k)}}

DroppedKeepingAll(list, start) == list

(* What Vec::truncate leaves. *)
Dropped(list, start) == IF start < Len(list) THEN SubSeq(list, 1, start) ELSE list

(* close, and complete for the container closed: its children move from    *)
(* the scratch stack to the arena, and it becomes a node and a child.      *)
CloseArray(outer, start) ==
    LET ids == SubSeq(scratch_items, start + 1, Len(scratch_items))
    IN  /\ items' = items \o ids
        /\ slots' = Append(slots, Array(Slice(Len(items), Len(items) + Len(ids))))
        /\ Complete(Len(slots), outer, Dropped(scratch_items, start), scratch_members)
        /\ UNCHANGED members

CloseObject(outer, start) ==
    LET pendings == SubSeq(scratch_members, start + 1, Len(scratch_members))
        added == [i \in DOMAIN pendings |-> [name |-> pendings[i].name, id |-> pendings[i].id]]
    IN  /\ members' = members \o added
        /\ slots' = Append(slots, Object(Slice(Len(members), Len(members) + Len(added))))
        /\ Complete(Len(slots), outer, scratch_items, Dropped(scratch_members, start))
        /\ UNCHANGED items

(* What close and complete refuse: a closing byte that does not fit (the   *)
(* callers have looked), names that occur twice, no member to complete.    *)
CloseRefusals ==
    LET object == Peek = "}"
        start == Last(stack).start
        outer == Front(stack)
        left == IF object THEN Dropped(scratch_members, start) ELSE scratch_members
        duplicates ==
            IF object THEN DuplicateAt(SubSeq(scratch_members, start + 1, Len(scratch_members)))
            ELSE {}
    IN  IF stack = <<>> \/ Last(stack).object # object
          THEN {Answer("UnexpectedCharacter", position, <<>>)}
        ELSE IF duplicates # {}
          THEN {Answer("DuplicateName", offset, <<>>) : offset \in duplicates}
        ELSE IF NoMember(outer, left)
          THEN {Answer("UnexpectedCharacter", position + 1, <<>>)}
        ELSE {}

Close ==
    /\ AtClose /\ CloseRefusals = {}
    /\ stack' = Front(stack)
    /\ IF Last(stack).object THEN CloseObject(Front(stack), Last(stack).start)
       ELSE CloseArray(Front(stack), Last(stack).start)
    /\ position' = position + 1
    /\ UNCHANGED <<input, ended, name, answer>>

RefuseClose == AtClose /\ \E refusal \in CloseRefusals : Stop(refusal)

Finish ==
    /\ AtSeparator /\ stack = <<>>
    /\ IF ~AtEnd THEN Refuse("TrailingContent", position)
       ELSE IF slots = <<>> THEN Refuse("UnexpectedEnd", position)
       ELSE Stop(Only("Document"))

(* Every vector grows fallibly, and so does the pointer of a number. *)
OutOfMemory ==
    /\ \/ AtValue /\ Peek \in Opening \cup Scalar \cup Huge
       \/ Ready /\ expect = "Colon" /\ Peek = ":"
       \/ AtClose
    /\ Stop(Only("Allocation"))

-----------------------------------------------------------------------------
Init ==
    /\ input = <<>> /\ ended = FALSE
    /\ position = 0 /\ expect = "Value" /\ name = NoName
    /\ stack = <<>> /\ scratch_items = <<>> /\ scratch_members = <<>>
    /\ slots = <<>> /\ items = <<>> /\ members = <<>>
    /\ answer = Only("Unread")

Parse ==
    \/ SkipWhitespace
    \/ OpenContainer \/ LeafValue \/ BadValue \/ OutOfRange
    \/ MemberName \/ BadName \/ Colon \/ NoColon
    \/ Comma \/ BadSeparator \/ Close \/ RefuseClose \/ Finish
    \/ OutOfMemory

Next == Begin \/ Disclose \/ Parse

Spec == Init /\ [][Next]_vars

(* read loops without waiting for anything, over input that is all there.  *)
FairSpec == Spec /\ WF_vars(Next)
=============================================================================
