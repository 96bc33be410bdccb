---------------------------- MODULE ReaderProofs ----------------------------
(***************************************************************************)
(* Theorems about the reader, for every value of its constants: its types, *)
(* its inductive invariant, what it builds and what it reports.            *)
(***************************************************************************)
EXTENDS ReaderSafety, SequenceFacts

-----------------------------------------------------------------------------
(* The reader's operators. *)

(* A token that is not the end has a place in the input. *)
LEMMA PeekInside ==
    ASSUME InputOK, Peek \in Token
    PROVE  /\ position \in Nat /\ position < Len(input)
           /\ position + 1 \in 0 .. Len(input)
           /\ position \in Offset /\ position + 1 \in Offset
<1>1. Peek # End
  BY TokensAssumption
<1>2. position \in 0 .. Len(input) /\ Len(input) \in Nat /\ Len(input) <= MaxInputBytes
  BY LenProperties DEF InputOK
<1>3. position # Len(input)
  BY <1>1 DEF Peek, AtEnd
<1>4. QED
  BY <1>2, <1>3, BoundAssumption DEF Offset

(* Every place of the input is an offset. *)
LEMMA PositionIsOffset ==
    ASSUME InputOK
    PROVE  position \in Offset /\ position \in Nat
<1>1. position \in 0 .. Len(input) /\ Len(input) \in Nat /\ Len(input) <= MaxInputBytes
  BY LenProperties DEF InputOK
<1>2. QED
  BY <1>1, BoundAssumption DEF Offset

(* The value of a member is set in place. *)
LEMMA SetIdType ==
    ASSUME NEW pendings \in Seq(PendingMember), NEW k \in 1 .. Len(pendings), NEW id \in Id
    PROVE  /\ [pendings EXCEPT ![k].id = id] \in Seq(PendingMember)
           /\ Len([pendings EXCEPT ![k].id = id]) = Len(pendings)
           /\ \A i \in 1 .. Len(pendings) :
                 [pendings EXCEPT ![k].id = id][i].id = IF i = k THEN id ELSE pendings[i].id
<1> DEFINE after == [pendings EXCEPT ![k].id = id]
<1>1. DOMAIN pendings = 1 .. Len(pendings) /\ Len(pendings) \in Nat
  BY LenProperties
<1>2. \A i \in 1 .. Len(pendings) : pendings[i] \in PendingMember
  BY ElementOfSeq
<1>3. \A i \in 1 .. Len(pendings) :
         /\ after[i] \in PendingMember
         /\ after[i].id = IF i = k THEN id ELSE pendings[i].id
  BY <1>1, <1>2 DEF PendingMember
<1>4. after \in [1 .. Len(pendings) -> PendingMember]
  BY <1>1, <1>3
<1>5. QED
  BY <1>1, <1>3, <1>4, FunctionIsSeq

(* Dropping the children of a container leaves those before them. *)
LEMMA DroppedType ==
    ASSUME NEW S, NEW list \in Seq(S), NEW n \in Nat
    PROVE  /\ Dropped(list, n) \in Seq(S)
           /\ Len(Dropped(list, n)) \in Nat /\ Len(Dropped(list, n)) <= Len(list)
           /\ \A i \in 1 .. Len(Dropped(list, n)) : Dropped(list, n)[i] = list[i]
<1>1. Len(list) \in Nat
  BY LenProperties
<1>2. CASE n < Len(list)
  <2>1. SubSeq(list, 1, n) \in Seq(S) /\ Len(SubSeq(list, 1, n)) = n
    BY <1>1, <1>2, PrefixType
  <2>2. \A i \in 1 .. n : SubSeq(list, 1, n)[i] = list[i]
    BY <1>1, <1>2, LenProperties
  <2>3. QED
    BY <1>1, <1>2, <2>1, <2>2 DEF Dropped
<1>3. CASE ~(n < Len(list))
  BY <1>1, <1>3 DEF Dropped
<1>4. QED
  BY <1>2, <1>3

(* Completing a value keeps the types of what complete may change. *)
LEMMA CompleteType ==
    ASSUME NEW id \in Id, NEW open \in Seq([object : BOOLEAN, start : Id]),
           NEW ids \in Seq(Id), NEW pendings \in Seq(PendingMember),
           ~NoMember(open, pendings), Complete(id, open, ids, pendings)
    PROVE  /\ scratch_items' \in Seq(Id)
           /\ scratch_members' \in Seq(PendingMember)
           /\ expect' = "Separator"
<1>1. scratch_items' \in Seq(Id)
  BY DEF Complete
<1>2. scratch_members' \in Seq(PendingMember)
  <2>1. CASE InObject(open)
    <3>1. pendings # <<>>
      BY <2>1 DEF NoMember
    <3>2. Len(pendings) \in 1 .. Len(pendings)
      BY <3>1, EmptySeq, LenProperties
    <3>3. QED
      BY <2>1, <3>2, SetIdType DEF Complete
  <2>2. CASE ~InObject(open)
    BY <2>2 DEF Complete
  <2>3. QED
    BY <2>1, <2>2
<1>3. QED
  BY <1>1, <1>2 DEF Complete

-----------------------------------------------------------------------------
(* Every step keeps the types. *)

Kinds == Malformed \cup {"Unread", "Reading", "Document", "Limit", "Allocation", "NumberOutOfRange"}

LEMMA StopTyped ==
    ASSUME TypeOK, NEW result, result.kind \in Kinds, result.offset \in Offset, Stop(result)
    PROVE  TypeOK'
<1>1. InputOK'
  BY DEF TypeOK, InputOK, Stop
<1>2. ExpectOK'
  BY DEF TypeOK, ExpectOK, Stop
<1>3. ScratchOK'
  BY DEF TypeOK, ScratchOK, Stop, scratch
<1>4. ArenaOK'
  BY DEF TypeOK, ArenaOK, Stop, arena
<1>5. AnswerOK'
  BY DEF AnswerOK, Stop, Kinds
<1>6. QED
  BY <1>1, <1>2, <1>3, <1>4, <1>5 DEF TypeOK

LEMMA OnlyTyped ==
    ASSUME TypeOK, NEW kind \in Kinds, Stop(Only(kind))
    PROVE  TypeOK'
<1>1. Only(kind).kind = kind /\ Only(kind).offset = 0
  BY DEF Only, Answer
<1>2. 0 \in Offset
  BY BoundAssumption DEF Offset
<1>3. QED
  BY <1>1, <1>2, StopTyped

LEMMA RefuseTyped ==
    ASSUME TypeOK, NEW kind \in Kinds, NEW offset \in Offset, Refuse(kind, offset)
    PROVE  TypeOK'
<1>1. Answer(kind, offset, <<>>).kind = kind /\ Answer(kind, offset, <<>>).offset = offset
  BY DEF Answer
<1>2. QED
  BY <1>1, StopTyped DEF Refuse

(* A token consumed leaves a legal position. *)
LEMMA ConsumedTyped ==
    ASSUME InputOK, Peek \in Token, position' = position + 1, UNCHANGED <<input, ended>>
    PROVE  InputOK'
  BY PeekInside DEF InputOK

LEMMA BeginTyped == TypeOK /\ Begin => TypeOK'
<1> SUFFICES ASSUME TypeOK, Begin PROVE TypeOK'
  OBVIOUS
<1>1. CASE \E kind \in {"Reading", "Limit", "Allocation"} : Stop(Only(kind))
  BY <1>1, OnlyTyped DEF Kinds
<1>2. CASE \E valid_up_to \in Offset : Refuse("InvalidUtf8", valid_up_to)
  BY <1>2, RefuseTyped DEF Kinds, Malformed
<1>3. QED
  BY <1>1, <1>2 DEF Begin

LEMMA DiscloseTyped == TypeOK /\ Disclose => TypeOK'
<1> SUFFICES ASSUME TypeOK, Disclose PROVE TypeOK'
  OBVIOUS
<1>1. InputOK'
  <2>1. CASE \E t \in Token : Len(input) < MaxInputBytes /\ input' = Append(input, t) /\ UNCHANGED ended
    <3>1. PICK t \in Token : Len(input) < MaxInputBytes /\ input' = Append(input, t) /\ UNCHANGED ended
      BY <2>1
    <3>2. /\ input' \in Seq(Token) /\ Len(input') = Len(input) + 1
      BY <3>1, AppendProperties DEF TypeOK, InputOK
    <3>3. Len(input) \in Nat
      BY LenProperties DEF TypeOK, InputOK
    <3>4. QED
      BY <3>1, <3>2, <3>3, BoundAssumption DEF TypeOK, InputOK, Disclose
  <2>2. CASE ended' = TRUE /\ UNCHANGED input
    BY <2>2 DEF TypeOK, InputOK, Disclose
  <2>3. QED
    BY <2>1, <2>2 DEF Disclose
<1>2. ExpectOK' /\ ScratchOK' /\ ArenaOK' /\ AnswerOK'
  BY DEF TypeOK, ExpectOK, ScratchOK, ArenaOK, AnswerOK, Disclose, scratch, arena
<1>3. QED
  BY <1>1, <1>2 DEF TypeOK

LEMMA SkipWhitespaceTyped == TypeOK /\ SkipWhitespace => TypeOK'
<1> SUFFICES ASSUME TypeOK, SkipWhitespace PROVE TypeOK'
  OBVIOUS
<1>1. Peek \in Token
  BY DEF SkipWhitespace, Token
<1>2. InputOK'
  BY <1>1, ConsumedTyped DEF TypeOK, SkipWhitespace
<1>3. ExpectOK' /\ ScratchOK' /\ ArenaOK' /\ AnswerOK'
  BY DEF TypeOK, ExpectOK, ScratchOK, ArenaOK, AnswerOK, SkipWhitespace, scratch, arena
<1>4. QED
  BY <1>2, <1>3 DEF TypeOK

LEMMA OpenContainerTyped == TypeOK /\ OpenContainer => TypeOK'
<1> SUFFICES ASSUME TypeOK, OpenContainer PROVE TypeOK'
  OBVIOUS
<1> DEFINE entry == [object |-> Peek = "{",
                     start |-> IF Peek = "{" THEN Len(scratch_members) ELSE Len(scratch_items)]
<1>1. InputOK'
  BY ConsumedTyped DEF TypeOK, OpenContainer, Token, Punctuation
<1>2. ExpectOK'
  BY DEF TypeOK, ExpectOK, OpenContainer
<1>3. ScratchOK'
  <2>1. Len(scratch_members) \in Id /\ Len(scratch_items) \in Id
    BY LenProperties DEF TypeOK, ScratchOK, Id
  <2>2. entry \in [object : BOOLEAN, start : Id]
    BY <2>1
  <2>3. stack' = Append(stack, entry)
    BY DEF OpenContainer
  <2> HIDE DEF entry
  <2>4. stack' \in Seq([object : BOOLEAN, start : Id])
    BY <2>2, <2>3, AppendProperties DEF TypeOK, ScratchOK
  <2>5. QED
    BY <2>4 DEF TypeOK, ScratchOK, OpenContainer
<1>4. ArenaOK' /\ AnswerOK'
  BY DEF TypeOK, ArenaOK, AnswerOK, OpenContainer, arena
<1>5. QED
  BY <1>1, <1>2, <1>3, <1>4 DEF TypeOK

LEMMA LeafValueTyped == TypeOK /\ LeafValue => TypeOK'
<1> SUFFICES ASSUME TypeOK, LeafValue PROVE TypeOK'
  OBVIOUS
<1>1. Peek \in Token /\ Peek \in Scalar
  BY DEF LeafValue, Token
<1>2. CASE NoMember(stack, scratch_members)
  <2>1. Refuse("UnexpectedCharacter", position + 1)
    BY <1>2 DEF LeafValue
  <2>2. position + 1 \in Offset
    BY <1>1, PeekInside DEF TypeOK
  <2>3. QED
    BY <2>1, <2>2, RefuseTyped DEF Kinds, Malformed
<1>3. CASE ~NoMember(stack, scratch_members)
  <2>1. /\ slots' = Append(slots, Leaf(Peek))
        /\ Complete(Len(slots), stack, scratch_items, scratch_members)
        /\ position' = position + 1
        /\ UNCHANGED <<input, ended, name, stack, items, members, answer>>
    BY <1>3 DEF LeafValue
  <2>2. InputOK'
    BY <1>1, <2>1, ConsumedTyped DEF TypeOK
  <2>3. Len(slots) \in Id
    BY LenProperties DEF TypeOK, ArenaOK, Id
  <2>4. /\ scratch_items' \in Seq(Id) /\ scratch_members' \in Seq(PendingMember)
        /\ expect' = "Separator"
    BY <1>3, <2>1, <2>3, CompleteType DEF TypeOK, ScratchOK
  <2>5. Leaf(Peek) \in Node
    BY <1>1 DEF Leaf, Node
  <2>6. slots' \in Seq(Node)
    BY <2>1, <2>5, AppendProperties DEF TypeOK, ArenaOK
  <2>7. ExpectOK' /\ AnswerOK'
    BY <2>1, <2>4 DEF TypeOK, ExpectOK, AnswerOK
  <2>8. ScratchOK' /\ ArenaOK'
    BY <2>1, <2>4, <2>6 DEF TypeOK, ScratchOK, ArenaOK
  <2>9. QED
    BY <2>2, <2>7, <2>8 DEF TypeOK
<1>4. QED
  BY <1>2, <1>3

LEMMA MemberNameTyped == TypeOK /\ MemberName => TypeOK'
<1> SUFFICES ASSUME TypeOK, MemberName PROVE TypeOK'
  OBVIOUS
<1>1. Peek \in Token
  BY DEF MemberName, Token, Scalar
<1>2. InputOK' /\ position \in Offset
  BY <1>1, ConsumedTyped, PeekInside DEF TypeOK, MemberName
<1>3. ExpectOK'
  BY <1>2 DEF TypeOK, ExpectOK, MemberName
<1>4. ScratchOK' /\ ArenaOK' /\ AnswerOK'
  BY DEF TypeOK, ScratchOK, ArenaOK, AnswerOK, MemberName, scratch, arena
<1>5. QED
  BY <1>2, <1>3, <1>4 DEF TypeOK

LEMMA ColonTyped == TypeOK /\ Colon => TypeOK'
<1> SUFFICES ASSUME TypeOK, Colon PROVE TypeOK'
  OBVIOUS
<1>1. InputOK'
  BY ConsumedTyped DEF TypeOK, Colon, Token, Punctuation
<1>2. ExpectOK'
  <2>1. 0 \in Offset
    BY BoundAssumption DEF Offset
  <2>2. NoName \in [name : Names \cup {""}, offset : Offset]
    BY <2>1 DEF NoName
  <2>3. name' = NoName /\ expect' = "Value"
    BY DEF Colon
  <2>4. QED
    BY <2>2, <2>3 DEF ExpectOK
<1>3. Pending(name.name, name.offset) \in PendingMember
  BY DEF TypeOK, ExpectOK, Colon, Pending, PendingMember, Id
<1>4. scratch_members' \in Seq(PendingMember)
  BY <1>3, AppendProperties DEF TypeOK, ScratchOK, Colon
<1>5. ScratchOK' /\ ArenaOK' /\ AnswerOK'
  BY <1>4 DEF TypeOK, ScratchOK, ArenaOK, AnswerOK, Colon, arena
<1>6. QED
  BY <1>1, <1>2, <1>5 DEF TypeOK

LEMMA CommaTyped == TypeOK /\ Comma => TypeOK'
<1> SUFFICES ASSUME TypeOK, Comma PROVE TypeOK'
  OBVIOUS
<1>1. InputOK'
  BY ConsumedTyped DEF TypeOK, Comma, Token, Punctuation
<1>2. ExpectOK'
  BY DEF TypeOK, ExpectOK, Comma
<1>3. ScratchOK' /\ ArenaOK' /\ AnswerOK'
  BY DEF TypeOK, ScratchOK, ArenaOK, AnswerOK, Comma, scratch, arena
<1>4. QED
  BY <1>1, <1>2, <1>3 DEF TypeOK

(* The refusals of a close are offsets of the input or of its names. *)
LEMMA CloseRefusalsType ==
    ASSUME TypeOK, AtClose, NEW refusal \in CloseRefusals
    PROVE  refusal.kind \in Kinds /\ refusal.offset \in Offset
<1> DEFINE object == Peek = "}"
           start == Last(stack).start
           left == IF object THEN Dropped(scratch_members, start) ELSE scratch_members
           pendings == SubSeq(scratch_members, start + 1, Len(scratch_members))
           duplicates == IF object THEN DuplicateAt(pendings) ELSE {}
<1>1. Peek \in Token
  BY DEF AtClose, Token, Punctuation
<1>2. position \in Offset /\ position + 1 \in Offset
  BY <1>1, PeekInside DEF TypeOK
<1>3. \A kind, offset : /\ Answer(kind, offset, <<>>).kind = kind
                       /\ Answer(kind, offset, <<>>).offset = offset
  BY DEF Answer
<1>4. \A offset \in duplicates : stack # <<>> => offset \in Offset
  <2> SUFFICES ASSUME NEW offset \in duplicates, stack # <<>>
               PROVE  offset \in Offset
    OBVIOUS
  <2>1. Last(stack) \in [object : BOOLEAN, start : Id]
    BY FrontLast DEF TypeOK, ScratchOK
  <2>2. start \in Nat
    BY <2>1 DEF Id
  <2> HIDE DEF start
  <2>3. pendings \in Seq(PendingMember)
    BY <2>2, SuffixType DEF TypeOK, ScratchOK
  <2> HIDE DEF pendings
  <2>4. offset \in DuplicateAt(pendings)
    OBVIOUS
  <2>5. PICK i \in DOMAIN pendings : offset = pendings[i].offset
    BY <2>4 DEF DuplicateAt
  <2>6. pendings[i] \in PendingMember
    BY <2>3, <2>5, ElementOfSeq, LenProperties
  <2>7. QED
    BY <2>5, <2>6 DEF PendingMember
<1>5. CloseRefusals =
        IF stack = <<>> \/ Last(stack).object # object
          THEN {Answer("UnexpectedCharacter", position, <<>>)}
        ELSE IF duplicates # {}
          THEN {Answer("DuplicateName", offset, <<>>) : offset \in duplicates}
        ELSE IF NoMember(Front(stack), left)
          THEN {Answer("UnexpectedCharacter", position + 1, <<>>)}
        ELSE {}
  BY DEF CloseRefusals
<1> HIDE DEF duplicates, left, start
<1>6. CASE refusal = Answer("UnexpectedCharacter", position, <<>>)
  BY <1>2, <1>3, <1>6 DEF Kinds, Malformed
<1>7. CASE refusal = Answer("UnexpectedCharacter", position + 1, <<>>)
  BY <1>2, <1>3, <1>7 DEF Kinds, Malformed
<1>8. CASE stack # <<>> /\ \E offset \in duplicates : refusal = Answer("DuplicateName", offset, <<>>)
  BY <1>3, <1>4, <1>8 DEF Kinds, Malformed
<1>9. QED
  BY <1>5, <1>6, <1>7, <1>8

(* A close that is not refused: the container, what is left around it, and *)
(* what becomes of the arena.                                              *)
LEMMA CloseShape ==
    ASSUME TypeOK, Close
    PROVE  /\ stack # <<>> /\ Last(stack) \in [object : BOOLEAN, start : Id]
           /\ Front(stack) \in Seq([object : BOOLEAN, start : Id])
           /\ Last(stack).object =>
                 ~NoMember(Front(stack), Dropped(scratch_members, Last(stack).start))
           /\ ~Last(stack).object => ~NoMember(Front(stack), scratch_members)
<1>1. CloseRefusals = {} /\ AtClose
  BY DEF Close
<1>2. ~(stack = <<>> \/ Last(stack).object # (Peek = "}"))
  BY <1>1 DEF CloseRefusals
<1>3. ~NoMember(Front(stack), IF Peek = "}" THEN Dropped(scratch_members, Last(stack).start)
                              ELSE scratch_members)
  BY <1>1, <1>2 DEF CloseRefusals
<1>4. Last(stack).object = (Peek = "}")
  BY <1>2
<1>5. /\ Last(stack) \in [object : BOOLEAN, start : Id]
      /\ Front(stack) \in Seq([object : BOOLEAN, start : Id])
  BY <1>2, FrontLast DEF TypeOK, ScratchOK
<1>6. QED
  BY <1>2, <1>3, <1>4, <1>5

LEMMA CloseTyped == TypeOK /\ Close => TypeOK'
<1> SUFFICES ASSUME TypeOK, Close PROVE TypeOK'
  OBVIOUS
<1> DEFINE start == Last(stack).start
           outer == Front(stack)
<1>1. /\ start \in Nat /\ outer \in Seq([object : BOOLEAN, start : Id])
      /\ Last(stack).object \in BOOLEAN
      /\ Last(stack).object => ~NoMember(outer, Dropped(scratch_members, start))
      /\ ~Last(stack).object => ~NoMember(outer, scratch_members)
  BY CloseShape DEF Id
<1>2. /\ stack' = outer
      /\ Last(stack).object => CloseObject(outer, start)
      /\ ~Last(stack).object => CloseArray(outer, start)
      /\ position' = position + 1 /\ UNCHANGED <<input, ended, name, answer>>
  BY DEF Close
<1> HIDE DEF start, outer
<1>3. InputOK'
  BY <1>2, ConsumedTyped DEF TypeOK, Close, AtClose, Token, Punctuation
<1>4. /\ Len(slots) \in Id /\ Len(items) \in Nat /\ Len(members) \in Nat
  BY LenProperties DEF TypeOK, ArenaOK, Id
<1>5. CASE Last(stack).object
  <2> DEFINE pendings == SubSeq(scratch_members, start + 1, Len(scratch_members))
             added == [i \in DOMAIN pendings |-> [name |-> pendings[i].name, id |-> pendings[i].id]]
             node == Object(Slice(Len(members), Len(members) + Len(added)))
  <2>1. /\ members' = members \o added
        /\ slots' = Append(slots, node)
        /\ Complete(Len(slots), outer, scratch_items, Dropped(scratch_members, start))
        /\ items' = items
    BY <1>2, <1>5 DEF CloseObject
  <2>2. pendings \in Seq(PendingMember)
    BY <1>1, SuffixType DEF TypeOK, ScratchOK
  <2>3. DOMAIN pendings = 1 .. Len(pendings) /\ Len(pendings) \in Nat
    BY <2>2, LenProperties
  <2>4. \A i \in 1 .. Len(pendings) : pendings[i] \in PendingMember
    BY <2>2, ElementOfSeq
  <2> HIDE DEF pendings
  <2>5. added \in [1 .. Len(pendings) -> [name : Names, id : Id]]
    BY <2>3, <2>4 DEF PendingMember
  <2>6. added \in Seq([name : Names, id : Id]) /\ Len(added) = Len(pendings)
    BY <2>3, <2>5, FunctionIsSeq
  <2> HIDE DEF added
  <2>7. members' \in Seq([name : Names, id : Id])
    BY <2>1, <2>6, ConcatProperties DEF TypeOK, ArenaOK
  <2>8. node \in Node
    BY <1>4, <2>3, <2>6 DEF Node, Object, Slice, Children, Id
  <2> HIDE DEF node
  <2>9. slots' \in Seq(Node)
    BY <2>1, <2>8, AppendProperties DEF TypeOK, ArenaOK
  <2>10. Dropped(scratch_members, start) \in Seq(PendingMember)
    BY <1>1, DroppedType DEF TypeOK, ScratchOK
  <2>11. /\ scratch_items' \in Seq(Id) /\ scratch_members' \in Seq(PendingMember)
         /\ expect' = "Separator"
    BY <1>1, <1>4, <1>5, <2>1, <2>10, CompleteType DEF TypeOK, ScratchOK
  <2>12. ScratchOK' /\ ArenaOK'
    BY <1>1, <1>2, <2>1, <2>7, <2>9, <2>11 DEF TypeOK, ScratchOK, ArenaOK
  <2>13. ExpectOK' /\ AnswerOK'
    BY <1>2, <2>11 DEF TypeOK, ExpectOK, AnswerOK
  <2>14. QED
    BY <1>3, <2>12, <2>13 DEF TypeOK
<1>6. CASE ~Last(stack).object
  <2> DEFINE ids == SubSeq(scratch_items, start + 1, Len(scratch_items))
             node == Array(Slice(Len(items), Len(items) + Len(ids)))
  <2>1. /\ items' = items \o ids
        /\ slots' = Append(slots, node)
        /\ Complete(Len(slots), outer, Dropped(scratch_items, start), scratch_members)
        /\ members' = members
    BY <1>2, <1>6 DEF CloseArray
  <2>2. ids \in Seq(Id) /\ Len(ids) \in Nat
    BY <1>1, SuffixType DEF TypeOK, ScratchOK
  <2> HIDE DEF ids
  <2>3. items' \in Seq(Id)
    BY <2>1, <2>2, ConcatProperties DEF TypeOK, ArenaOK
  <2>4. node \in Node
    BY <1>4, <2>2 DEF Node, Array, Slice, Children, Id
  <2> HIDE DEF node
  <2>5. slots' \in Seq(Node)
    BY <2>1, <2>4, AppendProperties DEF TypeOK, ArenaOK
  <2>6. Dropped(scratch_items, start) \in Seq(Id)
    BY <1>1, DroppedType DEF TypeOK, ScratchOK
  <2>7. /\ scratch_items' \in Seq(Id) /\ scratch_members' \in Seq(PendingMember)
        /\ expect' = "Separator"
    BY <1>1, <1>4, <1>6, <2>1, <2>6, CompleteType DEF TypeOK, ScratchOK
  <2>8. ScratchOK' /\ ArenaOK'
    BY <1>1, <1>2, <2>1, <2>3, <2>5, <2>7 DEF TypeOK, ScratchOK, ArenaOK
  <2>9. ExpectOK' /\ AnswerOK'
    BY <1>2, <2>7 DEF TypeOK, ExpectOK, AnswerOK
  <2>10. QED
    BY <1>3, <2>8, <2>9 DEF TypeOK
<1>7. QED
  BY <1>1, <1>5, <1>6

(* The steps that end the reading. *)
Stops == \/ BadValue \/ OutOfRange \/ BadName \/ NoColon \/ BadSeparator
         \/ RefuseClose \/ Finish \/ OutOfMemory

LEMMA StopsTyped == TypeOK /\ Stops => TypeOK'
<1> SUFFICES ASSUME TypeOK, Stops PROVE TypeOK'
  OBVIOUS
<1>1. position \in Offset
  BY PositionIsOffset DEF TypeOK
<1>2. Unexpected \in Kinds
  BY DEF Unexpected, Kinds, Malformed
<1>3. CASE BadValue
  <2>1. PICK kind \in Kinds : Refuse(kind, position)
    BY <1>2, <1>3 DEF BadValue, Kinds, Malformed
  <2>2. QED
    BY <1>1, <2>1, RefuseTyped
<1>4. CASE OutOfRange
  <2>1. PICK result : /\ Stop(result) /\ result.kind = "NumberOutOfRange"
                      /\ result.offset = position
    BY <1>4 DEF OutOfRange, Answer
  <2>2. QED
    BY <1>1, <2>1, StopTyped DEF Kinds
<1>5. CASE BadName
  <2>1. PICK kind \in Kinds : Refuse(kind, position)
    BY <1>2, <1>5 DEF BadName, Kinds, Malformed
  <2>2. QED
    BY <1>1, <2>1, RefuseTyped
<1>6. CASE NoColon
  BY <1>1, <1>2, <1>6, RefuseTyped DEF NoColon
<1>7. CASE BadSeparator
  BY <1>1, <1>2, <1>7, RefuseTyped DEF BadSeparator
<1>8. CASE RefuseClose
  BY <1>8, CloseRefusalsType, StopTyped DEF RefuseClose
<1>9. CASE Finish
  <2>1. \/ \E kind \in Kinds : Refuse(kind, position)
        \/ Stop(Only("Document"))
    BY <1>9 DEF Finish, Kinds, Malformed
  <2>2. QED
    BY <1>1, <2>1, RefuseTyped, OnlyTyped DEF Kinds
<1>10. CASE OutOfMemory
  BY <1>10, OnlyTyped DEF OutOfMemory, Kinds
<1>11. QED
  BY <1>3, <1>4, <1>5, <1>6, <1>7, <1>8, <1>9, <1>10 DEF Stops

LEMMA NextTyped == TypeOK /\ [Next]_vars => TypeOK'
<1> SUFFICES ASSUME TypeOK, [Next]_vars PROVE TypeOK'
  OBVIOUS
<1>1. CASE UNCHANGED vars
  BY <1>1 DEF TypeOK, InputOK, ExpectOK, ScratchOK, ArenaOK, AnswerOK, vars, scratch, arena
<1>2. CASE Next
  <2>1. Stops => TypeOK'
    BY StopsTyped
  <2>2. QED
    BY <1>2, <2>1, BeginTyped, DiscloseTyped, SkipWhitespaceTyped, OpenContainerTyped,
       LeafValueTyped, MemberNameTyped, ColonTyped, CommaTyped, CloseTyped
       DEF Next, Parse, Stops
<1>3. QED
  BY <1>1, <1>2

LEMMA InitTyped == Init => TypeOK
<1> SUFFICES ASSUME Init PROVE TypeOK
  OBVIOUS
<1>1. 0 \in Offset /\ MaxInputBytes \in Nat
  BY BoundAssumption DEF Offset
<1>2. InputOK
  <2>1. <<>> \in Seq(Token) /\ Len(<<>>) = 0
    OBVIOUS
  <2>2. input = <<>> /\ ended = FALSE /\ position = 0
    BY DEF Init
  <2>3. Len(input) = 0 /\ input \in Seq(Token)
    BY <2>1, <2>2
  <2>4. ended \in BOOLEAN
    BY DEF Init
  <2>5. position \in 0 .. Len(input) /\ Len(input) <= MaxInputBytes
    BY <1>1, <2>2, <2>3
  <2>6. QED
    BY <2>3, <2>4, <2>5 DEF InputOK
<1>3. ScratchOK /\ ArenaOK
  BY DEF Init, ScratchOK, ArenaOK
<1>4. ExpectOK
  BY <1>1 DEF Init, ExpectOK, NoName
<1>5. AnswerOK
  BY <1>1 DEF Init, AnswerOK, Only, Answer
<1>6. QED
  BY <1>2, <1>3, <1>4, <1>5 DEF TypeOK

(* Type correctness: whatever the input, positions and offsets lie within  *)
(* it, and the stacks and the arena hold nodes, names and ids and nothing  *)
(* else, the number of tokens never above the limit.                       *)
THEOREM ReaderTypeCorrect == Spec => []TypeOK
<1>1. QED
  BY InitTyped, NextTyped, PTL DEF Spec

-----------------------------------------------------------------------------
(* The arena is acyclic.  ChildrenComeFirst is not inductive: a container  *)
(* takes its children from the scratch stacks, whose ids must be those of  *)
(* nodes.  A member whose value is still to come has the id 0; by the time *)
(* its object closes a node has been made, or the object is empty.         *)

ItemsMade == \A i \in 1 .. Len(scratch_items) : scratch_items[i] < Len(slots)
MembersMade ==
    \A i \in 1 .. Len(scratch_members) :
        scratch_members[i].id = 0 \/ scratch_members[i].id < Len(slots)
Expected ==
    /\ expect = "Separator" => Len(slots) > 0
    /\ expect = "NameOrEnd" => stack # <<>> /\ Last(stack).start = Len(scratch_members)
Scratched == ItemsMade /\ MembersMade /\ Expected
Acyclic == TypeOK /\ Scratched /\ ChildrenComeFirst

(* What a node may hold, told of the arena it is added to. *)
Fits(node, itemsAfter, membersAfter, id) ==
    /\ node.children.start <= node.children.end
    /\ node.kind = "Array" =>
         /\ node.children.end <= Len(itemsAfter)
         /\ \A k \in node.children.start + 1 .. node.children.end : itemsAfter[k] < id
    /\ node.kind # "Array" =>
         /\ node.children.end <= Len(membersAfter)
         /\ \A k \in node.children.start + 1 .. node.children.end : membersAfter[k].id < id

LEMMA ComeFirstFits ==
    ChildrenComeFirst <=>
        \A i \in DOMAIN slots : slots[i].kind # "Leaf" => Fits(slots[i], items, members, i - 1)
  BY DEF ChildrenComeFirst, HoldsEarlier, ChildAt, Fits

LEMMA ComeFirstFitsNext ==
    ChildrenComeFirst' <=>
        \A i \in DOMAIN slots' :
            slots'[i].kind # "Leaf" => Fits(slots'[i], items', members', i - 1)
  BY DEF ChildrenComeFirst, HoldsEarlier, ChildAt, Fits

(* A node that fits goes on fitting when the arena grows.                  *)
LEMMA FitsLonger ==
    ASSUME NEW node \in Node, node.kind # "Leaf", NEW id,
           NEW i1 \in Seq(Id), NEW i2 \in Seq(Id),
           NEW m1 \in Seq([name : Names, id : Id]), NEW m2 \in Seq([name : Names, id : Id]),
           Len(i1) <= Len(i2), \A k \in 1 .. Len(i1) : i2[k] = i1[k],
           Len(m1) <= Len(m2), \A k \in 1 .. Len(m1) : m2[k] = m1[k],
           Fits(node, i1, m1, id)
    PROVE  Fits(node, i2, m2, id)
<1>1. node.children.start \in Nat /\ node.children.end \in Nat
  BY DEF Node, Children, Id
<1>2. Len(i1) \in Nat /\ Len(i2) \in Nat /\ Len(m1) \in Nat /\ Len(m2) \in Nat
  BY LenProperties
<1> DEFINE first == node.children.start + 1
           last == node.children.end
<1>3. first \in Nat \ {0} /\ last \in Nat
  BY <1>1
<1>4. node.children.start <= node.children.end
  BY DEF Fits
<1>5. node.kind = "Array" => /\ last <= Len(i2)
                             /\ \A k \in first .. last : i2[k] < id
  <2> SUFFICES ASSUME node.kind = "Array"
               PROVE  last <= Len(i2) /\ \A k \in first .. last : i2[k] < id
    OBVIOUS
  <2>1. last <= Len(i1) /\ \A k \in first .. last : i1[k] < id
    BY DEF Fits
  <2> HIDE DEF first, last
  <2>2. \A k \in first .. last : k \in 1 .. Len(i1)
    BY <1>2, <1>3, <2>1
  <2>3. QED
    BY <1>2, <1>3, <2>1, <2>2
<1>6. node.kind # "Array" => /\ last <= Len(m2)
                             /\ \A k \in first .. last : m2[k].id < id
  <2> SUFFICES ASSUME node.kind # "Array"
               PROVE  last <= Len(m2) /\ \A k \in first .. last : m2[k].id < id
    OBVIOUS
  <2>1. last <= Len(m1) /\ \A k \in first .. last : m1[k].id < id
    BY DEF Fits
  <2> HIDE DEF first, last
  <2>2. \A k \in first .. last : k \in 1 .. Len(m1)
    BY <1>2, <1>3, <2>1
  <2>3. QED
    BY <1>2, <1>3, <2>1, <2>2
<1>7. QED
  BY <1>4, <1>5, <1>6 DEF Fits

(* A node added to the arena after its children keeps it acyclic.          *)
LEMMA ArenaGrows ==
    ASSUME TypeOK, TypeOK', ChildrenComeFirst, NEW node \in Node, slots' = Append(slots, node),
           Len(items) <= Len(items'), \A k \in 1 .. Len(items) : items'[k] = items[k],
           Len(members) <= Len(members'), \A k \in 1 .. Len(members) : members'[k] = members[k],
           node.kind # "Leaf" => Fits(node, items', members', Len(slots))
    PROVE  ChildrenComeFirst'
<1>1. /\ items \in Seq(Id) /\ items' \in Seq(Id)
      /\ members \in Seq([name : Names, id : Id]) /\ members' \in Seq([name : Names, id : Id])
      /\ slots \in Seq(Node)
  BY DEF TypeOK, ArenaOK
<1>2. /\ DOMAIN slots' = 1 .. Len(slots) + 1 /\ DOMAIN slots = 1 .. Len(slots)
      /\ Len(slots) \in Nat
      /\ \A i \in 1 .. Len(slots) : slots'[i] = slots[i]
      /\ slots'[Len(slots) + 1] = node
  BY <1>1, AppendProperties, LenProperties
<1>3. SUFFICES ASSUME NEW i \in 1 .. Len(slots) + 1, slots'[i].kind # "Leaf"
               PROVE  Fits(slots'[i], items', members', i - 1)
  BY <1>2, ComeFirstFitsNext
<1>4. CASE i \in 1 .. Len(slots)
  <2>1. slots'[i] = slots[i] /\ slots[i] \in Node
    BY <1>1, <1>2, <1>4, ElementOfSeq
  <2>2. Fits(slots[i], items, members, i - 1)
    BY <1>2, <1>3, <1>4, <2>1, ComeFirstFits
  <2>3. Fits(slots[i], items', members', i - 1)
    BY <1>1, <1>3, <2>1, <2>2, FitsLonger
  <2>4. QED
    BY <2>1, <2>3
<1>5. CASE i = Len(slots) + 1
  <2>1. slots'[i] = node /\ i - 1 = Len(slots)
    BY <1>2, <1>5
  <2>2. QED
    BY <1>3, <2>1
<1>6. QED
  BY <1>2, <1>4, <1>5

(* Completing a value sets an id below a bound that the others are below.  *)
LEMMA CompleteMade ==
    ASSUME NEW id \in Id, NEW open \in Seq([object : BOOLEAN, start : Id]),
           NEW ids \in Seq(Id), NEW pendings \in Seq(PendingMember), NEW n \in Nat,
           ~NoMember(open, pendings), Complete(id, open, ids, pendings), id < n,
           \A i \in 1 .. Len(ids) : ids[i] < n,
           \A i \in 1 .. Len(pendings) : pendings[i].id = 0 \/ pendings[i].id < n
    PROVE  /\ \A i \in 1 .. Len(scratch_items') : scratch_items'[i] < n
           /\ \A i \in 1 .. Len(scratch_members') :
                 scratch_members'[i].id = 0 \/ scratch_members'[i].id < n
<1>1. \A i \in 1 .. Len(scratch_items') : scratch_items'[i] < n
  <2>1. CASE InArray(open)
    <3>1. scratch_items' = Append(ids, id)
      BY <2>1 DEF Complete
    <3>2. /\ Len(scratch_items') = Len(ids) + 1 /\ Len(ids) \in Nat
          /\ \A i \in 1 .. Len(ids) : scratch_items'[i] = ids[i]
          /\ scratch_items'[Len(ids) + 1] = id
      BY <3>1, AppendProperties, LenProperties
    <3>3. QED
      BY SMTT(30), <3>2
  <2>2. CASE ~InArray(open)
    BY <2>2 DEF Complete
  <2>3. QED
    BY <2>1, <2>2
<1>2. \A i \in 1 .. Len(scratch_members') :
         scratch_members'[i].id = 0 \/ scratch_members'[i].id < n
  <2>1. CASE InObject(open)
    <3>1. pendings # <<>>
      BY <2>1 DEF NoMember
    <3>2. Len(pendings) \in 1 .. Len(pendings)
      BY <3>1, EmptySeq, LenProperties
    <3>3. scratch_members' = [pendings EXCEPT ![Len(pendings)].id = id]
      BY <2>1 DEF Complete
    <3>4. /\ Len(scratch_members') = Len(pendings)
          /\ \A i \in 1 .. Len(pendings) :
                scratch_members'[i].id = IF i = Len(pendings) THEN id ELSE pendings[i].id
      BY <3>2, <3>3, SetIdType
    <3>5. QED
      BY <3>4
  <2>2. CASE ~InObject(open)
    BY <2>2 DEF Complete
  <2>3. QED
    BY <2>1, <2>2
<1>3. QED
  BY <1>1, <1>2

-----------------------------------------------------------------------------
(* Every step keeps the arena acyclic. *)

(* A step that leaves the arena and the children waiting for it alone.     *)
LEMMA Undisturbed ==
    ASSUME Acyclic, TypeOK', Expected',
           UNCHANGED <<slots, items, members, scratch_items, scratch_members>>
    PROVE  Acyclic'
<1>1. ItemsMade' /\ MembersMade'
  BY DEF Acyclic, Scratched, ItemsMade, MembersMade
<1>2. ChildrenComeFirst'
  BY ComeFirstFits, ComeFirstFitsNext DEF Acyclic
<1>3. QED
  BY <1>1, <1>2 DEF Acyclic, Scratched

LEMMA QuietAcyclic ==
    ASSUME Acyclic, TypeOK', UNCHANGED <<expect, scratch, arena>>
    PROVE  Acyclic'
<1>1. Expected'
  BY DEF Acyclic, Scratched, Expected, scratch, arena
<1>2. QED
  BY <1>1, Undisturbed DEF scratch, arena

LEMMA StopsAcyclic ==
    ASSUME Acyclic, TypeOK', Stops \/ Begin
    PROVE  Acyclic'
<1>1. \E result : Stop(result)
  BY DEF Stops, Begin, BadValue, OutOfRange, BadName, NoColon, BadSeparator, RefuseClose,
         Finish, OutOfMemory, Refuse
<1>2. UNCHANGED <<expect, scratch, arena>>
  BY <1>1 DEF Stop
<1>3. QED
  BY <1>2, QuietAcyclic

LEMMA OpenContainerAcyclic ==
    ASSUME Acyclic, TypeOK', OpenContainer
    PROVE  Acyclic'
<1> DEFINE entry == [object |-> Peek = "{",
                     start |-> IF Peek = "{" THEN Len(scratch_members) ELSE Len(scratch_items)]
<1>1. stack' = Append(stack, entry) /\ UNCHANGED <<scratch_items, scratch_members, arena>>
  BY DEF OpenContainer
<1>2. expect' = IF Peek = "{" THEN "NameOrEnd" ELSE "ValueOrEnd"
  BY DEF OpenContainer
<1>3. Peek = "{" => entry.start = Len(scratch_members)
  OBVIOUS
<1>4. entry \in [object : BOOLEAN, start : Id]
  <2>1. Len(scratch_members) \in Id /\ Len(scratch_items) \in Id
    BY LenProperties DEF Acyclic, TypeOK, ScratchOK, Id
  <2>2. QED
    BY <2>1
<1> HIDE DEF entry
<1>5. stack' # <<>> /\ Last(stack') = entry
  <2>1. stack \in Seq([object : BOOLEAN, start : Id])
    BY DEF Acyclic, TypeOK, ScratchOK
  <2>2. /\ Len(stack') = Len(stack) + 1 /\ Len(stack) \in Nat
        /\ stack'[Len(stack) + 1] = entry
    BY <1>1, <1>4, <2>1, AppendProperties, LenProperties
  <2>3. QED
    BY <2>2, EmptySeq DEF Last
<1>6. Expected'
  BY <1>1, <1>2, <1>3, <1>5 DEF Expected
<1>7. QED
  BY <1>1, <1>6, Undisturbed DEF arena

LEMMA NamesAcyclic ==
    ASSUME Acyclic, TypeOK', MemberName \/ Comma
    PROVE  Acyclic'
<1>1. UNCHANGED <<scratch, arena>> /\ expect' \notin {"Separator", "NameOrEnd"}
  BY DEF MemberName, Comma
<1>2. Expected'
  BY <1>1 DEF Expected
<1>3. QED
  BY <1>1, <1>2, Undisturbed DEF scratch, arena

LEMMA ColonAcyclic ==
    ASSUME Acyclic, TypeOK', Colon
    PROVE  Acyclic'
<1> DEFINE pending == Pending(name.name, name.offset)
<1>1. /\ scratch_members' = Append(scratch_members, pending)
      /\ UNCHANGED <<scratch_items, slots, items, members>> /\ expect' = "Value"
  BY DEF Colon, arena
<1>2. pending \in PendingMember /\ pending.id = 0
  BY DEF Acyclic, TypeOK, ExpectOK, Colon, Pending, PendingMember, Id
<1> HIDE DEF pending
<1>3. /\ Len(scratch_members') = Len(scratch_members) + 1 /\ Len(scratch_members) \in Nat
      /\ \A i \in 1 .. Len(scratch_members) : scratch_members'[i] = scratch_members[i]
      /\ scratch_members'[Len(scratch_members) + 1] = pending
  BY <1>1, <1>2, AppendProperties, LenProperties DEF Acyclic, TypeOK, ScratchOK
<1>4. MembersMade'
  BY <1>1, <1>2, <1>3 DEF Acyclic, Scratched, MembersMade
<1>5. ItemsMade' /\ Expected'
  BY <1>1 DEF Acyclic, Scratched, ItemsMade, Expected
<1>6. ChildrenComeFirst'
  BY <1>1, ComeFirstFits, ComeFirstFitsNext DEF Acyclic
<1>7. QED
  BY <1>4, <1>5, <1>6 DEF Acyclic, Scratched

(* What holds after a step that makes a node and completes it.             *)
LEMMA CompletedAcyclic ==
    ASSUME Acyclic, TypeOK', ChildrenComeFirst', Len(slots') = Len(slots) + 1,
           NEW open \in Seq([object : BOOLEAN, start : Id]),
           NEW ids \in Seq(Id), NEW pendings \in Seq(PendingMember),
           ~NoMember(open, pendings), Complete(Len(slots), open, ids, pendings),
           \A i \in 1 .. Len(ids) : ids[i] < Len(slots),
           \A i \in 1 .. Len(pendings) : pendings[i].id = 0 \/ pendings[i].id < Len(slots)
    PROVE  Acyclic'
<1> DEFINE n == Len(slots')
<1>1. Len(slots) \in Id /\ Len(slots) \in Nat
  BY LenProperties DEF Acyclic, TypeOK, ArenaOK, Id
<1>2. n \in Nat /\ Len(slots) < n /\ n > 0
  BY <1>1
<1>3. \A i \in 1 .. Len(ids) : ids[i] < n
  <2>1. \A i \in 1 .. Len(ids) : ids[i] \in Nat
    BY ElementOfSeq DEF Id
  <2>2. QED
    BY <1>1, <1>2, <2>1
<1>4. \A i \in 1 .. Len(pendings) : pendings[i].id = 0 \/ pendings[i].id < n
  <2>1. \A i \in 1 .. Len(pendings) : pendings[i] \in PendingMember
    BY ElementOfSeq
  <2>2. \A i \in 1 .. Len(pendings) : pendings[i].id \in Nat
    BY <2>1 DEF PendingMember, Id
  <2>3. QED
    BY <1>1, <1>2, <2>2
<1> HIDE DEF n
<1>5. /\ \A i \in 1 .. Len(scratch_items') : scratch_items'[i] < n
      /\ \A i \in 1 .. Len(scratch_members') :
            scratch_members'[i].id = 0 \/ scratch_members'[i].id < n
  BY <1>1, <1>2, <1>3, <1>4, CompleteMade
<1>6. expect' = "Separator"
  BY DEF Complete
<1>7. Scratched'
  BY <1>2, <1>5, <1>6 DEF Scratched, ItemsMade, MembersMade, Expected, n
<1>8. QED
  BY <1>7 DEF Acyclic

LEMMA LeafValueAcyclic ==
    ASSUME Acyclic, TypeOK', LeafValue
    PROVE  Acyclic'
<1>1. CASE NoMember(stack, scratch_members)
  <2>1. UNCHANGED <<expect, scratch, arena>>
    BY <1>1 DEF LeafValue, Refuse, Stop
  <2>2. QED
    BY <2>1, QuietAcyclic
<1>2. CASE ~NoMember(stack, scratch_members)
  <2>1. /\ slots' = Append(slots, Leaf(Peek)) /\ items' = items /\ members' = members
        /\ Complete(Len(slots), stack, scratch_items, scratch_members)
    BY <1>2 DEF LeafValue
  <2>2. Leaf(Peek) \in Node /\ Leaf(Peek).kind = "Leaf"
    BY DEF LeafValue, Leaf, Node
  <2>3. /\ slots \in Seq(Node) /\ items \in Seq(Id) /\ members \in Seq([name : Names, id : Id])
        /\ stack \in Seq([object : BOOLEAN, start : Id])
        /\ scratch_items \in Seq(Id) /\ scratch_members \in Seq(PendingMember)
    BY DEF Acyclic, TypeOK, ArenaOK, ScratchOK
  <2>4. Len(slots') = Len(slots) + 1
    BY <2>1, <2>2, <2>3, AppendProperties
  <2>5. Len(items) <= Len(items') /\ Len(members) <= Len(members')
    BY <2>1, <2>3, LenProperties
  <2>6. ChildrenComeFirst'
    BY <2>1, <2>2, <2>5, ArenaGrows DEF Acyclic
  <2>7. QED
    BY <1>2, <2>1, <2>3, <2>4, <2>6, CompletedAcyclic DEF Acyclic, Scratched, ItemsMade, MembersMade
<1>3. QED
  BY <1>1, <1>2

LEMMA CloseAcyclic ==
    ASSUME Acyclic, TypeOK', Close
    PROVE  Acyclic'
<1> DEFINE start == Last(stack).start
           outer == Front(stack)
<1>1. TypeOK
  BY DEF Acyclic
<1>2. /\ start \in Nat /\ outer \in Seq([object : BOOLEAN, start : Id])
      /\ Last(stack).object \in BOOLEAN
      /\ Last(stack).object => ~NoMember(outer, Dropped(scratch_members, start))
      /\ ~Last(stack).object => ~NoMember(outer, scratch_members)
  BY <1>1, CloseShape DEF Id
<1>3. /\ Last(stack).object => CloseObject(outer, start)
      /\ ~Last(stack).object => CloseArray(outer, start)
  BY DEF Close
(* Every pending id is that of a node, when there is any to take.          *)
<1>4. Len(slots) > 0 \/ (Last(stack).object => start = Len(scratch_members))
  <2>1. Last(stack).object => Peek = "}"
    BY DEF Close, AtClose, AtValue, AtName, AtSeparator, CloseRefusals
  <2>2. Peek = "}" => expect \in {"NameOrEnd", "Separator"}
    BY DEF Close, AtClose, AtValue, AtName, AtSeparator
  <2>3. QED
    BY <2>1, <2>2 DEF Acyclic, Scratched, Expected
<1> HIDE DEF start, outer
<1>5. /\ slots \in Seq(Node) /\ items \in Seq(Id) /\ members \in Seq([name : Names, id : Id])
      /\ scratch_items \in Seq(Id) /\ scratch_members \in Seq(PendingMember)
      /\ items' \in Seq(Id) /\ members' \in Seq([name : Names, id : Id])
  BY <1>1 DEF TypeOK, ArenaOK, ScratchOK
<1>6. /\ Len(slots) \in Nat /\ Len(items) \in Nat /\ Len(members) \in Nat
      /\ Len(scratch_items) \in Nat /\ Len(scratch_members) \in Nat
  BY <1>5, LenProperties
<1>7. /\ \A i \in 1 .. Len(scratch_items) : scratch_items[i] < Len(slots)
      /\ \A i \in 1 .. Len(scratch_members) :
            scratch_members[i].id = 0 \/ scratch_members[i].id < Len(slots)
  BY DEF Acyclic, Scratched, ItemsMade, MembersMade
<1>8. CASE Last(stack).object
  <2> DEFINE pendings == SubSeq(scratch_members, start + 1, Len(scratch_members))
             added == [i \in DOMAIN pendings |-> [name |-> pendings[i].name, id |-> pendings[i].id]]
             node == Object(Slice(Len(members), Len(members) + Len(added)))
             left == Dropped(scratch_members, start)
  <2>1. /\ members' = members \o added
        /\ slots' = Append(slots, node)
        /\ Complete(Len(slots), outer, scratch_items, left)
        /\ items' = items
    BY <1>3, <1>8 DEF CloseObject
  <2>2. /\ pendings \in Seq(PendingMember) /\ Len(pendings) \in Nat
        /\ Len(pendings) = IF start <= Len(scratch_members)
                             THEN Len(scratch_members) - start ELSE 0
        /\ \A i \in 1 .. Len(pendings) :
              /\ start + i \in 1 .. Len(scratch_members)
              /\ pendings[i] = scratch_members[start + i]
    BY <1>2, <1>5, <1>6, SuffixType, SuffixElements
  <2>3. DOMAIN pendings = 1 .. Len(pendings)
    BY <2>2, LenProperties
  <2>4. \A i \in 1 .. Len(pendings) : pendings[i] \in PendingMember
    BY <2>2, ElementOfSeq
  <2>5. \A i \in 1 .. Len(pendings) : pendings[i].id < Len(slots)
    <3> SUFFICES ASSUME NEW i \in 1 .. Len(pendings) PROVE pendings[i].id < Len(slots)
      OBVIOUS
    <3>1. pendings[i].id = 0 \/ pendings[i].id < Len(slots)
      BY <1>7, <2>2
    <3>2. Len(slots) > 0
      BY <1>2, <1>4, <1>6, <1>8, <2>2
    <3>3. QED
      BY <1>6, <3>1, <3>2
  <2> HIDE DEF pendings
  <2>6. /\ added \in [1 .. Len(pendings) -> [name : Names, id : Id]]
        /\ \A i \in 1 .. Len(pendings) : added[i].id < Len(slots)
    BY <2>3, <2>4, <2>5 DEF PendingMember
  <2> HIDE DEF added
  <2>7. added \in Seq([name : Names, id : Id]) /\ Len(added) = Len(pendings)
    BY <2>2, <2>6, FunctionIsSeq
  <2>8. /\ Len(members') = Len(members) + Len(added)
        /\ \A k \in 1 .. Len(members) : members'[k] = members[k]
        /\ \A k \in Len(members) + 1 .. Len(members) + Len(added) :
              members'[k] = added[k - Len(members)]
    <3>1. members' = members \o added
      BY <2>1
    <3>2. members \in Seq([name : Names, id : Id]) /\ added \in Seq([name : Names, id : Id])
      BY <1>5, <2>7
    <3>3. QED
      BY <3>1, <3>2, ConcatProperties
  <2>9. /\ node \in Node /\ node.kind = "Object"
        /\ node.children.start = Len(members) /\ node.children.end = Len(members')
    BY <1>6, <2>2, <2>7, <2>8 DEF Node, Object, Slice, Children, Id
  <2> HIDE DEF node
  <2>10. \A k \in Len(members) + 1 .. Len(members') : members'[k].id < Len(slots)
    <3> SUFFICES ASSUME NEW k \in Len(members) + 1 .. Len(members')
                 PROVE  members'[k].id < Len(slots)
      OBVIOUS
    <3>1. k - Len(members) \in 1 .. Len(pendings)
      BY SMTT(30), <1>6, <2>2, <2>7, <2>8
    <3>2. members'[k] = added[k - Len(members)]
      BY <1>6, <2>2, <2>7, <2>8
    <3>3. QED
      BY <2>6, <3>1, <3>2
  <2>11. Fits(node, items', members', Len(slots))
    BY <1>6, <2>2, <2>7, <2>8, <2>9, <2>10 DEF Fits
  <2>12. Len(items) <= Len(items') /\ Len(members) <= Len(members')
    BY <1>6, <2>1, <2>2, <2>7, <2>8
  <2>13. ChildrenComeFirst'
    BY <1>1, <2>1, <2>8, <2>9, <2>11, <2>12, ArenaGrows DEF Acyclic
  <2>14. Len(slots') = Len(slots) + 1
    BY <1>5, <2>1, <2>9, AppendProperties
  <2>15. /\ left \in Seq(PendingMember) /\ Len(left) \in Nat
         /\ Len(left) <= Len(scratch_members)
         /\ \A i \in 1 .. Len(left) : left[i] = scratch_members[i]
    BY <1>2, <1>5, DroppedType
  <2>16. ~NoMember(outer, left)
    BY <1>2, <1>8
  <2> HIDE DEF left
  <2>17. \A i \in 1 .. Len(left) : left[i].id = 0 \/ left[i].id < Len(slots)
    BY <1>6, <1>7, <2>15
  <2>18. QED
    BY <1>2, <1>5, <1>7, <2>1, <2>13, <2>14, <2>15, <2>16, <2>17, CompletedAcyclic
<1>9. CASE ~Last(stack).object
  <2> DEFINE ids == SubSeq(scratch_items, start + 1, Len(scratch_items))
             node == Array(Slice(Len(items), Len(items) + Len(ids)))
             left == Dropped(scratch_items, start)
  <2>1. /\ items' = items \o ids
        /\ slots' = Append(slots, node)
        /\ Complete(Len(slots), outer, left, scratch_members)
        /\ members' = members
    BY <1>3, <1>9 DEF CloseArray
  <2>2. /\ ids \in Seq(Id) /\ Len(ids) \in Nat
        /\ \A i \in 1 .. Len(ids) :
              /\ start + i \in 1 .. Len(scratch_items)
              /\ ids[i] = scratch_items[start + i]
    BY <1>2, <1>5, <1>6, SuffixType, SuffixElements
  <2>3. \A i \in 1 .. Len(ids) : ids[i] < Len(slots)
    BY <1>7, <2>2
  <2> HIDE DEF ids
  <2>4. /\ Len(items') = Len(items) + Len(ids)
        /\ \A k \in 1 .. Len(items) : items'[k] = items[k]
        /\ \A k \in Len(items) + 1 .. Len(items) + Len(ids) : items'[k] = ids[k - Len(items)]
    BY <1>5, <1>6, <2>1, <2>2, ConcatProperties
  <2>5. /\ node \in Node /\ node.kind = "Array"
        /\ node.children.start = Len(items) /\ node.children.end = Len(items')
    BY <1>6, <2>2, <2>4 DEF Node, Array, Slice, Children, Id
  <2> HIDE DEF node
  <2>6. \A k \in Len(items) + 1 .. Len(items') : items'[k] < Len(slots)
    <3> SUFFICES ASSUME NEW k \in Len(items) + 1 .. Len(items')
                 PROVE  items'[k] < Len(slots)
      OBVIOUS
    <3>1. k - Len(items) \in 1 .. Len(ids) /\ items'[k] = ids[k - Len(items)]
      BY <1>6, <2>2, <2>4
    <3>2. QED
      BY <2>3, <3>1
  <2>7. Fits(node, items', members', Len(slots))
    BY <1>6, <2>2, <2>4, <2>5, <2>6 DEF Fits
  <2>8. Len(items) <= Len(items') /\ Len(members) <= Len(members')
    BY <1>6, <2>1, <2>2, <2>4
  <2>9. ChildrenComeFirst'
    BY <1>1, <2>1, <2>4, <2>5, <2>7, <2>8, ArenaGrows DEF Acyclic
  <2>10. Len(slots') = Len(slots) + 1
    BY <1>5, <2>1, <2>5, AppendProperties
  <2>11. /\ left \in Seq(Id) /\ Len(left) \in Nat
         /\ Len(left) <= Len(scratch_items)
         /\ \A i \in 1 .. Len(left) : left[i] = scratch_items[i]
    BY <1>2, <1>5, DroppedType
  <2> HIDE DEF left
  <2>12. \A i \in 1 .. Len(left) : left[i] < Len(slots)
    BY <1>6, <1>7, <2>11
  <2>13. ~NoMember(outer, scratch_members)
    BY <1>2, <1>9
  <2>14. QED
    BY <1>2, <1>5, <1>7, <2>1, <2>9, <2>10, <2>11, <2>12, <2>13, CompletedAcyclic
<1>10. QED
  BY <1>2, <1>8, <1>9

LEMMA InitAcyclic == Init => Acyclic
<1> SUFFICES ASSUME Init PROVE Acyclic
  OBVIOUS
<1>1. TypeOK
  BY InitTyped
<1>2. Scratched
  BY DEF Init, Scratched, ItemsMade, MembersMade, Expected
<1>3. DOMAIN slots = {}
  BY DEF Init
<1>4. QED
  BY <1>1, <1>2, <1>3 DEF Acyclic, ChildrenComeFirst

LEMMA NextAcyclic == Acyclic /\ [Next]_vars => Acyclic'
<1> SUFFICES ASSUME Acyclic, [Next]_vars PROVE Acyclic'
  OBVIOUS
<1>1. TypeOK'
  BY NextTyped DEF Acyclic
<1>2. CASE UNCHANGED vars \/ Disclose \/ SkipWhitespace
  <2>1. UNCHANGED <<expect, scratch, arena>>
    BY <1>2 DEF vars, Disclose, SkipWhitespace
  <2>2. QED
    BY <1>1, <2>1, QuietAcyclic
<1>3. CASE Stops \/ Begin
  BY <1>1, <1>3, StopsAcyclic
<1>4. CASE OpenContainer
  BY <1>1, <1>4, OpenContainerAcyclic
<1>5. CASE LeafValue
  BY <1>1, <1>5, LeafValueAcyclic
<1>6. CASE MemberName \/ Comma
  BY <1>1, <1>6, NamesAcyclic
<1>7. CASE Colon
  BY <1>1, <1>7, ColonAcyclic
<1>8. CASE Close
  BY <1>1, <1>8, CloseAcyclic
<1>9. QED
  BY <1>2, <1>3, <1>4, <1>5, <1>6, <1>7, <1>8 DEF Next, Parse, Stops

(* The arena is acyclic and its lookups cannot miss, whatever the input:   *)
(* every child of a node is a node made before it, and the ranges of its   *)
(* children lie inside the vectors.                                        *)
THEOREM ArenaAcyclic == Spec => []ChildrenComeFirst
<1>1. Acyclic => ChildrenComeFirst
  BY DEF Acyclic
<1>2. QED
  BY <1>1, InitAcyclic, NextAcyclic, PTL DEF Spec

-----------------------------------------------------------------------------
(***************************************************************************)
(* The inductive invariant of the reader: how its stack, its scratch       *)
(* stacks and the input read so far stand to each other.                   *)
(***************************************************************************)

(* Where the children of an open container end, when the scratch stacks    *)
(* are so long: where those of the next open one of its kind begin.        *)
Above(open, k) == {j \in k + 1 .. Len(open) : open[j].object = open[k].object}
EndIn(open, ids, pendings, k) ==
    IF Above(open, k) # {} THEN open[Min(Above(open, k))].start
    ELSE IF open[k].object THEN pendings ELSE ids
EndOf(k) == EndIn(stack, Len(scratch_items), Len(scratch_members), k)

(* An open container whose latest child is still being read. *)
Waits(k) == k < Len(stack) \/ expect = "Value"

-----------------------------------------------------------------------------
(* The parts of the scratch stacks follow the stack, and what is expected  *)
(* fits the innermost container.                                           *)
Nested ==
    /\ \A k \in DOMAIN stack :
          /\ stack[k].start <= EndOf(k)
          /\ EndOf(k) <= IF stack[k].object THEN Len(scratch_members) ELSE Len(scratch_items)
    /\ \A k \in DOMAIN stack : stack[k].object /\ Waits(k) => stack[k].start < EndOf(k)
    /\ \A j, k \in DOMAIN stack : j < k /\ stack[j].object = stack[k].object =>
          stack[j].start <= stack[k].start

Turn ==
    /\ expect \in {"NameOrEnd", "Name", "Colon"} => InObject(stack)
    /\ expect = "ValueOrEnd" => InArray(stack)
    /\ expect \in {"NameOrEnd", "ValueOrEnd"} => Last(stack).start = EndOf(Len(stack))
    /\ expect = "Separator" => slots # <<>>

(* The first container of a kind took its scratch stack empty, and outside *)
(* all of the kind the stack is empty.                                     *)
Bottom ==
    /\ \A k \in DOMAIN stack :
          (\A j \in 1 .. k - 1 : stack[j].object # stack[k].object) => stack[k].start = 0
    /\ (\A k \in DOMAIN stack : stack[k].object) => scratch_items = <<>>
    /\ (\A k \in DOMAIN stack : ~stack[k].object) => scratch_members = <<>>
Outside ==
    stack = <<>> =>
        /\ slots = <<>> => items = <<>> /\ members = <<>>
        /\ expect = IF slots = <<>> THEN "Value" ELSE "Separator"

-----------------------------------------------------------------------------
(* Every node is held, and there are as many places as nodes.              *)
Awaited == {i \in DOMAIN scratch_members : AwaitsValue(i)}
Held(id) ==
    \/ \E i \in DOMAIN items : items[i] = id
    \/ \E i \in DOMAIN members : members[i].id = id
    \/ \E i \in DOMAIN scratch_items : scratch_items[i] = id
    \/ \E i \in DOMAIN scratch_members \ Awaited : scratch_members[i].id = id
RootMade == stack = <<>> /\ slots # <<>>
NodesHeld == \A id \in Int :
    Held(id) <=> id \in 0 .. Len(slots) - 1 /\ ~(stack = <<>> /\ id = Len(slots) - 1)
PlacesCounted ==
    Len(items) + Len(members) + Len(scratch_items) + Len(scratch_members)
      = Len(slots) + Cardinality(Awaited) - (IF RootMade THEN 1 ELSE 0)
BytesRead == Len(slots) + Len(stack) + Len(scratch_members) + Len(members) <= position

-----------------------------------------------------------------------------
(* Pending names are in the order they were read in.                       *)
NamesAscend ==
    /\ \A i, j \in DOMAIN scratch_members :
          i < j => scratch_members[i].offset < scratch_members[j].offset
    /\ \A i \in DOMAIN scratch_members : scratch_members[i].offset < position
    /\ expect = "Colon" =>
          /\ name.offset < position
          /\ \A i \in DOMAIN scratch_members : scratch_members[i].offset < name.offset

-----------------------------------------------------------------------------
(* The stack is the containers that the next token is in, by how deep it   *)
(* is in them.                                                             *)
Here == position + 1
Level(q) == Len(stack) + 1 - Depth(q, Here)
OpensObject(q) == input[q] = "{"
StackIsParents ==
    /\ \A q \in Parents(Here) : Level(q) \in DOMAIN stack
    /\ \A q \in Parents(Here), k \in DOMAIN stack :
          k = Level(q) => (stack[k].object <=> OpensObject(q))
    /\ \A k \in DOMAIN stack : \E q \in Parents(Here) : Level(q) = k

(* The name kept is the latest one read, directly in the object. *)
NameRead ==
    expect = "Colon" =>
        /\ name.offset < position
        /\ \A at \in {name.offset + 1} :
              /\ input[at] = name.name
              /\ Parents(at) = Parents(Here)
              /\ \A r \in at + 1 .. position : input[r] \notin Names

(* The colons and the commas read directly in a container.                 *)
Colons(q) == {c \in q + 1 .. position : input[c] = ":" /\ Directly(q, c)}
Commas(q) == {c \in q + 1 .. position : input[c] = "," /\ Directly(q, c)}
NameAt(c) == input[NameBefore(c)]
NameIn(q, c) == \E at \in {NameBefore(c)} : Directly(q, at)

(* The members of an object each come from a name and a colon directly in  *)
(* it, the last of them from the last colon.  An array has an item before  *)
(* each comma and, if it has any, one after the last; an item that is      *)
(* still being read is not among its items.                                *)
SignedAt(q, i, c) ==
    /\ NameBefore(c) = scratch_members[i].offset + 1
    /\ NameAt(c) = scratch_members[i].name
    /\ NameIn(q, c)
MembersSigned(q, k) ==
    \A i \in stack[k].start + 1 .. EndOf(k) : \E c \in Colons(q) :
        /\ SignedAt(q, i, c)
        /\ i = EndOf(k) => \A d \in Colons(q) : d <= c
ItemsSigned(q, k) ==
    Cardinality(Commas(q)) =
      EndOf(k) - stack[k].start - (IF Waits(k) \/ expect = "ValueOrEnd" THEN 0 ELSE 1)
ChildrenSigned ==
    \A q \in Parents(Here), k \in DOMAIN stack : k = Level(q) =>
        IF stack[k].object THEN MembersSigned(q, k) ELSE ItemsSigned(q, k)

-----------------------------------------------------------------------------
Shaped == Nested /\ Turn /\ Bottom /\ Outside
Counted == NodesHeld /\ PlacesCounted /\ BytesRead
Named == NamesAscend /\ NamesDistinct
Located == StackIsParents /\ NameRead /\ ChildrenSigned

-----------------------------------------------------------------------------
(* Where children end. *)

OpenEntry == [object : BOOLEAN, start : Id]

LEMMA MinLeast ==
    ASSUME NEW S \in SUBSET Nat, S # {}
    PROVE  Min(S) \in S /\ \A y \in S : Min(S) <= y
  BY LeastNatural DEF Min

LEMMA MinIsLeast ==
    ASSUME NEW S \in SUBSET Nat, NEW m \in S, \A y \in S : m <= y
    PROVE  Min(S) = m
<1>1. Min(S) \in S /\ \A y \in S : Min(S) <= y
  BY MinLeast
<1> DEFINE least == Min(S)
<1>2. least \in S /\ least <= m /\ m <= least /\ least \in Nat /\ m \in Nat
  BY <1>1
<1> HIDE DEF least
<1>3. least = m
  BY <1>2
<1>4. QED
  BY <1>3 DEF least

LEMMA AboveType ==
    ASSUME NEW open \in Seq(OpenEntry), NEW k \in 1 .. Len(open)
    PROVE  Above(open, k) \in SUBSET Nat /\ Above(open, k) \subseteq k + 1 .. Len(open)
<1>1. Len(open) \in Nat
  BY LenProperties
<1>2. Above(open, k) \subseteq k + 1 .. Len(open)
  BY DEF Above
<1>3. k + 1 .. Len(open) \in SUBSET Nat
  BY <1>1
<1>4. QED
  BY <1>2, <1>3

(* What ends below the innermost container is told from where its children *)
(* begin. *)
LEMMA EndAround ==
    ASSUME NEW open \in Seq(OpenEntry), NEW entry \in OpenEntry, NEW ids, NEW pendings,
           NEW k \in 1 .. Len(open)
    PROVE  EndIn(Append(open, entry), ids, pendings, k)
             = EndIn(open, IF entry.object THEN ids ELSE entry.start,
                     IF entry.object THEN entry.start ELSE pendings, k)
<1> DEFINE longer == Append(open, entry)
           n == Len(open)
<1>1. /\ n \in Nat /\ Len(longer) = n + 1
      /\ longer[n + 1] = entry /\ \A j \in 1 .. n : longer[j] = open[j]
  BY AppendProperties, LenProperties
<1>2. Above(open, k) \in SUBSET Nat
  BY AboveType
<1>3. open[k].object \in BOOLEAN
  <2>1. open[k] \in OpenEntry
    BY ElementOfSeq
  <2>2. QED
    BY <2>1 DEF OpenEntry
<1>4. /\ entry.object = open[k].object => Above(longer, k) = Above(open, k) \cup {n + 1}
      /\ entry.object # open[k].object => Above(longer, k) = Above(open, k)
  <2> HIDE DEF longer
  <2>1. k + 1 .. n + 1 = (k + 1 .. n) \cup {n + 1}
    BY <1>1
  <2>2. longer[k] = open[k]
    BY <1>1
  <2>3. \A j \in k + 1 .. n : longer[j] = open[j]
    BY <1>1
  <2>4. QED
    BY <1>1, <2>1, <2>2, <2>3 DEF Above, n
<1> HIDE DEF longer
<1>5. CASE Above(open, k) # {}
  <2>1. Min(Above(open, k)) \in Above(open, k)
        /\ \A y \in Above(open, k) : Min(Above(open, k)) <= y
    BY <1>2, <1>5, MinLeast
  <2>2. Above(open, k) \subseteq 1 .. n
    BY <1>1 DEF Above
  <2>3. Min(Above(longer, k)) = Min(Above(open, k)) /\ Above(longer, k) # {}
    <3>1. CASE entry.object # open[k].object
      BY <1>4, <1>5, <3>1
    <3>2. CASE entry.object = open[k].object
      <4> DEFINE S == Above(longer, k)
                 m == Min(Above(open, k))
      <4>1. S = Above(open, k) \cup {n + 1}
        BY <1>4, <3>2
      <4>2. m \in 1 .. n /\ m \in Above(open, k)
        BY <2>1, <2>2
      <4>3. m <= n + 1
        BY <1>1, <4>2
      <4> HIDE DEF m, S, n
      <4>4. S \in SUBSET Nat /\ m \in S /\ \A y \in S : m <= y
        BY <1>1, <1>2, <2>1, <4>1, <4>2, <4>3 DEF m
      <4>5. Min(S) = m
        BY <4>4, MinIsLeast
      <4>6. QED
        BY <4>4, <4>5 DEF S, m
    <3>3. QED
      BY <3>1, <3>2
  <2>4. longer[Min(Above(open, k))] = open[Min(Above(open, k))]
    BY <1>1, <2>1, <2>2
  <2>5. QED
    BY <1>5, <2>3, <2>4 DEF EndIn, longer
<1>6. CASE Above(open, k) = {}
  <2>1. longer[k] = open[k]
    BY <1>1
  <2>2. CASE entry.object # open[k].object
    <3>1. Above(longer, k) = {}
      BY <1>4, <1>6, <2>2
    <3>2. entry.object \in BOOLEAN
      BY DEF OpenEntry
    <3>3. QED
      BY <1>3, <1>6, <2>1, <2>2, <3>1, <3>2 DEF EndIn, longer
  <2>3. CASE entry.object = open[k].object
    <3>1. Above(longer, k) = {n + 1}
      BY <1>4, <1>6, <2>3
    <3>2. Min({n + 1}) = n + 1
      <4>1. {n + 1} \in SUBSET Nat /\ n + 1 <= n + 1
        BY <1>1
      <4>2. QED
        BY <4>1, MinIsLeast
    <3>3. QED
      BY <1>1, <1>3, <1>6, <2>1, <2>3, <3>1, <3>2 DEF EndIn, longer
  <2>4. QED
    BY <2>2, <2>3
<1>7. QED
  BY <1>5, <1>6

(* What the innermost container's own list grows by does not move the ends *)
(* around it. *)
LEMMA EndBelow ==
    ASSUME NEW open \in Seq(OpenEntry), NEW ids, NEW pendings, NEW longer_ids, NEW longer_pendings,
           open # <<>>, Last(open).object => longer_ids = ids,
           ~Last(open).object => longer_pendings = pendings,
           NEW k \in 1 .. Len(open) - 1
    PROVE  EndIn(open, longer_ids, longer_pendings, k) = EndIn(open, ids, pendings, k)
<1> DEFINE n == Len(open)
<1>1. n \in Nat \ {0} /\ Last(open) = open[n]
  BY EmptySeq, LenProperties DEF Last
<1>2. CASE open[n].object = open[k].object
  <2>1. n \in Above(open, k)
    BY <1>1, <1>2 DEF Above
  <2>2. QED
    BY <2>1 DEF EndIn
<1>3. CASE open[n].object # open[k].object
  <2>1. open[n] \in OpenEntry /\ open[k] \in OpenEntry
    BY <1>1, ElementOfSeq
  <2>2. open[n].object \in BOOLEAN /\ open[k].object \in BOOLEAN
    BY <2>1 DEF OpenEntry
  <2>3. QED
    BY <1>1, <1>3, <2>2 DEF EndIn
<1>4. QED
  BY <1>2, <1>3

LEMMA EndInnermost ==
    ASSUME NEW open \in Seq(OpenEntry), NEW ids, NEW pendings, open # <<>>
    PROVE  EndIn(open, ids, pendings, Len(open)) = IF Last(open).object THEN pendings ELSE ids
<1>1. Len(open) \in Nat \ {0} /\ Last(open) = open[Len(open)]
  BY EmptySeq, LenProperties DEF Last
<1>2. Above(open, Len(open)) = {}
  BY <1>1 DEF Above
<1>3. QED
  BY <1>1, <1>2 DEF EndIn

-----------------------------------------------------------------------------
(* The shape of the stacks. *)

LEMMA StackTypes ==
    ASSUME TypeOK
    PROVE  /\ stack \in Seq(OpenEntry) /\ DOMAIN stack = 1 .. Len(stack) /\ Len(stack) \in Nat
           /\ \A k \in 1 .. Len(stack) : stack[k].object \in BOOLEAN /\ stack[k].start \in Nat
           /\ Len(scratch_items) \in Nat /\ Len(scratch_members) \in Nat
           /\ \A k \in 1 .. Len(stack) : EndOf(k) \in Nat
<1>1. stack \in Seq(OpenEntry)
  BY DEF TypeOK, ScratchOK, OpenEntry
<1>2. DOMAIN stack = 1 .. Len(stack) /\ Len(stack) \in Nat
  BY <1>1, LenProperties
<1>3. \A k \in 1 .. Len(stack) : stack[k].object \in BOOLEAN /\ stack[k].start \in Nat
  <2> SUFFICES ASSUME NEW k \in 1 .. Len(stack)
               PROVE  stack[k].object \in BOOLEAN /\ stack[k].start \in Nat
    OBVIOUS
  <2>1. stack[k] \in OpenEntry
    BY <1>1, ElementOfSeq
  <2>2. QED
    BY <2>1 DEF OpenEntry, Id
<1>4. Len(scratch_items) \in Nat /\ Len(scratch_members) \in Nat
  BY LenProperties DEF TypeOK, ScratchOK
<1>5. ASSUME NEW k \in 1 .. Len(stack)
      PROVE  EndOf(k) \in Nat
  <2>1. CASE Above(stack, k) # {}
    <3>1. Above(stack, k) \in SUBSET Nat /\ Above(stack, k) \subseteq k + 1 .. Len(stack)
      BY <1>1, AboveType
    <3>2. Min(Above(stack, k)) \in k + 1 .. Len(stack)
      BY <2>1, <3>1, MinLeast
    <3>3. Min(Above(stack, k)) \in 1 .. Len(stack)
      BY <1>2, <3>2
    <3>4. QED
      BY <1>3, <2>1, <3>3 DEF EndOf, EndIn
  <2>2. CASE Above(stack, k) = {}
    BY <1>4, <2>2 DEF EndOf, EndIn
  <2>3. QED
    BY <2>1, <2>2
<1>6. QED
  BY <1>1, <1>2, <1>3, <1>4, <1>5

(* The children of a container end where those of the next one of its kind *)
(* begin, or before. *)
LEMMA EndsApart ==
    ASSUME TypeOK, Nested, NEW j \in 1 .. Len(stack), NEW k \in 1 .. Len(stack),
           j < k, stack[j].object = stack[k].object
    PROVE  EndOf(j) <= stack[k].start
<1> DEFINE m == Min(Above(stack, j))
<1>1. /\ stack \in Seq(OpenEntry) /\ DOMAIN stack = 1 .. Len(stack) /\ Len(stack) \in Nat
      /\ \A i \in 1 .. Len(stack) : stack[i].start \in Nat
  BY StackTypes
<1>2. k \in Above(stack, j)
  BY <1>1 DEF Above
<1>3. m \in Above(stack, j) /\ m <= k
  BY <1>1, <1>2, AboveType, MinLeast
<1>4. EndOf(j) = stack[m].start
  BY <1>2 DEF EndOf, EndIn
<1>5. m \in 1 .. Len(stack) /\ stack[m].object = stack[k].object
  BY <1>1, <1>3 DEF Above
<1> HIDE DEF m
<1>6. m = k \/ m < k
  BY <1>1, <1>3, <1>5
<1>7. stack[m].start <= stack[k].start
  BY <1>1, <1>5, <1>6 DEF Nested
<1>8. QED
  BY <1>4, <1>7

WaitingObjects == {k \in DOMAIN stack : stack[k].object /\ Waits(k)}

LEMMA AwaitsEnds ==
    ASSUME TypeOK, NEW i
    PROVE  AwaitsValue(i) <=> \E k \in WaitingObjects : i = EndOf(k)
<1>1. ASSUME NEW k \in DOMAIN stack, stack[k].object
      PROVE  {j \in k + 1 .. Len(stack) : stack[j].object} = Above(stack, k)
  <2>1. \A j \in 1 .. Len(stack) : stack[j].object \in BOOLEAN
    BY StackTypes
  <2>2. DOMAIN stack = 1 .. Len(stack) /\ Len(stack) \in Nat
    BY StackTypes
  <2>3. \A j \in k + 1 .. Len(stack) : stack[j].object \in BOOLEAN
    BY <2>1, <2>2
  <2>4. \A j \in k + 1 .. Len(stack) : stack[j].object <=> (stack[j].object = stack[k].object)
    BY <1>1, <2>3
  <2>5. QED
    BY <2>4 DEF Above
<1>2. ASSUME NEW k \in DOMAIN stack, stack[k].object
      PROVE  EndOf(k) = (LET inner == {j \in k + 1 .. Len(stack) : stack[j].object}
                         IN  IF inner = {} THEN Len(scratch_members) ELSE stack[Min(inner)].start)
  BY <1>1, <1>2 DEF EndOf, EndIn
<1>3. QED
  BY <1>2 DEF AwaitsValue, WaitingObjects, Waits

AwaitedMeans ==
    /\ \A i : i \in Awaited <=> \E k \in WaitingObjects : i = EndOf(k)
    /\ Awaited \subseteq 1 .. Len(scratch_members)

LEMMA AwaitedAre == TypeOK /\ Nested => AwaitedMeans
<1> SUFFICES ASSUME TypeOK, Nested PROVE AwaitedMeans
  OBVIOUS
<1>1. DOMAIN scratch_members = 1 .. Len(scratch_members)
  BY LenProperties DEF TypeOK, ScratchOK
<1>2. ASSUME NEW k \in WaitingObjects
      PROVE  EndOf(k) \in 1 .. Len(scratch_members)
  <2>1. k \in 1 .. Len(stack) /\ stack[k].object /\ Waits(k)
    BY StackTypes DEF WaitingObjects
  <2>2. stack[k].start < EndOf(k) /\ EndOf(k) <= Len(scratch_members)
    BY <2>1 DEF Nested, WaitingObjects
  <2>3. QED
    BY <2>1, <2>2, StackTypes
<1>3. QED
  BY <1>1, <1>2, AwaitsEnds DEF Awaited, AwaitedMeans

(* No two wait for one member. *)
LEMMA EndsDistinct ==
    ASSUME TypeOK, Nested, NEW j \in WaitingObjects, NEW k \in WaitingObjects, EndOf(j) = EndOf(k)
    PROVE  j = k
<1>1. ASSUME NEW a \in WaitingObjects, NEW b \in WaitingObjects, a < b
      PROVE  EndOf(a) # EndOf(b)
  <2>1. /\ a \in 1 .. Len(stack) /\ b \in 1 .. Len(stack)
        /\ stack[a].object /\ stack[b].object /\ Waits(b)
    BY StackTypes DEF WaitingObjects
  <2>2. EndOf(a) <= stack[b].start
    BY <1>1, <2>1, EndsApart, StackTypes
  <2>3. stack[b].start < EndOf(b)
    BY <2>1 DEF Nested, WaitingObjects
  <2>4. EndOf(a) \in Nat /\ EndOf(b) \in Nat /\ stack[b].start \in Nat
    BY <2>1, StackTypes
  <2>5. QED
    BY <2>2, <2>3, <2>4
<1>2. j \in Nat /\ k \in Nat
  BY StackTypes DEF WaitingObjects
<1>3. j < k \/ k < j \/ j = k
  BY <1>2
<1>4. QED
  BY <1>1, <1>3

LEMMA AwaitedKept ==
    ASSUME TypeOK, TypeOK', Nested, Nested', WaitingObjects' = WaitingObjects,
           \A k \in WaitingObjects : EndOf(k)' = EndOf(k)
    PROVE  Awaited' = Awaited
<1>1. \A i : i \in Awaited <=> \E k \in WaitingObjects : i = EndOf(k)
  BY AwaitedAre DEF AwaitedMeans
<1>2. \A i : i \in Awaited' <=> \E k \in WaitingObjects' : i = EndOf(k)'
  <2>1. (TypeOK /\ Nested => AwaitedMeans)'
    BY AwaitedAre, PTL
  <2>2. QED
    BY <2>1 DEF AwaitedMeans
<1>3. \A i : i \in Awaited' <=> i \in Awaited
  BY <1>1, <1>2
<1>4. QED
  BY <1>3

LEMMA AwaitedLess ==
    ASSUME TypeOK, TypeOK', Nested, Nested', NEW m \in WaitingObjects,
           WaitingObjects' = WaitingObjects \ {m},
           \A k \in WaitingObjects \ {m} : EndOf(k)' = EndOf(k)
    PROVE  Awaited' = Awaited \ {EndOf(m)} /\ EndOf(m) \in Awaited
<1>1. \A i : i \in Awaited <=> \E k \in WaitingObjects : i = EndOf(k)
  BY AwaitedAre DEF AwaitedMeans
<1>2. \A i : i \in Awaited' <=> \E k \in WaitingObjects' : i = EndOf(k)'
  <2>1. (TypeOK /\ Nested => AwaitedMeans)'
    BY AwaitedAre, PTL
  <2>2. QED
    BY <2>1 DEF AwaitedMeans
<1>3. \A k \in WaitingObjects \ {m} : EndOf(k) # EndOf(m)
  BY EndsDistinct
<1>4. \A i : i \in Awaited' <=> i \in Awaited /\ i # EndOf(m)
  BY <1>1, <1>2, <1>3
<1>5. QED
  BY <1>1, <1>4

LEMMA AwaitedFinite ==
    ASSUME TypeOK, Nested
    PROVE  IsFiniteSet(Awaited) /\ Cardinality(Awaited) \in Nat
<1>1. IsFiniteSet(1 .. Len(scratch_members))
  BY StackTypes, FS_Interval
<1>2. Awaited \subseteq 1 .. Len(scratch_members)
  BY AwaitedAre DEF AwaitedMeans
<1>3. IsFiniteSet(Awaited)
  BY <1>1, <1>2, FS_Subset
<1>4. QED
  BY <1>3, FS_CardinalityType

-----------------------------------------------------------------------------
(* The shape is kept. *)

(* What a step did to the stack and the scratch stacks. *)
Opened(entry) ==
    /\ stack' = Append(stack, entry)
    /\ Len(scratch_items') = Len(scratch_items)
    /\ Len(scratch_members') = Len(scratch_members)
    /\ entry.start = IF entry.object THEN Len(scratch_members) ELSE Len(scratch_items)

LEMMA OpenedEnds ==
    ASSUME TypeOK, NEW entry \in OpenEntry, Opened(entry)
    PROVE  /\ DOMAIN stack' = 1 .. Len(stack) + 1 /\ Len(stack') = Len(stack) + 1
           /\ \A k \in 1 .. Len(stack) : stack'[k] = stack[k] /\ EndOf(k)' = EndOf(k)
           /\ stack'[Len(stack) + 1] = entry
           /\ \A k : k = Len(stack) + 1 => EndOf(k)' = entry.start
<1> DEFINE n == Len(stack)
           ids == Len(scratch_items)
           pendings == Len(scratch_members)
<1>1. stack \in Seq(OpenEntry) /\ n \in Nat
  BY StackTypes
<1>2. /\ stack' \in Seq(OpenEntry) /\ Len(stack') = n + 1
      /\ stack'[n + 1] = entry /\ \A k \in 1 .. n : stack'[k] = stack[k]
      /\ DOMAIN stack' = 1 .. n + 1
  BY <1>1, AppendProperties, LenProperties DEF Opened
<1>3. stack' # <<>> /\ Last(stack') = entry
  BY <1>1, <1>2, EmptySeq DEF Last
<1>4. \A k : EndOf(k)' = EndIn(stack', ids, pendings, k)
  BY DEF EndOf, Opened
<1>5. ASSUME NEW k \in 1 .. n
      PROVE  EndIn(stack', ids, pendings, k) = EndOf(k)
  <2>1. EndIn(stack', ids, pendings, k)
          = EndIn(stack, IF entry.object THEN ids ELSE entry.start,
                  IF entry.object THEN entry.start ELSE pendings, k)
    BY <1>1, EndAround DEF Opened
  <2>2. CASE entry.object
    BY <2>1, <2>2 DEF EndOf, Opened
  <2>3. CASE ~entry.object
    BY <2>1, <2>3 DEF EndOf, Opened
  <2>4. QED
    BY <2>2, <2>3
<1>6. EndIn(stack', ids, pendings, n + 1) = entry.start
  <2>1. EndIn(stack', ids, pendings, Len(stack')) = IF Last(stack').object THEN pendings ELSE ids
    BY <1>2, <1>3, EndInnermost
  <2>2. QED
    BY <1>2, <1>3, <2>1 DEF Opened
<1>7. QED
  BY <1>2, <1>4, <1>5, <1>6

(* Where a value begins, every open object waits for one. *)
LEMMA ObjectsWait ==
    ASSUME TypeOK, Shaped, expect \in {"Value", "ValueOrEnd"}
    PROVE  \A k \in 1 .. Len(stack) : stack[k].object => Waits(k)
<1> DEFINE n == Len(stack)
<1> SUFFICES ASSUME NEW k \in 1 .. n, stack[k].object
             PROVE  k < n \/ expect = "Value"
  BY DEF Waits
<1>1. CASE k < n
  BY <1>1
<1>2. CASE k = n
  <2>1. ~InArray(stack)
    BY <1>2 DEF InArray, Last
  <2>2. QED
    BY <2>1 DEF Shaped, Turn
<1>3. n \in Nat /\ k \in 1 .. n
  BY StackTypes
<1> HIDE DEF n
<1>4. k < n \/ k = n
  BY <1>3
<1>5. QED
  BY <1>1, <1>2, <1>4

LEMMA OpenContainerOpens ==
    ASSUME TypeOK, OpenContainer
    PROVE  \E entry \in OpenEntry : Opened(entry) /\ entry.object = (Peek = "{")
<1> DEFINE entry == [object |-> Peek = "{",
                     start |-> IF Peek = "{" THEN Len(scratch_members) ELSE Len(scratch_items)]
<1>1. entry \in OpenEntry
  BY StackTypes DEF OpenEntry, Id
<1>2. stack' = Append(stack, entry) /\ UNCHANGED <<scratch_items, scratch_members>>
  BY DEF OpenContainer
<1>3. Opened(entry)
  BY <1>2 DEF Opened
<1>4. QED
  BY <1>1, <1>3

LEMMA OpenContainerShaped ==
    ASSUME TypeOK, TypeOK', Shaped, OpenContainer
    PROVE  Shaped'
<1> DEFINE n == Len(stack)
<1>1. PICK entry \in OpenEntry : Opened(entry) /\ entry.object = (Peek = "{")
  BY OpenContainerOpens
<1>2. /\ DOMAIN stack' = 1 .. n + 1 /\ Len(stack') = n + 1
      /\ \A k \in 1 .. n : stack'[k] = stack[k] /\ EndOf(k)' = EndOf(k)
      /\ stack'[n + 1] = entry
      /\ \A k : k = n + 1 => EndOf(k)' = entry.start
  BY <1>1, OpenedEnds
<1>3. /\ n \in Nat /\ DOMAIN stack = 1 .. n
      /\ \A k \in 1 .. n : stack[k].object \in BOOLEAN /\ stack[k].start \in Nat /\ EndOf(k) \in Nat
      /\ Len(scratch_items) \in Nat /\ Len(scratch_members) \in Nat
  BY StackTypes
<1>4. /\ UNCHANGED <<scratch_items, scratch_members, slots, items, members>>
      /\ expect \in {"Value", "ValueOrEnd"}
      /\ expect' = IF entry.object THEN "NameOrEnd" ELSE "ValueOrEnd"
  BY <1>1 DEF OpenContainer, AtValue, arena
<1>5. entry.object \in BOOLEAN /\ entry.start \in Nat
  BY DEF OpenEntry, Id
<1>6. entry.start = IF entry.object THEN Len(scratch_members) ELSE Len(scratch_items)
  BY <1>1 DEF Opened
<1>7. \A k \in 1 .. n : stack[k].object => Waits(k)
  BY <1>4, ObjectsWait
<1> HIDE DEF n
<1>8. Nested'
  <2>1. ASSUME NEW k \in 1 .. n + 1
        PROVE  /\ stack'[k].start <= EndOf(k)'
               /\ EndOf(k)' <= IF stack'[k].object THEN Len(scratch_members') ELSE Len(scratch_items')
    <3>1. CASE k = n + 1
      BY <1>2, <1>4, <1>5, <1>6, <3>1
    <3>2. CASE k \in 1 .. n
      BY <1>2, <1>3, <1>4, <3>2 DEF Shaped, Nested
    <3>3. QED
      BY <1>3, <3>1, <3>2
  <2>2. ASSUME NEW k \in 1 .. n + 1, stack'[k].object, Waits(k)'
        PROVE  stack'[k].start < EndOf(k)'
    <3>1. k # n + 1
      BY <1>2, <1>4, <2>2 DEF Waits
    <3>2. k \in 1 .. n
      BY <1>3, <3>1
    <3>3. QED
      BY <1>2, <1>3, <1>7, <2>2, <3>2 DEF Shaped, Nested
  <2>3. ASSUME NEW j \in 1 .. n + 1, NEW k \in 1 .. n + 1, j < k,
               stack'[j].object = stack'[k].object
        PROVE  stack'[j].start <= stack'[k].start
    <3>1. j \in 1 .. n
      BY <1>3, <2>3
    <3>2. CASE k \in 1 .. n
      BY <1>2, <1>3, <2>3, <3>1, <3>2 DEF Shaped, Nested
    <3>3. CASE k = n + 1
      <4>1. /\ stack[j].start <= EndOf(j)
            /\ EndOf(j) <= IF stack[j].object THEN Len(scratch_members) ELSE Len(scratch_items)
        BY <1>3, <3>1 DEF Shaped, Nested
      <4>2. stack[j].object = entry.object /\ stack'[j].start = stack[j].start
            /\ stack'[k].start = entry.start
        BY <1>2, <2>3, <3>1, <3>3
      <4>3. stack[j].start \in Nat /\ EndOf(j) \in Nat
        BY <1>3, <3>1
      <4>4. QED
        BY <1>3, <1>5, <1>6, <4>1, <4>2, <4>3
    <3>4. QED
      BY <1>3, <3>2, <3>3
  <2>4. QED
    BY <1>2, <2>1, <2>2, <2>3 DEF Nested
<1>9. Turn'
  <2>1. stack' # <<>> /\ Last(stack') = entry
    BY <1>2, <1>3, EmptySeq DEF Last
  <2>2. \A k : k = Len(stack') => EndOf(k)' = entry.start
    BY <1>2
  <2>3. EndIn(stack', Len(scratch_items'), Len(scratch_members'), Len(stack')) = entry.start
    BY <2>2 DEF EndOf
  <2>4. QED
    BY <1>4, <1>5, <2>1, <2>3 DEF Turn, InObject, InArray, EndOf
<1>10. Bottom'
  <2>1. ASSUME NEW k \in 1 .. n + 1, \A j \in 1 .. k - 1 : stack'[j].object # stack'[k].object
        PROVE  stack'[k].start = 0
    <3>1. CASE k \in 1 .. n
      <4>1. \A j \in 1 .. k - 1 : j \in 1 .. n
        BY <1>3, <3>1
      <4>2. \A j \in 1 .. k - 1 : stack[j].object # stack[k].object
        BY <1>2, <2>1, <3>1, <4>1
      <4>3. QED
        BY <1>2, <1>3, <3>1, <4>2 DEF Shaped, Bottom
    <3>2. CASE k = n + 1
      <4>1. \A j \in 1 .. n : j \in 1 .. k - 1
        BY <1>3, <3>2
      <4>2. \A j \in 1 .. n : stack[j].object # entry.object
        BY <1>2, <2>1, <3>2, <4>1
      <4>3. CASE entry.object
        <5>1. scratch_members = <<>>
          BY <1>3, <4>2, <4>3 DEF Shaped, Bottom
        <5>2. QED
          BY <1>2, <1>6, <3>2, <4>3, <5>1, EmptySeq
      <4>4. CASE ~entry.object
        <5>1. scratch_items = <<>>
          BY <1>3, <1>5, <4>2, <4>4 DEF Shaped, Bottom
        <5>2. QED
          BY <1>2, <1>6, <3>2, <4>4, <5>1, EmptySeq
      <4>5. QED
        BY <4>3, <4>4
    <3>3. QED
      BY <1>3, <3>1, <3>2
  <2>2. \A k \in 1 .. n : k \in 1 .. n + 1
    BY <1>3
  <2>3. (\A k \in 1 .. n + 1 : stack'[k].object) => scratch_items' = <<>>
    BY <1>2, <1>3, <1>4, <2>2 DEF Shaped, Bottom
  <2>4. (\A k \in 1 .. n + 1 : ~stack'[k].object) => scratch_members' = <<>>
    BY <1>2, <1>3, <1>4, <2>2 DEF Shaped, Bottom
  <2>5. QED
    BY <1>2, <2>1, <2>3, <2>4 DEF Bottom
<1>11. Outside'
  BY <1>2, <1>3, EmptySeq DEF Outside
<1>12. QED
  BY <1>8, <1>9, <1>10, <1>11 DEF Shaped

(* Steps that leave the stacks and the arena alone. *)
Idle == UNCHANGED <<expect, name, scratch, arena>>

LEMMA IdleKeeps ==
    ASSUME Idle
    PROVE  /\ Shaped => Shaped'
           /\ NodesHeld => NodesHeld'
           /\ PlacesCounted => PlacesCounted'
<1>1. UNCHANGED <<expect, stack, scratch_items, scratch_members, slots, items, members>>
  BY DEF Idle, scratch, arena
<1>2. Shaped => Shaped'
  BY <1>1 DEF Shaped, Nested, Turn, Bottom, Outside, EndOf, Waits, InObject, InArray
<1>3. Awaited' = Awaited
  BY <1>1 DEF Awaited, AwaitsValue
<1>4. NodesHeld => NodesHeld'
  BY <1>1, <1>3 DEF NodesHeld, Held
<1>5. PlacesCounted => PlacesCounted'
  BY <1>1, <1>3 DEF PlacesCounted, RootMade
<1>6. QED
  BY <1>2, <1>4, <1>5

LEMMA StopIdle ==
    ASSUME NEW result, Stop(result)
    PROVE  Idle /\ position' = position /\ input' = input
  BY DEF Stop, Idle

(* A name, or a comma before the next child: the next child is expected. *)
Turns(next) ==
    /\ UNCHANGED <<scratch, arena>> /\ stack # <<>> /\ expect' = next
    /\ IF Last(stack).object THEN expect # "Value" /\ next \in {"Name", "Colon"}
       ELSE expect = "Separator" /\ next = "Value"

LEMMA TurnsShaped ==
    ASSUME TypeOK, TypeOK', Shaped, NEW next, Turns(next)
    PROVE  Shaped' /\ Awaited' = Awaited
<1> DEFINE n == Len(stack)
<1>1. /\ UNCHANGED <<stack, scratch_items, scratch_members, slots, items, members>>
      /\ expect' = next
  BY DEF Turns, scratch, arena
<1>2. n \in Nat \ {0} /\ Last(stack) = stack[n] /\ DOMAIN stack = 1 .. n
      /\ \A k \in 1 .. n : stack[k].object \in BOOLEAN
  BY StackTypes, EmptySeq DEF Turns, Last
<1>3. \A k : EndOf(k)' = EndOf(k)
  BY <1>1 DEF EndOf
<1>4. \A k \in 1 .. n : stack[k].object => (Waits(k)' <=> Waits(k))
  <2> SUFFICES ASSUME NEW k \in 1 .. n, stack[k].object
               PROVE  Waits(k)' <=> Waits(k)
    OBVIOUS
  <2>1. CASE k < n
    BY <1>1, <2>1 DEF Waits
  <2>2. CASE k = n
    <3>1. Last(stack).object
      BY <1>2, <2>2
    <3>2. expect # "Value" /\ next # "Value"
      BY <3>1 DEF Turns
    <3>3. QED
      BY <1>1, <2>2, <3>2 DEF Waits
  <2>3. k < n \/ k = n
    <3>1. n \in Nat /\ k \in 1 .. n
      BY <1>2
    <3> HIDE DEF n
    <3>2. QED
      BY <3>1
  <2>4. QED
    BY <2>1, <2>2, <2>3
<1>5. Nested'
  BY <1>1, <1>2, <1>3, <1>4 DEF Shaped, Nested
<1>6. Turn'
  BY <1>1, <1>2 DEF Turns, Turn, InObject
<1>7. Bottom' /\ Outside'
  BY <1>1 DEF Shaped, Bottom, Outside, Turns
<1>8. WaitingObjects' = WaitingObjects
  BY <1>1, <1>2, <1>4 DEF WaitingObjects
<1>9. QED
  BY <1>3, <1>5, <1>6, <1>7, <1>8, AwaitedKept DEF Shaped

LEMMA MemberNameTurns ==
    ASSUME TypeOK, Shaped, MemberName
    PROVE  Turns("Colon")
<1>1. expect \in {"Name", "NameOrEnd"} /\ expect' = "Colon" /\ UNCHANGED <<scratch, arena>>
  BY DEF MemberName, AtName
<1>2. InObject(stack)
  BY <1>1 DEF Shaped, Turn
<1>3. QED
  BY <1>1, <1>2 DEF Turns, InObject

LEMMA CommaTurns ==
    ASSUME TypeOK, Shaped, Comma
    PROVE  \E next : Turns(next)
<1>1. /\ expect = "Separator" /\ stack # <<>> /\ UNCHANGED <<scratch, arena>>
      /\ expect' = IF InObject(stack) THEN "Name" ELSE "Value"
  BY DEF Comma, AtSeparator
<1>2. CASE Last(stack).object
  BY <1>1, <1>2 DEF Turns, InObject
<1>3. CASE ~Last(stack).object
  BY <1>1, <1>3 DEF Turns, InObject
<1>4. QED
  BY <1>2, <1>3

LEMMA ColonShaped ==
    ASSUME TypeOK, TypeOK', Shaped, Colon
    PROVE  /\ Shaped'
           /\ Awaited' = Awaited \cup {Len(scratch_members) + 1}
           /\ Awaited \subseteq 1 .. Len(scratch_members)
<1> DEFINE n == Len(stack)
           pendings == Len(scratch_members)
<1>1. /\ UNCHANGED <<stack, scratch_items, slots, items, members>>
      /\ scratch_members' = Append(scratch_members, Pending(name.name, name.offset))
      /\ expect = "Colon" /\ expect' = "Value"
  BY DEF Colon, arena
<1>2. /\ n \in Nat /\ pendings \in Nat /\ Len(scratch_items) \in Nat
      /\ stack \in Seq(OpenEntry) /\ DOMAIN stack = 1 .. n
      /\ \A k \in 1 .. n : stack[k].object \in BOOLEAN /\ stack[k].start \in Nat /\ EndOf(k) \in Nat
  BY StackTypes
<1>3. n \in 1 .. n /\ Last(stack) = stack[n] /\ stack[n].object /\ stack # <<>>
  BY <1>1, <1>2, EmptySeq DEF Shaped, Turn, InObject, Last
<1>4. Len(scratch_members') = pendings + 1
  BY <1>1, AppendProperties DEF TypeOK, ScratchOK
<1>5. /\ \A k \in 1 .. n - 1 : EndOf(k)' = EndOf(k)
      /\ EndOf(n) = pendings
      /\ \A k : k = n => EndOf(k)' = pendings + 1
  <2> DEFINE ids == Len(scratch_items)
  <2>1. /\ \A k \in 1 .. n - 1 :
              EndIn(stack, ids, pendings + 1, k) = EndIn(stack, ids, pendings, k)
        /\ EndIn(stack, ids, pendings, n) = pendings
        /\ EndIn(stack, ids, pendings + 1, n) = pendings + 1
    <3> DEFINE longer == pendings + 1
    <3>1. stack \in Seq(OpenEntry) /\ stack # <<>> /\ Last(stack).object
      BY <1>2, <1>3
    <3> HIDE DEF ids, pendings, longer
    <3>2. EndIn(stack, ids, pendings, Len(stack)) = pendings
      BY <3>1, EndInnermost
    <3>3. EndIn(stack, ids, longer, Len(stack)) = longer
      BY <3>1, EndInnermost
    <3>4. ASSUME NEW k \in 1 .. Len(stack) - 1
          PROVE  EndIn(stack, ids, longer, k) = EndIn(stack, ids, pendings, k)
      BY <3>1, EndBelow
    <3>5. QED
      BY <3>2, <3>3, <3>4 DEF longer
  <2>2. \A k : EndOf(k)' = EndIn(stack, ids, pendings + 1, k)
    BY <1>1, <1>4 DEF EndOf
  <2>3. QED
    BY <2>1, <2>2 DEF EndOf
<1> HIDE DEF n, pendings
<1>6. \A k \in 1 .. n : k = n \/ k \in 1 .. n - 1
  BY <1>2
<1>7. Nested'
  <2>1. ASSUME NEW k \in 1 .. n
        PROVE  /\ stack[k].start <= EndOf(k)'
               /\ EndOf(k)' <= IF stack[k].object THEN pendings + 1 ELSE Len(scratch_items)
    <3>1. stack[k].start <= EndOf(k)
          /\ EndOf(k) <= IF stack[k].object THEN pendings ELSE Len(scratch_items)
      BY <1>2 DEF Shaped, Nested, pendings
    <3>2. CASE k = n
      <4>1. EndOf(k)' = pendings + 1 /\ EndOf(k) = pendings
        BY <1>5, <3>2
      <4>2. QED
        BY <1>2, <1>3, <3>1, <3>2, <4>1
    <3>3. CASE k \in 1 .. n - 1
      <4>1. EndOf(k)' = EndOf(k)
        BY <1>5, <3>3
      <4>2. CASE stack[k].object
        BY <1>2, <3>1, <4>1, <4>2
      <4>3. CASE ~stack[k].object
        BY <1>2, <3>1, <4>1, <4>3
      <4>4. QED
        BY <4>2, <4>3
    <3>4. QED
      BY <1>6, <3>2, <3>3
  <2>2. ASSUME NEW k \in 1 .. n, stack[k].object
        PROVE  stack[k].start < EndOf(k)'
    <3>1. CASE k = n
      <4>1. stack[k].start <= EndOf(k) /\ EndOf(k) = pendings /\ EndOf(k)' = pendings + 1
        BY <1>2, <1>5, <3>1 DEF Shaped, Nested
      <4>2. QED
        BY <1>2, <4>1
    <3>2. CASE k \in 1 .. n - 1
      <4>1. k < n
        BY <1>2, <3>2
      <4>2. Waits(k)
        BY <4>1 DEF Waits, n
      <4>3. stack[k].start < EndOf(k)
        BY <1>2, <2>2, <4>2 DEF Shaped, Nested
      <4>4. QED
        BY <1>5, <3>2, <4>3
    <3>3. QED
      BY <1>6, <3>1, <3>2
  <2>3. \A j, k \in 1 .. n : j < k /\ stack[j].object = stack[k].object =>
            stack[j].start <= stack[k].start
    BY <1>2 DEF Shaped, Nested
  <2>4. DOMAIN stack' = 1 .. n /\ stack' = stack /\ Len(scratch_members') = pendings + 1
        /\ scratch_items' = scratch_items
    BY <1>1, <1>2, <1>4
  <2>5. QED
    BY <2>1, <2>2, <2>3, <2>4 DEF Nested
<1>8. Turn'
  BY <1>1 DEF Turn
<1>9. Bottom' /\ Outside'
  BY <1>1, <1>2, <1>3 DEF Shaped, Bottom, Outside
<1>10. Awaited' = Awaited \cup {pendings + 1}
  <2>1. WaitingObjects' = WaitingObjects \cup {n} /\ n \notin WaitingObjects
    <3>1. \A k \in 1 .. n : (Waits(k) <=> k < n) /\ Waits(k)'
      BY <1>1 DEF Waits, n
    <3>2. \A k \in 1 .. n : k < n <=> k # n
      BY <1>2
    <3>3. QED
      BY <1>1, <1>2, <1>3, <3>1, <3>2 DEF WaitingObjects
  <2>2. \A i : i \in Awaited <=> \E k \in WaitingObjects : i = EndOf(k)
    BY AwaitedAre DEF AwaitedMeans, Shaped
  <2>3. \A i : i \in Awaited' <=> \E k \in WaitingObjects' : i = EndOf(k)'
    <3>1. (TypeOK /\ Nested => AwaitedMeans)'
      BY AwaitedAre, PTL
    <3>2. QED
      BY <1>7, <3>1 DEF AwaitedMeans
  <2>4. WaitingObjects \subseteq 1 .. n - 1
    BY <1>2, <1>6, <2>1 DEF WaitingObjects
  <2>5. \A k \in WaitingObjects : EndOf(k)' = EndOf(k)
    BY <1>5, <2>4
  <2>6. \A i : i \in Awaited' <=> i = pendings + 1 \/ \E k \in WaitingObjects : i = EndOf(k)
    BY <1>5, <2>1, <2>3, <2>5
  <2>7. QED
    BY <2>2, <2>6
<1>11. Awaited \subseteq 1 .. pendings
  BY AwaitedAre DEF AwaitedMeans, Shaped, pendings
<1>12. QED
  BY <1>7, <1>8, <1>9, <1>10, <1>11 DEF Shaped, pendings

(* A value finished inside the first m containers of the stack. *)
Completed(m) ==
    /\ m \in 0 .. Len(stack)
    /\ Len(stack') = m /\ \A k \in 1 .. m : stack'[k] = stack[k]
    /\ \A k \in 1 .. m - 1 : EndOf(k)' = EndOf(k)
    /\ \A k \in 1 .. m : k = m => EndOf(k)' = EndOf(k) + (IF stack[k].object THEN 0 ELSE 1)
    /\ \A k \in 1 .. m :
          EndOf(k)' <= IF stack[k].object THEN Len(scratch_members') ELSE Len(scratch_items')
    /\ (\A k \in 1 .. m : stack[k].object) => scratch_items' = <<>>
    /\ (\A k \in 1 .. m : ~stack[k].object) => scratch_members' = <<>>
    /\ expect' = "Separator" /\ slots' # <<>>
    /\ WaitingObjects = {k \in 1 .. m : stack[k].object}

LEMMA CompletedShaped ==
    ASSUME TypeOK, TypeOK', Shaped, NEW m, Completed(m)
    PROVE  Shaped'
<1>1. /\ DOMAIN stack = 1 .. Len(stack) /\ Len(stack) \in Nat
      /\ \A k \in 1 .. Len(stack) :
            stack[k].object \in BOOLEAN /\ stack[k].start \in Nat /\ EndOf(k) \in Nat
  BY StackTypes
<1>2. /\ m \in Nat /\ DOMAIN stack' = 1 .. m /\ Len(stack') = m
      /\ \A k \in 1 .. m : k \in 1 .. Len(stack) /\ stack'[k] = stack[k]
      /\ \A k \in 1 .. m : k = m \/ k \in 1 .. m - 1
  <2>1. m \in 0 .. Len(stack) /\ Len(stack') = m /\ \A k \in 1 .. m : stack'[k] = stack[k]
    BY DEF Completed
  <2>2. DOMAIN stack' = 1 .. m
    BY <2>1, LenProperties DEF TypeOK, ScratchOK
  <2>3. QED
    BY <1>1, <2>1, <2>2
<1>3. \A k \in 1 .. m : EndOf(k) <= EndOf(k)' /\ EndOf(k)' \in Nat
  <2> SUFFICES ASSUME NEW k \in 1 .. m PROVE EndOf(k) <= EndOf(k)' /\ EndOf(k)' \in Nat
    OBVIOUS
  <2>1. EndOf(k) \in Nat
    BY <1>1, <1>2
  <2>2. CASE k = m
    BY <2>1, <2>2 DEF Completed
  <2>3. CASE k \in 1 .. m - 1
    BY <2>1, <2>3 DEF Completed
  <2>4. QED
    BY <1>2, <2>2, <2>3
<1>4. Nested'
  <2>1. ASSUME NEW k \in 1 .. m
        PROVE  /\ stack[k].start <= EndOf(k)'
               /\ EndOf(k)' <= IF stack[k].object THEN Len(scratch_members') ELSE Len(scratch_items')
    <3>1. stack[k].start <= EndOf(k) /\ stack[k].start \in Nat /\ EndOf(k) \in Nat
      BY <1>1, <1>2 DEF Shaped, Nested
    <3>2. QED
      BY <1>3, <3>1 DEF Completed
  <2>2. ASSUME NEW k \in 1 .. m, stack[k].object
        PROVE  stack[k].start < EndOf(k)'
    <3>1. k \in WaitingObjects
      BY <2>2 DEF Completed
    <3>2. stack[k].start < EndOf(k) /\ stack[k].start \in Nat /\ EndOf(k) \in Nat
      BY <1>1, <1>2, <2>2, <3>1 DEF Shaped, Nested, WaitingObjects
    <3>3. QED
      BY <1>3, <3>2
  <2>3. ASSUME NEW j \in 1 .. m, NEW k \in 1 .. m, j < k, stack[j].object = stack[k].object
        PROVE  stack[j].start <= stack[k].start
    BY <1>1, <1>2, <2>3 DEF Shaped, Nested
  <2>4. QED
    BY <1>2, <2>1, <2>2, <2>3 DEF Nested
<1>5. Turn' /\ Outside'
  BY DEF Turn, Outside, Completed
<1>6. Bottom'
  <2>1. ASSUME NEW k \in 1 .. m, \A j \in 1 .. k - 1 : stack'[j].object # stack'[k].object
        PROVE  stack'[k].start = 0
    <3>1. \A j \in 1 .. k - 1 : j \in 1 .. m
      BY <1>2
    <3>2. \A j \in 1 .. k - 1 : stack[j].object # stack[k].object
      BY <1>2, <2>1, <3>1
    <3>3. QED
      BY <1>1, <1>2, <3>2 DEF Shaped, Bottom
  <2>2. (\A k \in 1 .. m : stack'[k].object) => scratch_items' = <<>>
    BY <1>2 DEF Completed
  <2>3. (\A k \in 1 .. m : ~stack'[k].object) => scratch_members' = <<>>
    BY <1>2 DEF Completed
  <2>4. QED
    BY <1>2, <2>1, <2>2, <2>3 DEF Bottom
<1>7. QED
  BY <1>4, <1>5, <1>6 DEF Shaped

LEMMA CompletedAwaited ==
    ASSUME TypeOK, TypeOK', Shaped, NEW m, Completed(m)
    PROVE  /\ m \in WaitingObjects => Awaited' = Awaited \ {EndOf(m)} /\ EndOf(m) \in Awaited
           /\ m \notin WaitingObjects => Awaited' = Awaited
<1>1. Nested /\ Nested'
  BY CompletedShaped DEF Shaped
<1>2. m \in Nat /\ Len(stack) \in Nat
  BY StackTypes DEF Completed
<1>3. WaitingObjects' = WaitingObjects \ {m}
  <2>1. DOMAIN stack' = 1 .. m /\ Len(stack') = m
    BY LenProperties DEF TypeOK, ScratchOK, Completed
  <2>2. \A k : Waits(k)' <=> k < m
    BY <2>1 DEF Waits, Completed
  <2>3. WaitingObjects' = {k \in 1 .. m : stack[k].object /\ k < m}
    BY <2>1, <2>2 DEF WaitingObjects, Completed
  <2>4. WaitingObjects = {k \in 1 .. m : stack[k].object}
    BY DEF Completed
  <2>5. \A k \in 1 .. m : k < m <=> k # m
    BY <1>2
  <2>6. QED
    BY <2>3, <2>4, <2>5
<1>4. \A k \in WaitingObjects \ {m} : EndOf(k)' = EndOf(k)
  <2>1. \A k \in WaitingObjects \ {m} : k \in 1 .. m - 1
    BY <1>2 DEF Completed
  <2>2. QED
    BY <2>1 DEF Completed
<1>5. CASE m \in WaitingObjects
  BY <1>1, <1>3, <1>4, <1>5, AwaitedLess
<1>6. CASE m \notin WaitingObjects
  <2>1. WaitingObjects' = WaitingObjects /\ \A k \in WaitingObjects : EndOf(k)' = EndOf(k)
    BY <1>3, <1>4, <1>6
  <2>2. QED
    BY <1>1, <1>6, <2>1, AwaitedKept
<1>7. QED
  BY <1>5, <1>6

LEMMA CompleteCompletes ==
    ASSUME TypeOK, TypeOK', NEW id \in Id, NEW open \in Seq(OpenEntry),
           NEW ids \in Seq(Id), NEW pendings \in Seq(PendingMember),
           Complete(id, open, ids, pendings), stack' = open, Len(open) <= Len(stack),
           slots' # <<>>,
           \A k \in 1 .. Len(open) :
               /\ open[k] = stack[k]
               /\ EndIn(open, Len(ids), Len(pendings), k) = EndOf(k)
               /\ EndOf(k) <= IF stack[k].object THEN Len(pendings) ELSE Len(ids),
           (\A k \in 1 .. Len(open) : stack[k].object) => ids = <<>>,
           (\A k \in 1 .. Len(open) : ~stack[k].object) => pendings = <<>>,
           WaitingObjects = {k \in 1 .. Len(open) : stack[k].object}
    PROVE  Completed(Len(open))
<1> DEFINE m == Len(open)
           longer == Len(scratch_items')
<1>1. /\ m \in Nat /\ Len(stack) \in Nat /\ m \in 0 .. Len(stack)
      /\ \A k \in 1 .. Len(stack) :
            stack[k].object \in BOOLEAN /\ stack[k].start \in Nat /\ EndOf(k) \in Nat
  <2>1. m \in Nat /\ Len(stack) \in Nat
    BY LenProperties, StackTypes
  <2>2. QED
    BY <2>1, StackTypes
<1>2. Len(ids) \in Nat /\ Len(pendings) \in Nat
  BY LenProperties
<1>3. Len(scratch_members') = Len(pendings)
  <2>1. CASE InObject(open)
    <3>1. scratch_members' = [pendings EXCEPT ![Len(pendings)].id = id]
      BY <2>1 DEF Complete
    <3>2. DOMAIN scratch_members' = DOMAIN pendings
      BY <3>1
    <3>3. DOMAIN pendings = 1 .. Len(pendings) /\ DOMAIN scratch_members' = 1 .. Len(scratch_members')
          /\ Len(scratch_members') \in Nat
      BY LenProperties DEF TypeOK, ScratchOK
    <3>4. QED
      BY <1>2, <3>2, <3>3
  <2>2. CASE ~InObject(open)
    BY <2>2 DEF Complete
  <2>3. QED
    BY <2>1, <2>2
<1>4. longer = Len(ids) + (IF InArray(open) THEN 1 ELSE 0)
      /\ (~InArray(open) => scratch_items' = ids) /\ longer \in Nat
  <2>1. CASE InArray(open)
    <3>1. scratch_items' = Append(ids, id)
      BY <2>1 DEF Complete
    <3>2. QED
      BY <1>2, <2>1, <3>1, AppendProperties
  <2>2. CASE ~InArray(open)
    BY <1>2, <2>2 DEF Complete
  <2>3. QED
    BY <2>1, <2>2
<1>5. m > 0 => /\ m \in 1 .. m /\ open # <<>> /\ Last(open) = stack[m]
               /\ InArray(open) <=> ~stack[m].object
               /\ InObject(open) <=> stack[m].object
  <2> SUFFICES ASSUME m > 0
               PROVE  /\ m \in 1 .. m /\ open # <<>> /\ Last(open) = stack[m]
                      /\ InArray(open) <=> ~stack[m].object
                      /\ InObject(open) <=> stack[m].object
    OBVIOUS
  <2>1. m \in 1 .. m /\ open # <<>> /\ Last(open) = open[m]
    BY <1>1, EmptySeq DEF Last
  <2>2. open[m] = stack[m]
    BY <2>1
  <2>3. QED
    BY <2>1, <2>2 DEF InArray, InObject
<1>6. m = 0 => ~InArray(open) /\ ~InObject(open)
  BY EmptySeq DEF InArray, InObject
<1>7. \A k : EndOf(k)' = EndIn(open, longer, Len(pendings), k)
  BY <1>3 DEF EndOf
<1>8. ASSUME NEW k \in 1 .. m - 1
      PROVE  EndOf(k)' = EndOf(k)
  <2>1. open # <<>> /\ (Last(open).object => longer = Len(ids))
    BY <1>1, <1>4, <1>5
  <2>2. EndIn(open, longer, Len(pendings), k) = EndIn(open, Len(ids), Len(pendings), k)
    <3> DEFINE before == Len(ids)
               members_left == Len(pendings)
    <3> HIDE DEF before, members_left, longer
    <3>1. Last(open).object => longer = before
      BY <2>1 DEF before
    <3>2. EndIn(open, longer, members_left, k) = EndIn(open, before, members_left, k)
      BY <2>1, <3>1, EndBelow
    <3>3. QED
      BY <3>2 DEF before, members_left
  <2>3. k \in 1 .. m
    BY <1>1
  <2>4. QED
    BY <1>7, <2>2, <2>3
<1>9. ASSUME NEW k \in 1 .. m, k = m
      PROVE  EndOf(k)' = EndOf(k) + (IF stack[k].object THEN 0 ELSE 1)
  <2>1. open # <<>> /\ Last(open) = stack[k] /\ m > 0
    BY <1>1, <1>5, <1>9
  <2>2. EndIn(open, longer, Len(pendings), k) = IF stack[k].object THEN Len(pendings) ELSE longer
    BY <1>9, <2>1, EndInnermost
  <2>3. EndIn(open, Len(ids), Len(pendings), k) = IF stack[k].object THEN Len(pendings) ELSE Len(ids)
    BY <1>9, <2>1, EndInnermost
  <2>4. EndOf(k) = IF stack[k].object THEN Len(pendings) ELSE Len(ids)
    BY <2>3
  <2>5. EndOf(k)' = IF stack[k].object THEN Len(pendings) ELSE longer
    BY <1>7, <2>2
  <2>6. ~stack[k].object => longer = Len(ids) + 1
    BY <1>4, <1>5, <1>9, <2>1
  <2>7. QED
    BY <1>2, <2>4, <2>5, <2>6
<1>10. ASSUME NEW k \in 1 .. m
       PROVE  EndOf(k)' <= IF stack[k].object THEN Len(scratch_members') ELSE longer
  <2>1. EndOf(k) <= IF stack[k].object THEN Len(pendings) ELSE Len(ids)
    OBVIOUS
  <2>2. EndOf(k) \in Nat /\ Len(ids) <= longer
    BY <1>1, <1>2, <1>4
  <2>3. CASE k \in 1 .. m - 1
    <3>1. EndOf(k)' = EndOf(k)
      BY <1>8, <2>3
    <3>2. QED
      BY <1>2, <1>3, <1>4, <2>1, <2>2, <3>1
  <2>4. CASE k = m
    <3>1. EndOf(k)' = EndOf(k) + (IF stack[k].object THEN 0 ELSE 1)
      BY <1>9, <2>4
    <3>2. m > 0 /\ (~stack[k].object => InArray(open))
      BY <1>1, <1>5, <2>4
    <3>3. ~stack[k].object => longer = Len(ids) + 1
      BY <1>4, <3>2
    <3>4. QED
      BY <1>2, <1>3, <1>4, <2>1, <2>2, <3>1, <3>3
  <2>5. QED
    BY <1>1, <2>3, <2>4
<1>11. (\A k \in 1 .. m : stack[k].object) => scratch_items' = <<>>
  <2> SUFFICES ASSUME \A k \in 1 .. m : stack[k].object
               PROVE  scratch_items' = <<>>
    OBVIOUS
  <2>1. ids = <<>>
    OBVIOUS
  <2>2. ~InArray(open)
    BY <1>1, <1>5, <1>6
  <2>3. QED
    BY <1>4, <2>1, <2>2
<1>12. (\A k \in 1 .. m : ~stack[k].object) => scratch_members' = <<>>
  <2> SUFFICES ASSUME \A k \in 1 .. m : ~stack[k].object
               PROVE  scratch_members' = <<>>
    OBVIOUS
  <2>1. pendings = <<>>
    OBVIOUS
  <2>2. ~InObject(open)
    BY <1>1, <1>5, <1>6
  <2>3. QED
    BY <2>1, <2>2 DEF Complete
<1>13. expect' = "Separator"
  BY DEF Complete
<1>14. QED
  BY <1>1, <1>8, <1>9, <1>10, <1>11, <1>12, <1>13 DEF Completed

LEMMA LeafCompletes ==
    ASSUME TypeOK, TypeOK', Shaped, LeafValue, ~NoMember(stack, scratch_members)
    PROVE  /\ Completed(Len(stack))
           /\ Complete(Len(slots), stack, scratch_items, scratch_members)
           /\ \E t \in Scalar : slots' = Append(slots, Leaf(t))
           /\ UNCHANGED <<input, stack, items, members>>
           /\ position' = position + 1
<1> DEFINE n == Len(stack)
<1>1. /\ Complete(Len(slots), stack, scratch_items, scratch_members)
      /\ Peek \in Scalar /\ slots' = Append(slots, Leaf(Peek))
      /\ UNCHANGED <<input, stack, items, members>> /\ position' = position + 1
      /\ expect \in {"Value", "ValueOrEnd"}
  BY DEF LeafValue, AtValue
<1>2. /\ n \in Nat /\ stack \in Seq(OpenEntry) /\ DOMAIN stack = 1 .. n
      /\ \A k \in 1 .. n : stack[k].object \in BOOLEAN
  BY StackTypes
<1>3. Len(slots) \in Id /\ slots' # <<>>
  <2>1. Len(slots) \in Nat
    BY LenProperties DEF TypeOK, ArenaOK
  <2>2. slots \in Seq(Node) /\ Leaf(Peek) \in Node
    BY <1>1 DEF TypeOK, ArenaOK, Node, Leaf
  <2>3. Len(slots') = Len(slots) + 1
    BY <1>1, <2>2, AppendProperties
  <2>4. QED
    BY <2>1, <2>3, EmptySeq DEF Id
<1>4. \A k \in 1 .. n :
          EndOf(k) <= IF stack[k].object THEN Len(scratch_members) ELSE Len(scratch_items)
  BY <1>2 DEF Shaped, Nested
<1>5. WaitingObjects = {k \in 1 .. n : stack[k].object}
  BY <1>1, <1>2, ObjectsWait DEF WaitingObjects
<1>6. /\ (\A k \in 1 .. n : stack[k].object) => scratch_items = <<>>
      /\ (\A k \in 1 .. n : ~stack[k].object) => scratch_members = <<>>
  BY <1>2 DEF Shaped, Bottom
<1>7. \A k \in 1 .. n : EndIn(stack, Len(scratch_items), Len(scratch_members), k) = EndOf(k)
  BY DEF EndOf
<1>8. scratch_items \in Seq(Id) /\ scratch_members \in Seq(PendingMember)
      /\ stack' = stack /\ n <= n
  BY <1>1, <1>2 DEF TypeOK, ScratchOK
<1>9. Completed(n)
  BY <1>1, <1>2, <1>3, <1>4, <1>5, <1>6, <1>7, <1>8, CompleteCompletes
<1>10. QED
  BY <1>1, <1>9

(* What closing does, and to which container. *)
ClosedInto(outer, top) ==
    /\ stack' = outer /\ outer \in Seq(OpenEntry) /\ top \in OpenEntry
    /\ stack = Append(outer, top)
    /\ position' = position + 1 /\ input' = input
    /\ IF top.object THEN CloseObject(outer, top.start) ELSE CloseArray(outer, top.start)
    /\ ~NoMember(outer, IF top.object THEN Dropped(scratch_members, top.start)
                        ELSE scratch_members)
    /\ top.object => DuplicateAt(SubSeq(scratch_members, top.start + 1, Len(scratch_members))) = {}

LEMMA CloseCloses ==
    ASSUME TypeOK, Shaped, Close
    PROVE  /\ \E outer, top : ClosedInto(outer, top)
           /\ expect # "Value"
<1>1. CloseRefusals = {} /\ AtClose /\ stack' = Front(stack) /\ position' = position + 1
      /\ input' = input
  BY DEF Close
<1>2. expect # "Value"
  BY <1>1 DEF AtClose, AtValue, AtName, AtSeparator
<1> DEFINE object == Peek = "}"
           start == Last(stack).start
           left == IF object THEN Dropped(scratch_members, start) ELSE scratch_members
           duplicates ==
             IF object THEN DuplicateAt(SubSeq(scratch_members, start + 1, Len(scratch_members)))
             ELSE {}
<1>3. CloseRefusals = IF stack = <<>> \/ Last(stack).object # object
          THEN {Answer("UnexpectedCharacter", position, <<>>)}
        ELSE IF duplicates # {}
          THEN {Answer("DuplicateName", offset, <<>>) : offset \in duplicates}
        ELSE IF NoMember(Front(stack), left)
          THEN {Answer("UnexpectedCharacter", position + 1, <<>>)}
        ELSE {}
  BY DEF CloseRefusals
<1> HIDE DEF duplicates, left, object
<1>4. stack # <<>> /\ Last(stack).object = object /\ duplicates = {} /\ ~NoMember(Front(stack), left)
  BY <1>1, <1>3
<1>5. Last(stack).object => left = Dropped(scratch_members, start) /\ duplicates
          = DuplicateAt(SubSeq(scratch_members, start + 1, Len(scratch_members)))
  BY <1>4 DEF left, duplicates
<1>6. ~Last(stack).object => left = scratch_members
  BY <1>4 DEF left
<1>7. stack \in Seq(OpenEntry)
  BY StackTypes
<1>8. stack = Append(Front(stack), Last(stack))
  <2> DEFINE outer == Front(stack)
             top == Last(stack)
  <2>1. /\ top \in OpenEntry /\ outer \in Seq(OpenEntry) /\ Len(outer) = Len(stack) - 1
        /\ Len(stack) \in Nat \ {0}
        /\ \A i \in 1 .. Len(stack) - 1 : outer[i] = stack[i]
    BY <1>4, <1>7, FrontLast
  <2>2. top = stack[Len(stack)]
    BY DEF Last
  <2> HIDE DEF outer, top
  <2>3. /\ Append(outer, top) \in Seq(OpenEntry)
        /\ Len(Append(outer, top)) = Len(outer) + 1
        /\ Append(outer, top)[Len(outer) + 1] = top
        /\ \A i \in 1 .. Len(outer) : Append(outer, top)[i] = outer[i]
    BY <2>1, AppendProperties
  <2>4. Len(Append(outer, top)) = Len(stack)
    BY <2>1, <2>3
  <2>5. \A i \in 1 .. Len(stack) : Append(outer, top)[i] = stack[i]
    BY <2>1, <2>2, <2>3
  <2>6. stack = Append(outer, top)
    BY <1>7, <2>3, <2>4, <2>5, SeqEqual
  <2>7. QED
    BY <2>6 DEF outer, top
<1>9. Front(stack) \in Seq(OpenEntry) /\ Last(stack) \in OpenEntry
  BY <1>4, <1>7, FrontLast
<1>10. ClosedInto(Front(stack), Last(stack))
  BY <1>1, <1>4, <1>5, <1>6, <1>8, <1>9 DEF ClosedInto, Close
<1>11. QED
  BY <1>2, <1>10

(* Dropping the children of a container leaves exactly those before it. *)
LEMMA DroppedLen ==
    ASSUME NEW S, NEW list \in Seq(S), NEW k \in Nat, k <= Len(list)
    PROVE  Len(Dropped(list, k)) = k
<1>1. Len(list) \in Nat
  BY LenProperties
<1>2. CASE k < Len(list)
  BY <1>1, <1>2, PrefixType DEF Dropped
<1>3. CASE ~(k < Len(list))
  BY <1>1, <1>3 DEF Dropped
<1>4. QED
  BY <1>2, <1>3

LEMMA CloseCompletes ==
    ASSUME TypeOK, TypeOK', Shaped, expect # "Value", NEW outer, NEW top, ClosedInto(outer, top)
    PROVE  /\ Completed(Len(outer))
           /\ Len(stack) = Len(outer) + 1 /\ Len(outer) \in Nat
           /\ top.object \in BOOLEAN /\ top.start \in Nat
           /\ top.start <= IF top.object THEN Len(scratch_members) ELSE Len(scratch_items)
           /\ \A k \in 1 .. Len(outer) :
                 stack[k].object = top.object => EndOf(k) <= top.start
<1> DEFINE m == Len(outer)
           n == Len(stack)
           ids == IF top.object THEN scratch_items ELSE Dropped(scratch_items, top.start)
           pendings == IF top.object THEN Dropped(scratch_members, top.start)
                       ELSE scratch_members
<1>1. /\ outer \in Seq(OpenEntry) /\ top \in OpenEntry
      /\ stack = Append(outer, top) /\ stack' = outer
  BY DEF ClosedInto
<1>2. top.object \in BOOLEAN /\ top.start \in Nat
  BY <1>1 DEF OpenEntry, Id
<1>3. /\ m \in Nat /\ n = m + 1 /\ stack[n] = top /\ \A k \in 1 .. m : stack[k] = outer[k]
  BY <1>1, AppendProperties, LenProperties
<1>4. /\ stack \in Seq(OpenEntry) /\ DOMAIN stack = 1 .. n
      /\ \A k \in 1 .. n : stack[k].object \in BOOLEAN /\ stack[k].start \in Nat /\ EndOf(k) \in Nat
      /\ Len(scratch_items) \in Nat /\ Len(scratch_members) \in Nat
  BY StackTypes
<1> HIDE DEF m, n
<1>5. n \in 1 .. n /\ \A k \in 1 .. m : k \in 1 .. n /\ k < n
  BY <1>3
<1>6. top.start <= IF top.object THEN Len(scratch_members) ELSE Len(scratch_items)
  <2>1. /\ stack[n].start <= EndOf(n)
        /\ EndOf(n) <= IF stack[n].object THEN Len(scratch_members) ELSE Len(scratch_items)
    BY <1>4, <1>5 DEF Shaped, Nested
  <2>2. top.start <= EndOf(n) /\ EndOf(n) \in Nat
        /\ EndOf(n) <= IF top.object THEN Len(scratch_members) ELSE Len(scratch_items)
    BY <1>3, <1>4, <1>5, <2>1
  <2>3. QED
    BY <1>2, <1>4, <2>2
<1>7. /\ ids \in Seq(Id) /\ pendings \in Seq(PendingMember)
      /\ Len(ids) = IF top.object THEN Len(scratch_items) ELSE top.start
      /\ Len(pendings) = IF top.object THEN top.start ELSE Len(scratch_members)
  <2>1. scratch_items \in Seq(Id) /\ scratch_members \in Seq(PendingMember)
    BY DEF TypeOK, ScratchOK
  <2>2. CASE top.object
    BY <1>2, <1>6, <2>1, <2>2, DroppedType, DroppedLen
  <2>3. CASE ~top.object
    BY <1>2, <1>6, <2>1, <2>3, DroppedType, DroppedLen
  <2>4. QED
    BY <2>2, <2>3
<1>8. Complete(Len(slots), outer, ids, pendings) /\ slots' # <<>> /\ Len(slots) \in Id
  <2>1. \E node : slots' = Append(slots, node)
    BY DEF ClosedInto, CloseObject, CloseArray
  <2>2. Complete(Len(slots), outer, ids, pendings)
    BY DEF ClosedInto, CloseObject, CloseArray
  <2>3. PICK node : slots' = Append(slots, node)
    BY <2>1
  <2>4. slots \in Seq(Node) /\ Len(slots) \in Nat
    BY LenProperties DEF TypeOK, ArenaOK
  <2>5. slots \in Seq(Node \cup {node})
    BY <2>4
  <2>6. Len(slots') = Len(slots) + 1
    BY <2>3, <2>5, AppendProperties
  <2>7. QED
    BY <2>2, <2>4, <2>6, EmptySeq DEF Id
<1> HIDE DEF ids, pendings
<1>9. ASSUME NEW k \in 1 .. m
      PROVE  EndIn(outer, Len(ids), Len(pendings), k) = EndOf(k)
  <2>1. EndOf(k) = EndIn(outer, IF top.object THEN Len(scratch_items) ELSE top.start,
                         IF top.object THEN top.start ELSE Len(scratch_members), k)
    <3> DEFINE before == Len(scratch_items)
               members_before == Len(scratch_members)
    <3>1. EndOf(k) = EndIn(Append(outer, top), before, members_before, k)
      BY <1>1 DEF EndOf
    <3>2. k \in 1 .. Len(outer)
      BY DEF m
    <3> HIDE DEF before, members_before
    <3>3. EndIn(Append(outer, top), before, members_before, k)
            = EndIn(outer, IF top.object THEN before ELSE top.start,
                    IF top.object THEN top.start ELSE members_before, k)
      BY <1>1, <3>2, EndAround
    <3>4. QED
      BY <3>1, <3>3 DEF before, members_before
  <2>2. QED
    BY <1>7, <2>1
<1>10. ASSUME NEW k \in 1 .. m, stack[k].object = top.object
       PROVE  EndOf(k) <= top.start
  <2>1. k \in 1 .. Len(stack) /\ n \in 1 .. Len(stack) /\ k < n /\ stack[n].object = stack[k].object
    BY <1>3, <1>5, <1>10 DEF n
  <2>2. EndOf(k) <= stack[n].start
    BY <2>1, EndsApart DEF Shaped
  <2>3. QED
    BY <1>3, <2>2
<1>11. ASSUME NEW k \in 1 .. m
       PROVE  EndOf(k) <= IF stack[k].object THEN Len(pendings) ELSE Len(ids)
  <2>1. EndOf(k) <= IF stack[k].object THEN Len(scratch_members) ELSE Len(scratch_items)
    BY <1>4, <1>5 DEF Shaped, Nested
  <2>2. stack[k].object = top.object => EndOf(k) <= top.start
    BY <1>10
  <2>3. stack[k].object \in BOOLEAN
    BY <1>4, <1>5
  <2>4. QED
    BY <1>2, <1>7, <2>1, <2>2, <2>3
<1>12. ASSUME \A k \in 1 .. m : stack[k].object
       PROVE  ids = <<>>
  <2>1. CASE top.object
    <3>1. \A k \in 1 .. n : stack[k].object
      BY <1>3, <1>12, <2>1
    <3>2. QED
      BY <1>4, <2>1, <3>1 DEF Shaped, Bottom, ids
  <2>2. CASE ~top.object
    <3>1. \A j \in 1 .. n - 1 : stack[j].object # stack[n].object
      BY <1>2, <1>3, <1>12, <2>2
    <3>2. stack[n].start = 0
      BY <1>4, <1>5, <3>1 DEF Shaped, Bottom
    <3>3. Len(ids) = 0
      BY <1>3, <1>7, <2>2, <3>2
    <3>4. QED
      BY <1>7, <3>3, EmptySeq
  <2>3. QED
    BY <2>1, <2>2
<1>13. ASSUME \A k \in 1 .. m : ~stack[k].object
       PROVE  pendings = <<>>
  <2>1. CASE ~top.object
    <3>1. \A k \in 1 .. n : ~stack[k].object
      BY <1>3, <1>13, <2>1
    <3>2. QED
      BY <1>4, <2>1, <3>1 DEF Shaped, Bottom, pendings
  <2>2. CASE top.object
    <3>1. \A j \in 1 .. n - 1 : stack[j].object # stack[n].object
      <4>1. \A j \in 1 .. n - 1 : ~stack[j].object
        BY <1>3, <1>13
      <4>2. stack[n].object
        BY <1>3, <2>2
      <4>3. QED
        BY <4>1, <4>2
    <3>2. stack[n].start = 0
      BY <1>4, <1>5, <3>1 DEF Shaped, Bottom
    <3>3. Len(pendings) = 0
      BY <1>3, <1>7, <2>2, <3>2
    <3>4. QED
      BY <1>7, <3>3, EmptySeq
  <2>3. QED
    BY <2>1, <2>2
<1>14. WaitingObjects = {k \in 1 .. m : stack[k].object}
  <2>1. \A k \in 1 .. n : Waits(k) <=> k \in 1 .. m
    BY <1>3 DEF Waits, n
  <2>2. QED
    BY <1>4, <1>5, <2>1 DEF WaitingObjects
<1>15. Completed(m)
  <2>1. m <= Len(stack) /\ \A k \in 1 .. m : outer[k] = stack[k]
    BY <1>3 DEF n
  <2>2. QED
    BY <1>1, <1>7, <1>8, <1>9, <1>11, <1>12, <1>13, <1>14, <2>1, CompleteCompletes DEF m
<1>16. QED
  BY <1>2, <1>3, <1>6, <1>10, <1>15 DEF m, n

-----------------------------------------------------------------------------
(* Every node stays held in one place. *)

ItemsHold(ids, id) == \E i \in DOMAIN ids : ids[i] = id
MembersHold(pendings, awaited, id) == \E i \in DOMAIN pendings \ awaited : pendings[i].id = id
HeldIn(ids, pendings, awaited, id) == ItemsHold(ids, id) \/ MembersHold(pendings, awaited, id)

Inside(open) == IF open = <<>> THEN 0 ELSE 1

LEMMA CompleteHeld ==
    ASSUME TypeOK, TypeOK', Shaped, NEW id \in Id, NEW open \in Seq(OpenEntry),
           NEW ids \in Seq(Id), NEW pendings \in Seq(PendingMember), ~NoMember(open, pendings),
           Complete(id, open, ids, pendings), stack' = open, Completed(Len(open))
    PROVE  /\ \A x : HeldIn(scratch_items', scratch_members', Awaited', x)
                       <=> HeldIn(ids, pendings, Awaited, x) \/ (open # <<>> /\ x = id)
           /\ Len(scratch_items') + Len(scratch_members') + Cardinality(Awaited)
                = Len(ids) + Len(pendings) + Cardinality(Awaited') + Inside(open)
           /\ Len(scratch_members') = Len(pendings)
<1> DEFINE m == Len(open)
<1>1. /\ m \in Nat /\ Len(ids) \in Nat /\ Len(pendings) \in Nat
      /\ DOMAIN ids = 1 .. Len(ids) /\ DOMAIN pendings = 1 .. Len(pendings)
      /\ scratch_items' \in Seq(Id) /\ scratch_members' \in Seq(PendingMember)
  BY LenProperties DEF TypeOK, ScratchOK
<1>2. IsFiniteSet(Awaited) /\ Cardinality(Awaited) \in Nat
  BY AwaitedFinite DEF Shaped
<1>3. WaitingObjects = {k \in 1 .. m : stack[k].object}
  BY DEF Completed
<1>4. CASE open = <<>>
  <2>1. scratch_items' = ids /\ scratch_members' = pendings
    BY <1>4 DEF Complete, InObject, InArray
  <2>2. m = 0
    BY <1>4, EmptySeq
  <2>3. m \notin WaitingObjects
    BY <1>3, <2>2
  <2>4. Awaited' = Awaited
    BY <2>3, CompletedAwaited
  <2>5. QED
    BY <1>1, <1>2, <1>4, <2>1, <2>4 DEF HeldIn, ItemsHold, MembersHold, Inside
<1>5. CASE open # <<>>
  <2>1. m \in 1 .. m /\ Last(open) = open[m]
    BY <1>1, <1>5, EmptySeq DEF Last
  <2>2. Last(open) = stack[m]
    <3>1. open[m] = stack[m]
      BY <2>1 DEF Completed
    <3>2. QED
      BY <2>1, <3>1
  <2>3. m \in WaitingObjects <=> Last(open).object
    BY <1>3, <2>1, <2>2
  <2>4. CASE ~Last(open).object
    <3>1. scratch_items' = Append(ids, id) /\ scratch_members' = pendings
      BY <1>5, <2>4 DEF Complete, InObject, InArray
    <3>2. Awaited' = Awaited
      BY <2>3, <2>4, CompletedAwaited
    <3>3. /\ Len(scratch_items') = Len(ids) + 1 /\ scratch_items'[Len(ids) + 1] = id
          /\ \A i \in 1 .. Len(ids) : scratch_items'[i] = ids[i]
      BY <3>1, AppendProperties
    <3>4. DOMAIN scratch_items' = 1 .. Len(ids) + 1
      BY <1>1, <3>3, LenProperties
    <3>5. \A x : (\E i \in DOMAIN scratch_items' : scratch_items'[i] = x)
                   <=> (\E i \in DOMAIN ids : ids[i] = x) \/ x = id
      <4> SUFFICES ASSUME NEW x
                   PROVE  (\E i \in DOMAIN scratch_items' : scratch_items'[i] = x)
                            <=> (\E i \in DOMAIN ids : ids[i] = x) \/ x = id
        OBVIOUS
      <4>1. ASSUME NEW i \in DOMAIN scratch_items', scratch_items'[i] = x
            PROVE  (\E j \in DOMAIN ids : ids[j] = x) \/ x = id
        <5>1. i = Len(ids) + 1 \/ i \in DOMAIN ids
          BY <1>1, <3>4
        <5>2. QED
          BY <1>1, <3>3, <4>1, <5>1
      <4>2. ASSUME NEW i \in DOMAIN ids, ids[i] = x
            PROVE  i \in DOMAIN scratch_items' /\ scratch_items'[i] = x
        BY <1>1, <3>3, <3>4, <4>2
      <4>3. Len(ids) + 1 \in DOMAIN scratch_items'
        BY <1>1, <3>4
      <4>4. QED
        BY <3>3, <4>1, <4>2, <4>3
    <3>6. \A x : HeldIn(scratch_items', scratch_members', Awaited', x)
                   <=> HeldIn(ids, pendings, Awaited, x) \/ x = id
      BY <3>1, <3>2, <3>5 DEF HeldIn, ItemsHold, MembersHold
    <3>7. QED
      BY <1>1, <1>2, <1>5, <3>1, <3>2, <3>3, <3>6 DEF Inside
  <2>5. CASE Last(open).object
    <3>1. pendings # <<>>
      BY <1>5, <2>5 DEF NoMember, InObject
    <3>2. Len(pendings) \in 1 .. Len(pendings)
      BY <1>1, <3>1, EmptySeq
    <3>3. scratch_items' = ids /\ scratch_members' = [pendings EXCEPT ![Len(pendings)].id = id]
      BY <1>5, <2>5 DEF Complete, InObject, InArray
    <3>4. /\ Len(scratch_members') = Len(pendings)
          /\ \A i \in 1 .. Len(pendings) :
                scratch_members'[i].id = IF i = Len(pendings) THEN id ELSE pendings[i].id
      BY <3>2, <3>3, SetIdType
    <3>5. DOMAIN scratch_members' = DOMAIN pendings
      BY <3>3
    <3>6. EndOf(m) = Len(pendings)
      <4>1. \A k : EndOf(k)' = EndIn(open, Len(scratch_items'), Len(scratch_members'), k)
        BY DEF EndOf
      <4>2. EndIn(open, Len(scratch_items'), Len(scratch_members'), m) = Len(scratch_members')
        BY <1>5, <2>5, EndInnermost
      <4>3. \A k : k = m => EndOf(k)' = Len(pendings)
        BY <3>4, <4>1, <4>2
      <4>4. \A k \in 1 .. m : k = m => EndOf(k)' = EndOf(k) + 0
        BY <2>2, <2>5 DEF Completed
      <4>5. EndOf(m) + 0 = Len(pendings)
        BY <2>1, <4>3, <4>4
      <4>6. EndOf(m) \in Nat
        BY <1>3, <2>1, <2>3, <2>5, StackTypes DEF WaitingObjects
      <4>7. QED
        BY <4>5, <4>6
    <3>7. Awaited' = Awaited \ {Len(pendings)} /\ Len(pendings) \in Awaited
      BY <2>3, <2>5, <3>6, CompletedAwaited
    <3>8. Cardinality(Awaited') = Cardinality(Awaited) - 1
      BY <1>2, <3>7, FS_RemoveElement
    <3>9. ASSUME NEW x
          PROVE  HeldIn(scratch_items', scratch_members', Awaited', x)
                   <=> HeldIn(ids, pendings, Awaited, x) \/ x = id
      <4>1. DOMAIN scratch_members' \ Awaited' = (DOMAIN pendings \ Awaited) \cup {Len(pendings)}
        BY <1>1, <3>2, <3>5, <3>7
      <4>2. (\E i \in DOMAIN scratch_members' \ Awaited' : scratch_members'[i].id = x)
              <=> (\E i \in DOMAIN pendings \ Awaited : scratch_members'[i].id = x)
                    \/ scratch_members'[Len(pendings)].id = x
        BY <4>1, SMTT(30)
      <4>3. \A i \in DOMAIN pendings \ Awaited : scratch_members'[i].id = pendings[i].id
        BY <1>1, <3>4, <3>7
      <4>4. QED
        BY <3>2, <3>3, <3>4, <4>2, <4>3 DEF HeldIn, ItemsHold, MembersHold
    <3>10. Len(scratch_items') + Len(scratch_members') + Cardinality(Awaited)
             = Len(ids) + Len(pendings) + Cardinality(Awaited') + 1
      <4> DEFINE before == Cardinality(Awaited)
                 after == Cardinality(Awaited')
                 i == Len(ids)
                 p == Len(pendings)
      <4>1. i \in Nat /\ p \in Nat /\ before \in Nat /\ after = before - 1
            /\ Len(scratch_items') = i /\ Len(scratch_members') = p
        BY <1>1, <1>2, <3>3, <3>4, <3>8
      <4> HIDE DEF before, after, i, p
      <4>2. i + p + before = i + p + after + 1
        BY <4>1
      <4>3. QED
        BY <4>1, <4>2 DEF before, after, i, p
    <3>11. QED
      BY <1>5, <3>4, <3>9, <3>10 DEF Inside
  <2>6. QED
    BY <2>4, <2>5
<1>6. QED
  BY <1>4, <1>5

LEMMA HeldMeans ==
    \A x : Held(x) <=> \/ ItemsHold(items, x) \/ MembersHold(members, {}, x)
                       \/ HeldIn(scratch_items, scratch_members, Awaited, x)
  BY DEF Held, HeldIn, ItemsHold, MembersHold

LEMMA LeafCounted ==
    ASSUME TypeOK, TypeOK', Shaped, NodesHeld, PlacesCounted, LeafValue,
           ~NoMember(stack, scratch_members)
    PROVE  NodesHeld' /\ PlacesCounted' /\ Len(scratch_members') = Len(scratch_members)
           /\ Len(slots') = Len(slots) + 1
<1>1. /\ Completed(Len(stack)) /\ Complete(Len(slots), stack, scratch_items, scratch_members)
      /\ UNCHANGED <<stack, items, members>>
  BY LeafCompletes
<1>2. Len(slots') = Len(slots) + 1 /\ Len(slots) \in Nat
  <2>1. PICK t \in Scalar : slots' = Append(slots, Leaf(t))
    BY LeafCompletes
  <2>2. slots \in Seq(Node) /\ Leaf(t) \in Node
    BY DEF TypeOK, ArenaOK, Node, Leaf
  <2>3. QED
    BY <2>1, <2>2, AppendProperties, LenProperties
<1>3. /\ \A x : HeldIn(scratch_items', scratch_members', Awaited', x)
                  <=> \/ HeldIn(scratch_items, scratch_members, Awaited, x)
                      \/ stack # <<>> /\ x = Len(slots)
      /\ Len(scratch_items') + Len(scratch_members') + Cardinality(Awaited)
           = Len(scratch_items) + Len(scratch_members) + Cardinality(Awaited') + Inside(stack)
      /\ Len(scratch_members') = Len(scratch_members)
  <2>1. /\ stack \in Seq(OpenEntry) /\ scratch_items \in Seq(Id)
        /\ scratch_members \in Seq(PendingMember) /\ Len(slots) \in Id /\ stack' = stack
    BY <1>1, <1>2, StackTypes DEF TypeOK, ScratchOK, Id
  <2>2. QED
    BY <1>1, <2>1, CompleteHeld
<1>4. \A x : Held(x)' <=> Held(x) \/ (stack # <<>> /\ x = Len(slots))
  <2>1. \A x : Held(x)' <=> \/ ItemsHold(items', x) \/ MembersHold(members', {}, x)
                            \/ HeldIn(scratch_items', scratch_members', Awaited', x)
    BY DEF Held, HeldIn, ItemsHold, MembersHold
  <2>2. QED
    BY <1>1, <1>3, <2>1, HeldMeans
<1>5. stack = <<>> => slots = <<>> /\ Len(slots) = 0
  <2>1. expect # "Separator"
    BY DEF LeafValue, AtValue
  <2>2. QED
    BY <2>1, EmptySeq DEF Shaped, Outside
<1>6. NodesHeld'
  <2> SUFFICES ASSUME NEW x \in Int
               PROVE  Held(x)' <=> /\ x \in 0 .. Len(slots') - 1
                                   /\ ~(stack = <<>> /\ x = Len(slots') - 1)
    BY <1>1 DEF NodesHeld
  <2>1. Held(x) <=> x \in 0 .. Len(slots) - 1 /\ ~(stack = <<>> /\ x = Len(slots) - 1)
    BY DEF NodesHeld
  <2>2. CASE stack = <<>>
    BY <1>2, <1>4, <1>5, <2>1, <2>2
  <2>3. CASE stack # <<>>
    BY <1>2, <1>4, <2>1, <2>3
  <2>4. QED
    BY <2>2, <2>3
<1>7. PlacesCounted'
  <2> DEFINE n == Len(slots)
             i == Len(items)
             j == Len(members)
             k == Len(scratch_items)
             l == Len(scratch_members)
             c == Cardinality(Awaited)
             longer == Len(scratch_items')
             after == Cardinality(Awaited')
             in == Inside(stack)
  <2>1. /\ n \in Nat /\ i \in Nat /\ j \in Nat /\ k \in Nat /\ l \in Nat /\ c \in Nat
        /\ longer \in Nat
    BY AwaitedFinite, LenProperties DEF TypeOK, ArenaOK, ScratchOK, Shaped
  <2>2. i + j + k + l = n + c - (IF RootMade THEN 1 ELSE 0)
    BY DEF PlacesCounted
  <2>3. longer + l + c = k + l + after + in
    BY <1>3
  <2>4. ~RootMade
    BY <1>5 DEF RootMade
  <2>5. (IF RootMade' THEN 1 ELSE 0) = 1 - in /\ in \in 0 .. 1
    <3>1. slots' # <<>>
      BY <1>2, EmptySeq DEF TypeOK, ArenaOK
    <3>2. QED
      BY <1>1, <3>1 DEF RootMade, Inside
  <2>6. after \in Nat
    <3>1. (TypeOK /\ Nested => IsFiniteSet(Awaited) /\ Cardinality(Awaited) \in Nat)'
      BY AwaitedFinite, PTL
    <3>2. QED
      BY <1>1, <3>1, CompletedShaped DEF Shaped
  <2>7. PlacesCounted' <=> i + j + longer + l = n + 1 + after - (IF RootMade' THEN 1 ELSE 0)
    BY <1>1, <1>2, <1>3 DEF PlacesCounted
  <2> HIDE DEF n, i, j, k, l, c, longer, after, in
  <2>8. QED
    BY <2>1, <2>2, <2>3, <2>4, <2>5, <2>6, <2>7
<1>8. QED
  BY <1>2, <1>3, <1>6, <1>7

(* The children moved to the arena are held there. *)
LEMMA ChildrenMoved ==
    ASSUME NEW S, NEW list \in Seq(S), NEW k \in Nat, k <= Len(list)
    PROVE  LET moved == SubSeq(list, k + 1, Len(list))
           IN  /\ Len(moved) = Len(list) - k /\ Len(Dropped(list, k)) = k
               /\ \A i \in 1 .. k : Dropped(list, k)[i] = list[i]
               /\ \A i \in 1 .. Len(list) - k : moved[i] = list[k + i]
<1> DEFINE moved == SubSeq(list, k + 1, Len(list))
<1>1. Len(list) \in Nat
  BY LenProperties
<1>2. Len(moved) = Len(list) - k
  BY <1>1, SuffixType
<1>3. \A i \in 1 .. Len(list) - k : moved[i] = list[k + i]
  BY <1>2, SuffixElements
<1>4. Len(Dropped(list, k)) = k
  BY DroppedLen
<1>5. \A i \in 1 .. k : Dropped(list, k)[i] = list[i]
  BY <1>4, DroppedType
<1>6. QED
  BY <1>2, <1>3, <1>4, <1>5

LEMMA JoinedHolds ==
    ASSUME NEW S, NEW a \in Seq(S), NEW b \in Seq(S), NEW V
    PROVE  (\E i \in DOMAIN (a \o b) : (a \o b)[i] \in V)
             <=> (\E i \in 1 .. Len(a) : a[i] \in V) \/ (\E i \in 1 .. Len(b) : b[i] \in V)
<1> DEFINE both == a \o b
           m == Len(a)
           n == Len(b)
<1>1. /\ m \in Nat /\ n \in Nat /\ Len(both) = m + n /\ DOMAIN both = 1 .. m + n
      /\ \A i \in 1 .. m : both[i] = a[i]
      /\ \A i \in m + 1 .. m + n : both[i] = b[i - m]
  BY ConcatProperties, LenProperties
<1> HIDE DEF both, m, n
<1>2. ASSUME NEW i \in DOMAIN both, both[i] \in V
      PROVE  (\E j \in 1 .. m : a[j] \in V) \/ (\E j \in 1 .. n : b[j] \in V)
  <2>1. CASE i \in 1 .. m
    BY <1>1, <1>2, <2>1
  <2>2. CASE i \in m + 1 .. m + n
    <3>1. i - m \in 1 .. n /\ b[i - m] \in V
      BY <1>1, <1>2, <2>2
    <3>2. QED
      BY <3>1
  <2>3. i \in 1 .. m \/ i \in m + 1 .. m + n
    BY <1>1
  <2>4. QED
    BY <2>1, <2>2, <2>3
<1>3. ASSUME NEW i \in 1 .. m, a[i] \in V
      PROVE  i \in DOMAIN both /\ both[i] \in V
  BY <1>1, <1>3
<1>4. ASSUME NEW i \in 1 .. n, b[i] \in V
      PROVE  m + i \in DOMAIN both /\ both[m + i] \in V
  <2>1. m + i \in m + 1 .. m + n /\ m + i - m = i
    BY <1>1
  <2>2. both[m + i] = b[m + i - m]
    BY <1>1, <2>1
  <2>3. QED
    BY <1>1, <1>4, <2>1, <2>2
<1>5. QED
  BY <1>2, <1>3, <1>4 DEF both, m, n

LEMMA CutHolds ==
    ASSUME NEW S, NEW list \in Seq(S), NEW k \in Nat, k <= Len(list), NEW V,
           NEW awaited \in SUBSET (1 .. k)
    PROVE  (\E i \in DOMAIN list \ awaited : list[i] \in V)
             <=> \/ \E i \in DOMAIN Dropped(list, k) \ awaited : Dropped(list, k)[i] \in V
                 \/ \E i \in 1 .. Len(list) - k : list[k + i] \in V
<1> DEFINE n == Len(list)
           left == Dropped(list, k)
<1>1. n \in Nat /\ DOMAIN list = 1 .. n /\ DOMAIN left = 1 .. k
  BY DroppedType, DroppedLen, LenProperties
<1>2. \A i \in 1 .. k : left[i] = list[i]
  BY ChildrenMoved
<1> HIDE DEF left, n
<1>3. ASSUME NEW i \in DOMAIN list \ awaited, list[i] \in V
      PROVE  \/ \E j \in DOMAIN left \ awaited : left[j] \in V
             \/ \E j \in 1 .. n - k : list[k + j] \in V
  <2>1. CASE i <= k
    <3>1. i \in DOMAIN left \ awaited /\ left[i] \in V
      BY <1>1, <1>2, <1>3, <2>1
    <3>2. QED
      BY <3>1
  <2>2. CASE i > k
    <3>1. i - k \in 1 .. n - k /\ list[k + (i - k)] \in V
      BY <1>1, <1>3, <2>2
    <3>2. QED
      BY <3>1
  <2>3. QED
    BY <1>1, <2>1, <2>2
<1>4. ASSUME NEW i \in DOMAIN left \ awaited, left[i] \in V
      PROVE  i \in DOMAIN list \ awaited /\ list[i] \in V
  <2>1. k <= n
    BY DEF n
  <2>2. QED
    BY <1>1, <1>2, <1>4, <2>1
<1>5. ASSUME NEW i \in 1 .. n - k, list[k + i] \in V
      PROVE  k + i \in DOMAIN list \ awaited
  BY <1>1, <1>5
<1>6. QED
  BY <1>3, <1>4, <1>5 DEF left, n

(* What a container's children were held by, the arena holds. *)
LEMMA ItemsMoved ==
    ASSUME NEW before \in Seq(Id), NEW list \in Seq(Id), NEW k \in Nat, k <= Len(list), NEW x
    PROVE  /\ \/ ItemsHold(before \o SubSeq(list, k + 1, Len(list)), x)
              \/ ItemsHold(Dropped(list, k), x)
              <=> ItemsHold(before, x) \/ ItemsHold(list, x)
           /\ Len(before \o SubSeq(list, k + 1, Len(list))) + Len(Dropped(list, k))
                = Len(before) + Len(list)
<1> DEFINE moved == SubSeq(list, k + 1, Len(list))
           after == before \o moved
           left == Dropped(list, k)
<1>1. /\ Len(moved) = Len(list) - k /\ Len(left) = k
      /\ \A i \in 1 .. Len(list) - k : moved[i] = list[k + i]
  BY ChildrenMoved
<1>2. moved \in Seq(Id) /\ Len(list) \in Nat /\ Len(before) \in Nat
      /\ DOMAIN before = 1 .. Len(before)
  BY SuffixType, LenProperties
<1>3. (\E i \in DOMAIN list : list[i] \in {x})
        <=> \/ \E i \in DOMAIN left : left[i] \in {x}
            \/ \E i \in 1 .. Len(list) - k : list[k + i] \in {x}
  <2>1. (\E i \in DOMAIN list \ {} : list[i] \in {x})
          <=> \/ \E i \in DOMAIN left \ {} : left[i] \in {x}
              \/ \E i \in 1 .. Len(list) - k : list[k + i] \in {x}
    <3>1. {} \in SUBSET (1 .. k)
      OBVIOUS
    <3>2. QED
      BY <3>1, CutHolds
  <2>2. QED
    BY <2>1
<1> HIDE DEF moved, left
<1>4. (\E i \in DOMAIN after : after[i] \in {x})
        <=> (\E i \in 1 .. Len(before) : before[i] \in {x}) \/ (\E i \in 1 .. Len(moved) : moved[i] \in {x})
  BY <1>2, JoinedHolds
<1>5. Len(after) = Len(before) + Len(moved)
  BY <1>2, ConcatProperties
<1> HIDE DEF after
<1>6. (\E i \in 1 .. Len(moved) : moved[i] \in {x}) <=> (\E i \in 1 .. Len(list) - k : list[k + i] \in {x})
  BY <1>1
<1>7. Len(after) + Len(left) = Len(before) + Len(list)
  BY <1>1, <1>2, <1>5
<1>8. ItemsHold(after, x) \/ ItemsHold(left, x) <=> ItemsHold(before, x) \/ ItemsHold(list, x)
  BY <1>2, <1>3, <1>4, <1>6 DEF ItemsHold
<1>9. QED
  BY <1>7, <1>8 DEF after, left, moved

LEMMA MembersMoved ==
    ASSUME NEW M, \A v \in M : v.id \in Id, NEW before \in Seq(M), NEW added \in Seq(M),
           NEW list \in Seq(PendingMember), NEW k \in Nat, k <= Len(list),
           Len(added) = Len(list) - k,
           \A i \in 1 .. Len(list) - k : added[i].id = list[k + i].id,
           NEW awaited \in SUBSET (1 .. k), NEW x
    PROVE  /\ \/ MembersHold(before \o added, {}, x)
              \/ MembersHold(Dropped(list, k), awaited, x)
              <=> MembersHold(before, {}, x) \/ MembersHold(list, awaited, x)
           /\ Len(before \o added) + Len(Dropped(list, k)) = Len(before) + Len(list)
<1> DEFINE left == Dropped(list, k)
           after == before \o added
           V == {v \in M : v.id = x}
           W == {v \in PendingMember : v.id = x}
<1>1. /\ Len(left) = k /\ left \in Seq(PendingMember)
      /\ Len(list) \in Nat /\ Len(before) \in Nat /\ DOMAIN list = 1 .. Len(list)
      /\ DOMAIN before = 1 .. Len(before) /\ DOMAIN left = 1 .. k
  BY DroppedType, DroppedLen, LenProperties
<1>2. (\E i \in DOMAIN list \ awaited : list[i] \in W)
        <=> \/ \E i \in DOMAIN left \ awaited : left[i] \in W
            \/ \E i \in 1 .. Len(list) - k : list[k + i] \in W
  <2> HIDE DEF W
  <2>1. QED
    BY CutHolds
<1>3. (\E i \in DOMAIN after : after[i] \in V)
        <=> (\E i \in 1 .. Len(before) : before[i] \in V) \/ (\E i \in 1 .. Len(added) : added[i] \in V)
  <2> HIDE DEF V
  <2>1. QED
    BY JoinedHolds
<1>4. after \in Seq(M) /\ Len(after) = Len(before) + Len(added)
  BY ConcatProperties
<1> HIDE DEF after, left
<1>5. Len(after) + Len(left) = Len(before) + Len(list)
  BY <1>1, <1>4
<1>6. \A i \in DOMAIN after : after[i] \in V <=> after[i].id = x
  <2>1. \A i \in DOMAIN after : after[i] \in M
    BY <1>4, LenProperties, ElementOfSeq
  <2>2. QED
    BY <2>1
<1>7. \A i \in 1 .. Len(before) : before[i] \in V <=> before[i].id = x
  <2>1. \A i \in 1 .. Len(before) : before[i] \in M
    BY ElementOfSeq
  <2>2. QED
    BY <2>1
<1>8. \A i \in 1 .. Len(list) - k : added[i] \in V <=> list[k + i].id = x
  <2>1. \A i \in 1 .. Len(list) - k : added[i] \in M /\ added[i].id = list[k + i].id
    BY ElementOfSeq
  <2>2. QED
    BY <2>1
<1>9. \A i \in DOMAIN list : list[i] \in W <=> list[i].id = x
  <2>1. \A i \in DOMAIN list : list[i] \in PendingMember
    BY <1>1, ElementOfSeq
  <2>2. QED
    BY <2>1
<1>10. \A i \in DOMAIN left : left[i] \in W <=> left[i].id = x
  <2>1. \A i \in DOMAIN left : left[i] \in PendingMember
    BY <1>1, ElementOfSeq
  <2>2. QED
    BY <2>1
<1>11. \A i \in 1 .. Len(list) - k : k + i \in DOMAIN list
  BY <1>1
<1> HIDE DEF V, W
<1>12. MembersHold(after, {}, x)
         <=> MembersHold(before, {}, x) \/ \E i \in 1 .. Len(list) - k : list[k + i].id = x
  BY <1>1, <1>3, <1>6, <1>7, <1>8 DEF MembersHold
<1>13. MembersHold(list, awaited, x)
         <=> MembersHold(left, awaited, x) \/ \E i \in 1 .. Len(list) - k : list[k + i].id = x
  BY <1>2, <1>9, <1>10, <1>11 DEF MembersHold
<1>14. QED
  BY <1>5, <1>12, <1>13 DEF after, left

LEMMA CloseHolds ==
    ASSUME TypeOK, TypeOK', Shaped, expect # "Value", NEW outer, NEW top, ClosedInto(outer, top)
    PROVE  /\ \A x : Held(x)' <=> Held(x) \/ (outer # <<>> /\ x = Len(slots))
           /\ Len(items') + Len(members') + Len(scratch_items') + Len(scratch_members')
                + Cardinality(Awaited)
              = Len(items) + Len(members) + Len(scratch_items) + Len(scratch_members)
                + Cardinality(Awaited') + Inside(outer)
           /\ Len(members') + Len(scratch_members') = Len(members) + Len(scratch_members)
           /\ Len(slots') = Len(slots) + 1
<1> DEFINE k == top.start
           m == Len(outer)
<1>1. /\ Completed(m) /\ m \in Nat
      /\ top.object \in BOOLEAN /\ k \in Nat
      /\ k <= IF top.object THEN Len(scratch_members) ELSE Len(scratch_items)
      /\ \A i \in 1 .. m : stack[i].object = top.object => EndOf(i) <= k
  BY CloseCompletes
<1>2. outer \in Seq(OpenEntry) /\ stack' = outer
  BY DEF ClosedInto
<1>3. /\ scratch_items \in Seq(Id) /\ scratch_members \in Seq(PendingMember)
      /\ items \in Seq(Id) /\ members \in Seq([name : Names, id : Id]) /\ slots \in Seq(Node)
  BY DEF TypeOK, ScratchOK, ArenaOK
<1>4. /\ Len(items) \in Nat /\ Len(members) \in Nat /\ Len(scratch_items) \in Nat
      /\ Len(scratch_members) \in Nat /\ Len(slots) \in Nat
      /\ Len(items') \in Nat /\ Len(members') \in Nat /\ Len(scratch_items') \in Nat
      /\ Len(scratch_members') \in Nat
  BY LenProperties DEF TypeOK, ScratchOK, ArenaOK
<1>5. Len(slots') = Len(slots) + 1
  <2>1. \E node : slots' = Append(slots, node)
    BY DEF ClosedInto, CloseObject, CloseArray
  <2>2. PICK node : slots' = Append(slots, node)
    BY <2>1
  <2>3. slots \in Seq(Node \cup {node})
    BY <1>3
  <2>4. QED
    BY <2>2, <2>3, AppendProperties
<1>6. Cardinality(Awaited) \in Nat /\ Cardinality(Awaited') \in Nat
  <2>1. (TypeOK /\ Nested => IsFiniteSet(Awaited) /\ Cardinality(Awaited) \in Nat)'
    BY AwaitedFinite, PTL
  <2>2. Nested'
    BY <1>1, CompletedShaped DEF Shaped
  <2>3. QED
    BY <2>1, <2>2, AwaitedFinite DEF Shaped
<1>7. \A x : Held(x)' <=> \/ ItemsHold(items', x)
                          \/ MembersHold(members', {}, x)
                          \/ HeldIn(scratch_items', scratch_members', Awaited', x)
  BY DEF Held, HeldIn, ItemsHold, MembersHold
<1>8. CASE top.object
  <2>1. PICK left, moved, added, after :
              /\ left = Dropped(scratch_members, k)
              /\ moved = SubSeq(scratch_members, k + 1, Len(scratch_members))
              /\ added = [i \in DOMAIN moved |-> [name |-> moved[i].name, id |-> moved[i].id]]
              /\ after = members \o added
    OBVIOUS
  <2>2. /\ members' = after /\ items' = items
        /\ Complete(Len(slots), outer, scratch_items, left)
        /\ ~NoMember(outer, left)
    BY <1>8, <2>1 DEF ClosedInto, CloseObject
  <2>3. Awaited \in SUBSET (1 .. k)
    <3> SUFFICES ASSUME NEW i \in Awaited PROVE i \in 1 .. k
      OBVIOUS
    <3>1. AwaitedMeans
      BY AwaitedAre DEF Shaped
    <3>2. PICK j \in WaitingObjects : i = EndOf(j)
      BY <3>1 DEF AwaitedMeans
    <3>3. j \in 1 .. m /\ stack[j].object
      BY <1>1 DEF Completed
    <3>4. stack[j].object = top.object
      <4>1. j \in 1 .. Len(stack)
        BY StackTypes DEF WaitingObjects
      <4>2. stack[j].object \in BOOLEAN
        BY <4>1, StackTypes
      <4>3. QED
        BY <1>1, <1>8, <3>3, <4>2
    <3>5. i <= k
      BY <1>1, <3>2, <3>3, <3>4
    <3>6. i \in 1 .. Len(scratch_members)
      BY <3>1 DEF AwaitedMeans
    <3>7. QED
      BY <1>1, <1>4, <3>5, <3>6
  <2>4. left \in Seq(PendingMember) /\ k <= Len(scratch_members)
    BY <1>1, <1>3, <1>8, <2>1, DroppedType
  <2>5. \A x : /\ \/ MembersHold(members', {}, x)
                  \/ MembersHold(left, Awaited, x)
                  <=> \/ MembersHold(members, {}, x)
                      \/ MembersHold(scratch_members, Awaited, x)
               /\ Len(members') + Len(left) = Len(members) + Len(scratch_members)
    <3> SUFFICES ASSUME NEW x
                 PROVE  /\ \/ MembersHold(members', {}, x)
                           \/ MembersHold(left, Awaited, x)
                           <=> \/ MembersHold(members, {}, x)
                               \/ MembersHold(scratch_members, Awaited, x)
                        /\ Len(members') + Len(left) = Len(members) + Len(scratch_members)
      OBVIOUS
    <3>1. /\ \/ MembersHold(after, {}, x)
             \/ MembersHold(left, Awaited, x)
             <=> \/ MembersHold(members, {}, x)
                 \/ MembersHold(scratch_members, Awaited, x)
          /\ Len(after) + Len(left) = Len(members) + Len(scratch_members)
      <4> DEFINE M == [name : Names, id : Id]
      <4>1. /\ members \in Seq(M) /\ scratch_members \in Seq(PendingMember)
            /\ k \in Nat /\ k <= Len(scratch_members) /\ \A v \in M : v.id \in Id
        BY <1>1, <1>3, <2>4
      <4>2. /\ moved \in Seq(PendingMember) /\ Len(moved) = Len(scratch_members) - k
            /\ \A i \in 1 .. Len(scratch_members) - k : moved[i] = scratch_members[k + i]
        BY ZenonT(40), <2>1, <4>1, SuffixType, ChildrenMoved
      <4>3. /\ DOMAIN moved = 1 .. Len(moved) /\ Len(moved) \in Nat
            /\ \A i \in 1 .. Len(moved) : moved[i] \in PendingMember
        BY <4>2, LenProperties, ElementOfSeq
      <4>4. added \in [1 .. Len(moved) -> M] /\ \A i \in 1 .. Len(moved) : added[i].id = moved[i].id
        BY <2>1, <4>3 DEF PendingMember
      <4> HIDE DEF M, k
      <4>5. added \in Seq(M) /\ Len(added) = Len(scratch_members) - k
        BY <4>2, <4>3, <4>4, FunctionIsSeq
      <4>6. \A i \in 1 .. Len(scratch_members) - k : added[i].id = scratch_members[k + i].id
        BY <4>2, <4>4
      <4>7. /\ \/ MembersHold(members \o added, {}, x)
               \/ MembersHold(Dropped(scratch_members, k), Awaited, x)
               <=> MembersHold(members, {}, x) \/ MembersHold(scratch_members, Awaited, x)
            /\ Len(members \o added) + Len(Dropped(scratch_members, k))
                 = Len(members) + Len(scratch_members)
        BY ONLY <2>3, <4>1, <4>5, <4>6, MembersMoved
      <4>8. QED
        BY <2>1, <4>7
    <3>2. QED
      BY <2>2, <3>1
  <2> HIDE DEF k
  <2>6. /\ \A x : HeldIn(scratch_items', scratch_members', Awaited', x)
                    <=> HeldIn(scratch_items, left, Awaited, x) \/ (outer # <<>> /\ x = Len(slots))
        /\ Len(scratch_items') + Len(scratch_members') + Cardinality(Awaited)
             = Len(scratch_items) + Len(left) + Cardinality(Awaited') + Inside(outer)
        /\ Len(scratch_members') = Len(left)
    <3>1. Len(slots) \in Id
      BY <1>4 DEF Id
    <3>2. QED
      BY <1>1, <1>2, <1>3, <2>2, <2>4, <3>1, CompleteHeld
  <2>7. \A x : Held(x)' <=> Held(x) \/ (outer # <<>> /\ x = Len(slots))
    <3> SUFFICES ASSUME NEW x
                 PROVE  Held(x)' <=> Held(x) \/ (outer # <<>> /\ x = Len(slots))
      OBVIOUS
    <3>1. HeldIn(scratch_items', scratch_members', Awaited', x)
            <=> HeldIn(scratch_items, left, Awaited, x) \/ (outer # <<>> /\ x = Len(slots))
      BY <2>6
    <3>2. \/ MembersHold(members', {}, x)
          \/ MembersHold(left, Awaited, x)
          <=> \/ MembersHold(members, {}, x)
              \/ MembersHold(scratch_members, Awaited, x)
      BY <2>5
    <3>3. Held(x)' <=> \/ ItemsHold(items, x)
                       \/ MembersHold(members', {}, x)
                       \/ HeldIn(scratch_items', scratch_members', Awaited', x)
      BY <1>7, <2>2
    <3>4. HeldIn(scratch_items, left, Awaited, x)
            <=> \/ ItemsHold(scratch_items, x)
                \/ MembersHold(left, Awaited, x)
      BY DEF HeldIn
    <3>5. Held(x) <=> \/ ItemsHold(items, x)
                      \/ MembersHold(members, {}, x)
                      \/ ItemsHold(scratch_items, x)
                      \/ MembersHold(scratch_members, Awaited, x)
      BY HeldMeans DEF HeldIn
    <3>6. QED
      BY <3>1, <3>2, <3>3, <3>4, <3>5
  <2>8. /\ Len(members') + Len(left) = Len(members) + Len(scratch_members)
        /\ Len(items') = Len(items) /\ Len(left) \in Nat
    BY <2>2, <2>4, <2>5, LenProperties
  <2>9. Inside(outer) \in Nat
    BY DEF Inside
  <2> DEFINE before == Cardinality(Awaited)
             awaited == Cardinality(Awaited')
             in == Inside(outer)
             l == Len(left)
  <2>10. /\ before \in Nat /\ awaited \in Nat /\ in \in Nat /\ l \in Nat
        /\ Len(members') + l = Len(members) + Len(scratch_members)
        /\ Len(items') = Len(items)
        /\ Len(scratch_items') + Len(scratch_members') + before = Len(scratch_items) + l + awaited + in
        /\ Len(scratch_members') = l
    BY <1>6, <2>6, <2>8, <2>9
  <2> HIDE DEF before, awaited, in, l
  <2>11. Len(items') + Len(members') + Len(scratch_items') + Len(scratch_members') + before
          = Len(items) + Len(members) + Len(scratch_items) + Len(scratch_members) + awaited + in
    BY <1>4, <2>10, SMTT(30)
  <2>12. QED
    BY <1>5, <2>7, <2>10, <2>11 DEF before, awaited, in
<1>9. CASE ~top.object
  <2>1. PICK left, after :
              /\ left = Dropped(scratch_items, k)
              /\ after = items \o SubSeq(scratch_items, k + 1, Len(scratch_items))
    OBVIOUS
  <2>2. /\ items' = after /\ members' = members
        /\ Complete(Len(slots), outer, left, scratch_members)
        /\ ~NoMember(outer, scratch_members)
    BY <1>9, <2>1 DEF ClosedInto, CloseArray
  <2>3. left \in Seq(Id) /\ k <= Len(scratch_items)
    BY <1>1, <1>3, <1>9, <2>1, DroppedType
  <2>4. \A x : /\ \/ ItemsHold(items', x)
                  \/ ItemsHold(left, x)
                  <=> \/ ItemsHold(items, x)
                      \/ ItemsHold(scratch_items, x)
               /\ Len(items') + Len(left) = Len(items) + Len(scratch_items)
    <3> SUFFICES ASSUME NEW x
                 PROVE  /\ \/ ItemsHold(items', x)
                           \/ ItemsHold(left, x)
                           <=> \/ ItemsHold(items, x)
                               \/ ItemsHold(scratch_items, x)
                        /\ Len(items') + Len(left) = Len(items) + Len(scratch_items)
      OBVIOUS
    <3>1. /\ \/ ItemsHold(after, x)
             \/ ItemsHold(left, x)
             <=> \/ ItemsHold(items, x)
                 \/ ItemsHold(scratch_items, x)
          /\ Len(after) + Len(left) = Len(items) + Len(scratch_items)
      <4>1. /\ items \in Seq(Id) /\ scratch_items \in Seq(Id) /\ k \in Nat
            /\ k <= Len(scratch_items)
        BY <1>1, <1>3, <2>3
      <4> HIDE DEF k
      <4>2. QED
        BY ONLY <2>1, <4>1, ItemsMoved
    <3>2. QED
      BY <2>2, <3>1
  <2> HIDE DEF k
  <2>5. /\ \A x : HeldIn(scratch_items', scratch_members', Awaited', x)
                    <=> HeldIn(left, scratch_members, Awaited, x) \/ (outer # <<>> /\ x = Len(slots))
        /\ Len(scratch_items') + Len(scratch_members') + Cardinality(Awaited)
             = Len(left) + Len(scratch_members) + Cardinality(Awaited') + Inside(outer)
        /\ Len(scratch_members') = Len(scratch_members)
    <3>1. Len(slots) \in Id
      BY <1>4 DEF Id
    <3>2. QED
      BY <1>1, <1>2, <1>3, <2>2, <2>3, <3>1, CompleteHeld
  <2>6. \A x : Held(x)' <=> Held(x) \/ (outer # <<>> /\ x = Len(slots))
    <3> SUFFICES ASSUME NEW x
                 PROVE  Held(x)' <=> Held(x) \/ (outer # <<>> /\ x = Len(slots))
      OBVIOUS
    <3>1. HeldIn(scratch_items', scratch_members', Awaited', x)
            <=> HeldIn(left, scratch_members, Awaited, x) \/ (outer # <<>> /\ x = Len(slots))
      BY <2>5
    <3>2. \/ ItemsHold(items', x)
          \/ ItemsHold(left, x)
          <=> \/ ItemsHold(items, x)
              \/ ItemsHold(scratch_items, x)
      BY <2>4
    <3>3. Held(x)' <=> \/ ItemsHold(items', x)
                       \/ MembersHold(members, {}, x)
                       \/ HeldIn(scratch_items', scratch_members', Awaited', x)
      BY <1>7, <2>2
    <3>4. HeldIn(left, scratch_members, Awaited, x)
            <=> \/ ItemsHold(left, x)
                \/ MembersHold(scratch_members, Awaited, x)
      BY DEF HeldIn
    <3>5. Held(x) <=> \/ ItemsHold(items, x)
                      \/ MembersHold(members, {}, x)
                      \/ ItemsHold(scratch_items, x)
                      \/ MembersHold(scratch_members, Awaited, x)
      BY HeldMeans DEF HeldIn
    <3>6. QED
      BY <3>1, <3>2, <3>3, <3>4, <3>5
  <2>7. /\ Len(items') + Len(left) = Len(items) + Len(scratch_items)
        /\ Len(members') = Len(members) /\ Len(left) \in Nat
    BY <2>2, <2>3, <2>4, LenProperties
  <2>8. Inside(outer) \in Nat
    BY DEF Inside
  <2> DEFINE before == Cardinality(Awaited)
             awaited == Cardinality(Awaited')
             in == Inside(outer)
             l == Len(left)
  <2>9. /\ before \in Nat /\ awaited \in Nat /\ in \in Nat /\ l \in Nat
        /\ Len(items') + l = Len(items) + Len(scratch_items)
        /\ Len(members') = Len(members)
        /\ Len(scratch_items') + Len(scratch_members') + before = l + Len(scratch_members) + awaited + in
        /\ Len(scratch_members') = Len(scratch_members)
    BY <1>6, <2>5, <2>7, <2>8
  <2> HIDE DEF before, awaited, in, l
  <2>10. Len(items') + Len(members') + Len(scratch_items') + Len(scratch_members') + before
          = Len(items) + Len(members) + Len(scratch_items) + Len(scratch_members) + awaited + in
    BY <1>4, <2>9
  <2>11. QED
    BY <1>4, <1>5, <2>6, <2>9, <2>10 DEF before, awaited, in
<1>10. QED
  BY <1>1, <1>8, <1>9

-----------------------------------------------------------------------------
(* Every step keeps the shape and the count. *)

(* An operator, so that the invariant stays one formula in the proofs. *)
Building == TypeOK /\ Shaped /\ Counted

(* Nothing is open and nothing is made until the first value begins. *)
LEMMA FirstValue ==
    ASSUME Shaped, expect # "Separator", stack = <<>>
    PROVE  slots = <<>>
  BY DEF Shaped, Outside

LEMMA BytesType ==
    ASSUME TypeOK
    PROVE  /\ Len(slots) \in Nat /\ Len(stack) \in Nat /\ Len(scratch_members) \in Nat
           /\ Len(scratch_items) \in Nat /\ Len(items) \in Nat
           /\ Len(members) \in Nat /\ position \in Nat
  BY LenProperties DEF TypeOK, ArenaOK, ScratchOK, InputOK

LEMMA IdleCounted ==
    ASSUME TypeOK, Counted, Idle, position' \in {position, position + 1}
    PROVE  Counted'
<1>1. NodesHeld' /\ PlacesCounted'
  BY IdleKeeps DEF Counted
<1>2. BytesRead'
  <2> DEFINE n == Len(slots) + Len(stack) + Len(scratch_members) + Len(members)
  <2>1. n \in Nat /\ position \in Nat /\ n <= position
    BY BytesType DEF Counted, BytesRead
  <2>2. BytesRead' <=> n <= position'
    BY DEF BytesRead, Idle, scratch, arena
  <2> HIDE DEF n
  <2>3. QED
    BY <2>1, <2>2
<1>3. QED
  BY <1>1, <1>2 DEF Counted

LEMMA TurnsCounted ==
    ASSUME TypeOK, TypeOK', Shaped, Counted, NEW next, Turns(next), position' = position + 1
    PROVE  Counted'
<1>1. Awaited' = Awaited /\ stack # <<>> /\ UNCHANGED <<scratch, arena>>
  BY TurnsShaped DEF Turns
<1>2. NodesHeld'
  BY <1>1 DEF Counted, NodesHeld, Held, scratch, arena
<1>3. PlacesCounted'
  BY <1>1 DEF Counted, PlacesCounted, RootMade, scratch, arena
<1>4. BytesRead'
  <2> DEFINE n == Len(slots) + Len(stack) + Len(scratch_members) + Len(members)
  <2>1. n \in Nat /\ position \in Nat /\ n <= position
    BY BytesType DEF Counted, BytesRead
  <2>2. BytesRead' <=> n <= position'
    BY <1>1 DEF BytesRead, scratch, arena
  <2> HIDE DEF n
  <2>3. QED
    BY <2>1, <2>2
<1>5. QED
  BY <1>2, <1>3, <1>4 DEF Counted

LEMMA OpenContainerCounted ==
    ASSUME TypeOK, TypeOK', Shaped, Shaped', Counted, OpenContainer
    PROVE  Counted'
<1> DEFINE n == Len(stack)
<1>1. PICK entry \in OpenEntry : Opened(entry)
  BY OpenContainerOpens
<1>2. /\ DOMAIN stack' = 1 .. n + 1 /\ Len(stack') = n + 1
      /\ \A k \in 1 .. n : stack'[k] = stack[k] /\ EndOf(k)' = EndOf(k)
  BY <1>1, OpenedEnds
<1>3. n \in Nat /\ DOMAIN stack = 1 .. n
  BY StackTypes
<1>4. /\ UNCHANGED <<scratch_items, scratch_members, slots, items, members>>
      /\ expect \in {"Value", "ValueOrEnd"} /\ expect' # "Value" /\ position' = position + 1
  BY DEF OpenContainer, AtValue, arena
<1>5. Awaited' = Awaited
  <2>1. WaitingObjects = {k \in 1 .. n : stack[k].object}
    BY <1>3, <1>4, ObjectsWait DEF WaitingObjects
  <2> HIDE DEF n
  <2>2. \A k \in 1 .. n + 1 : Waits(k)' <=> k \in 1 .. n
    BY <1>2, <1>3, <1>4 DEF Waits
  <2>3. WaitingObjects' = {k \in 1 .. n : stack[k].object}
    <3>1. \A k \in 1 .. n : k \in 1 .. n + 1
      BY <1>3
    <3>2. QED
      BY <1>2, <2>2, <3>1 DEF WaitingObjects
  <2>4. WaitingObjects' = WaitingObjects /\ \A k \in WaitingObjects : EndOf(k)' = EndOf(k)
    BY <1>2, <2>1, <2>3
  <2>5. QED
    BY <2>4, AwaitedKept DEF Shaped
<1>6. stack = <<>> => slots = <<>>
  BY <1>4, FirstValue
<1>7. stack' # <<>> /\ (slots = <<>> => Len(slots) = 0)
  BY <1>2, <1>3, EmptySeq
<1>8. NodesHeld'
  <2>1. \A id : Held(id)' <=> Held(id)
    BY <1>4, <1>5 DEF Held
  <2>2. \A id \in Int : Held(id) <=> id \in 0 .. Len(slots) - 1
    BY <1>6, <1>7 DEF Counted, NodesHeld
  <2>3. QED
    BY <1>4, <1>7, <2>1, <2>2 DEF NodesHeld
<1>9. PlacesCounted'
  <2>1. ~RootMade /\ ~RootMade'
    BY <1>6, <1>7 DEF RootMade
  <2>2. QED
    BY <1>4, <1>5, <2>1 DEF Counted, PlacesCounted
<1>10. BytesRead'
  BY <1>2, <1>4, BytesType DEF Counted, BytesRead
<1>11. QED
  BY <1>8, <1>9, <1>10 DEF Counted

LEMMA ColonCounted ==
    ASSUME TypeOK, TypeOK', Shaped, Counted, Colon
    PROVE  Counted'
<1> DEFINE l == Len(scratch_members)
           pending == Pending(name.name, name.offset)
<1>1. /\ UNCHANGED <<stack, scratch_items, slots, items, members>>
      /\ scratch_members' = Append(scratch_members, pending)
      /\ expect = "Colon" /\ position' = position + 1
  BY DEF Colon, arena
<1>2. Awaited' = Awaited \cup {l + 1} /\ Awaited \subseteq 1 .. l
  BY ColonShaped
<1>3. stack # <<>>
  BY <1>1 DEF Shaped, Turn, InObject
<1>4. /\ Len(scratch_members') = l + 1 /\ DOMAIN scratch_members = 1 .. l
      /\ DOMAIN scratch_members' = 1 .. l + 1 /\ l \in Nat
      /\ \A i \in 1 .. l : scratch_members'[i] = scratch_members[i]
  <2>1. scratch_members \in Seq(PendingMember \cup {pending})
        /\ scratch_members' \in Seq(PendingMember \cup {pending})
    BY DEF TypeOK, ScratchOK
  <2> HIDE DEF pending
  <2>2. QED
    BY <1>1, <2>1, AppendProperties, LenProperties
<1> HIDE DEF l
<1>5. DOMAIN scratch_members' \ Awaited' = DOMAIN scratch_members \ Awaited
  BY <1>2, <1>4
<1>6. NodesHeld'
  <2>1. \A id : Held(id)' <=> Held(id)
    <3>1. \A i \in DOMAIN scratch_members \ Awaited : scratch_members'[i] = scratch_members[i]
      BY <1>4
    <3>2. QED
      BY <1>1, <1>5, <3>1 DEF Held
  <2>2. QED
    BY <1>1, <2>1 DEF Counted, NodesHeld
<1>7. PlacesCounted'
  <2>1. IsFiniteSet(Awaited) /\ Cardinality(Awaited) \in Nat
    BY AwaitedFinite DEF Shaped
  <2>2. l + 1 \notin Awaited
    BY <1>2, <1>4
  <2>3. Cardinality(Awaited') = Cardinality(Awaited) + 1
    BY <1>2, <2>1, <2>2, FS_AddElement
  <2>4. ~RootMade /\ ~RootMade'
    BY <1>1, <1>3 DEF RootMade
  <2>5. Len(items) + Len(members) + Len(scratch_items) + l = Len(slots) + Cardinality(Awaited)
    BY <2>1, <2>4, BytesType DEF Counted, PlacesCounted, l
  <2>6. QED
    BY <1>1, <1>4, <2>1, <2>3, <2>4, <2>5, BytesType, SMTT(30) DEF PlacesCounted
<1>8. BytesRead'
  BY <1>1, <1>4, BytesType DEF Counted, BytesRead, l
<1>9. QED
  BY <1>6, <1>7, <1>8 DEF Counted

LEMMA LeafValueCounted ==
    ASSUME TypeOK, TypeOK', Shaped, Counted, LeafValue, ~NoMember(stack, scratch_members)
    PROVE  Counted'
<1>1. /\ NodesHeld' /\ PlacesCounted' /\ Len(scratch_members') = Len(scratch_members)
      /\ Len(slots') = Len(slots) + 1
  BY LeafCounted DEF Counted
<1>2. UNCHANGED <<stack, members>> /\ position' = position + 1
  BY LeafCompletes
<1>3. BytesRead'
  BY <1>1, <1>2, BytesType DEF Counted, BytesRead
<1>4. QED
  BY <1>1, <1>3 DEF Counted

LEMMA CloseCounted ==
    ASSUME TypeOK, TypeOK', Shaped, Counted, expect # "Value", NEW outer, NEW top,
           ClosedInto(outer, top)
    PROVE  Counted'
<1> DEFINE n == Len(slots)
           before == Cardinality(Awaited)
           after == Cardinality(Awaited')
           in == Inside(outer)
           places == Len(items) + Len(members) + Len(scratch_items) + Len(scratch_members)
           places_after ==
             Len(items') + Len(members') + Len(scratch_items') + Len(scratch_members')
<1>1. /\ \A x : Held(x)' <=> Held(x) \/ (outer # <<>> /\ x = n)
      /\ places_after + before = places + after + in
      /\ Len(members') + Len(scratch_members') = Len(members) + Len(scratch_members)
      /\ Len(slots') = n + 1
  BY CloseHolds
<1>2. /\ Completed(Len(outer)) /\ Len(stack) = Len(outer) + 1 /\ Len(outer) \in Nat
      /\ outer \in Seq(OpenEntry)
      /\ stack' = outer /\ position' = position + 1
  BY CloseCompletes DEF ClosedInto
<1>3. stack # <<>>
  BY <1>2, EmptySeq
<1>4. NodesHeld'
  <2> SUFFICES ASSUME NEW x \in Int
               PROVE  Held(x)' <=> /\ x \in 0 .. Len(slots') - 1
                                   /\ ~(stack' = <<>> /\ x = Len(slots') - 1)
    BY DEF NodesHeld
  <2>1. Held(x) <=> x \in 0 .. n - 1
    BY <1>3 DEF Counted, NodesHeld
  <2>2. n \in Nat
    BY BytesType
  <2> HIDE DEF n
  <2>3. QED
    BY <1>1, <1>2, <2>1, <2>2
<1>5. PlacesCounted'
  <2>1. places = n + before
    <3>1. ~RootMade
      BY <1>3 DEF RootMade
    <3>2. places = n + before - 0
      BY <3>1 DEF Counted, PlacesCounted
    <3>3. n \in Nat /\ before \in Nat
      BY BytesType, AwaitedFinite DEF Shaped
    <3> HIDE DEF places, n, before
    <3>4. QED
      BY <3>2, <3>3
  <2>2. (IF RootMade' THEN 1 ELSE 0) = 1 - in /\ in \in 0 .. 1
    <3>1. slots' # <<>>
      BY <1>2 DEF Completed
    <3>2. QED
      BY <1>2, <3>1 DEF RootMade, Inside
  <2>3. n \in Nat /\ before \in Nat /\ after \in Nat /\ places_after \in Nat
    <3>1. n \in Nat /\ before \in Nat
      BY BytesType, AwaitedFinite DEF Shaped
    <3>2. after \in Nat
      <4>1. (TypeOK /\ Nested => IsFiniteSet(Awaited) /\ Cardinality(Awaited) \in Nat)'
        BY AwaitedFinite, PTL
      <4>2. QED
        BY <1>2, <4>1, CompletedShaped DEF Shaped
    <3>3. places_after \in Nat
      <4>1. /\ Len(items') \in Nat /\ Len(members') \in Nat /\ Len(scratch_items') \in Nat
            /\ Len(scratch_members') \in Nat
        BY LenProperties DEF TypeOK, ArenaOK, ScratchOK
      <4>2. QED
        BY <4>1
    <3>4. QED
      BY <3>1, <3>2, <3>3
  <2>4. PlacesCounted' <=> places_after = n + 1 + after - (IF RootMade' THEN 1 ELSE 0)
    BY <1>1 DEF PlacesCounted
  <2> HIDE DEF n, before, after, in, places, places_after
  <2>5. QED
    BY <1>1, <2>1, <2>2, <2>3, <2>4
<1>6. BytesRead'
  <2>1. Len(members') \in Nat /\ Len(scratch_members') \in Nat
    BY LenProperties DEF TypeOK, ArenaOK, ScratchOK
  <2>2. n + Len(stack) + Len(scratch_members) + Len(members) <= position
    BY DEF Counted, BytesRead
  <2>3. n + 1 + Len(outer) + Len(scratch_members') + Len(members') <= position + 1
    <3> DEFINE o == Len(outer)
               d == Len(stack)
               sm == Len(scratch_members)
               m == Len(members)
               sm_after == Len(scratch_members')
               m_after == Len(members')
    <3>1. /\ n \in Nat /\ o \in Nat /\ sm \in Nat /\ m \in Nat /\ position \in Nat
          /\ sm_after \in Nat /\ m_after \in Nat
      BY <1>2, <2>1, BytesType
    <3>2. d = o + 1 /\ m_after + sm_after = m + sm /\ n + d + sm + m <= position
      BY <1>1, <1>2, <2>2
    <3> HIDE DEF n, o, d, sm, m, sm_after, m_after
    <3>3. n + 1 + o + sm_after + m_after <= position + 1
      BY <3>1, <3>2
    <3>4. QED
      BY <3>3 DEF o, sm_after, m_after
  <2>4. QED
    BY <1>1, <1>2, <2>3 DEF BytesRead
<1>7. QED
  BY <1>4, <1>5, <1>6 DEF Counted

LEMMA BuildingNext == Building /\ [Next]_vars => Building'
<1> SUFFICES ASSUME Building, [Next]_vars PROVE Building'
  OBVIOUS
<1>1. TypeOK /\ Shaped /\ Counted
  BY DEF Building
<1>2. TypeOK'
  BY <1>1, NextTyped
<1> SUFFICES Shaped' /\ Counted'
  BY <1>2 DEF Building
<1>3. Idle /\ position' \in {position, position + 1} => Shaped' /\ Counted'
  BY <1>1, IdleKeeps, IdleCounted
<1>4. (\E result : Stop(result)) => Shaped' /\ Counted'
  <2> SUFFICES ASSUME NEW result, Stop(result)
               PROVE  Shaped' /\ Counted'
    OBVIOUS
  <2>1. Idle /\ position' = position
    BY StopIdle
  <2>2. QED
    BY <1>3, <2>1
<1>5. CASE UNCHANGED vars
  BY <1>3, <1>5 DEF Idle, vars, scratch, arena
<1>6. CASE Begin \/ Stops
  <2>1. \E result : Stop(result)
    BY <1>6 DEF Stops, Begin, BadValue, OutOfRange, BadName, NoColon, BadSeparator, RefuseClose,
           Finish, OutOfMemory, Refuse
  <2>2. QED
    BY <1>4, <2>1
<1>7. CASE Disclose \/ SkipWhitespace
  <2>1. Idle /\ position' \in {position, position + 1}
    BY <1>7 DEF Disclose, SkipWhitespace, Idle
  <2>2. QED
    BY <1>3, <2>1
<1>8. CASE OpenContainer
  BY <1>1, <1>2, <1>8, OpenContainerShaped, OpenContainerCounted
<1>9. CASE LeafValue
  <2>1. CASE NoMember(stack, scratch_members)
    <3>1. \E result : Stop(result)
      BY <1>9, <2>1 DEF LeafValue, Refuse
    <3>2. QED
      BY <1>4, <3>1
  <2>2. CASE ~NoMember(stack, scratch_members)
    <3>1. Completed(Len(stack))
      BY <1>1, <1>2, <1>9, <2>2, LeafCompletes
    <3>2. Shaped'
      BY <1>1, <1>2, <3>1, CompletedShaped
    <3>3. QED
      BY <1>1, <1>2, <1>9, <2>2, <3>2, LeafValueCounted
  <2>3. QED
    BY <2>1, <2>2
<1>10. CASE MemberName \/ Comma
  <2>1. \E next : Turns(next)
    BY <1>1, <1>10, MemberNameTurns, CommaTurns
  <2>2. position' = position + 1
    BY <1>10 DEF MemberName, Comma
  <2>3. QED
    BY <1>1, <1>2, <2>1, <2>2, TurnsShaped, TurnsCounted
<1>11. CASE Colon
  BY <1>1, <1>2, <1>11, ColonShaped, ColonCounted
<1>12. CASE Close
  <2>1. PICK outer, top : ClosedInto(outer, top)
    BY <1>1, <1>12, CloseCloses
  <2>2. expect # "Value"
    BY <1>1, <1>12, CloseCloses
  <2>3. Completed(Len(outer))
    BY <1>1, <1>2, <2>1, <2>2, CloseCompletes
  <2>4. Shaped'
    BY <1>1, <1>2, <2>3, CompletedShaped
  <2>5. QED
    BY <1>1, <1>2, <2>1, <2>2, <2>4, CloseCounted
<1>13. QED
  BY <1>5, <1>6, <1>7, <1>8, <1>9, <1>10, <1>11, <1>12 DEF Next, Parse, Stops

LEMMA BuildingInit == Init => Building
<1> SUFFICES ASSUME Init PROVE Building
  OBVIOUS
<1>1. /\ stack = <<>> /\ scratch_items = <<>> /\ scratch_members = <<>>
      /\ slots = <<>> /\ items = <<>> /\ members = <<>> /\ expect = "Value" /\ position = 0
  BY DEF Init
<1>2. DOMAIN <<>> = {} /\ Len(<<>>) = 0
  OBVIOUS
<1>3. Shaped
  BY <1>1, <1>2 DEF Shaped, Nested, Turn, Bottom, Outside
<1>4. Awaited = {}
  BY <1>1, <1>2 DEF Awaited
<1>5. NodesHeld
  BY <1>1, <1>2 DEF NodesHeld, Held
<1>6. PlacesCounted
  <2>1. Cardinality({}) = 0
    BY FS_EmptySet
  <2>2. ~RootMade
    BY <1>1 DEF RootMade
  <2>3. QED
    BY <1>1, <1>2, <1>4, <2>1, <2>2 DEF PlacesCounted
<1>7. BytesRead
  BY <1>1, <1>2 DEF BytesRead
<1>8. QED
  BY <1>3, <1>5, <1>6, <1>7, InitTyped DEF Building, Counted

LEMMA AlwaysBuilding == Spec => []Building
<1>1. QED
  BY BuildingInit, BuildingNext, PTL DEF Spec

-----------------------------------------------------------------------------
(* Every node is held once.                                                *)
LEMMA TaggedSize ==
    ASSUME NEW tag, NEW D, IsFiniteSet(D)
    PROVE  IsFiniteSet({tag} \X D) /\ Cardinality({tag} \X D) = Cardinality(D)
<1>1. IsFiniteSet({tag}) /\ Cardinality({tag}) = 1
  BY FS_Singleton
<1>2. /\ IsFiniteSet({tag} \X D)
      /\ Cardinality({tag} \X D) = Cardinality({tag}) * Cardinality(D)
  BY <1>1, FS_Product
<1>3. Cardinality(D) \in Nat
  BY FS_CardinalityType
<1>4. QED
  BY <1>1, <1>2, <1>3

LEMMA DisjointSize ==
    ASSUME NEW S, NEW T, IsFiniteSet(S), IsFiniteSet(T), S \cap T = {}
    PROVE  IsFiniteSet(S \cup T) /\ Cardinality(S \cup T) = Cardinality(S) + Cardinality(T)
<1>1. Cardinality(S \cap T) = 0
  BY FS_EmptySet
<1>2. Cardinality(S) \in Nat /\ Cardinality(T) \in Nat
  BY FS_CardinalityType
<1>3. /\ IsFiniteSet(S \cup T)
      /\ Cardinality(S \cup T) = Cardinality(S) + Cardinality(T) - Cardinality(S \cap T)
  BY FS_Union
<1>4. QED
  BY <1>1, <1>2, <1>3

LEMMA PlacesSize ==
    ASSUME TypeOK, Nested
    PROVE  Cardinality(Places) =
             Len(items) + Len(members) + Len(scratch_items) + Len(scratch_members)
               - Cardinality(Awaited)
<1> DEFINE A == {1} \X DOMAIN items
           B == {2} \X DOMAIN members
           C == {3} \X DOMAIN scratch_items
           E == DOMAIN scratch_members \ Awaited
           D == {4} \X E
<1>1. Places = ((A \cup B) \cup C) \cup D
  BY DEF Places, Awaited
<1>2. /\ DOMAIN items = 1 .. Len(items) /\ Len(items) \in Nat
      /\ DOMAIN members = 1 .. Len(members) /\ Len(members) \in Nat
      /\ DOMAIN scratch_items = 1 .. Len(scratch_items) /\ Len(scratch_items) \in Nat
      /\ DOMAIN scratch_members = 1 .. Len(scratch_members) /\ Len(scratch_members) \in Nat
  BY StackTypes, LenProperties DEF TypeOK, ScratchOK
<1>3. ASSUME NEW n \in Nat
      PROVE  IsFiniteSet(1 .. n) /\ Cardinality(1 .. n) = n
  BY <1>3, FS_Interval
<1>4. IsFiniteSet(A) /\ Cardinality(A) = Len(items)
  <2>1. IsFiniteSet(DOMAIN items) /\ Cardinality(DOMAIN items) = Len(items)
    BY <1>2, <1>3
  <2>2. IsFiniteSet(A) /\ Cardinality(A) = Cardinality(DOMAIN items)
    BY ONLY <2>1, TaggedSize, Zenon
  <2>3. QED
    BY ONLY <2>1, <2>2
<1>5. IsFiniteSet(B) /\ Cardinality(B) = Len(members)
  <2>1. IsFiniteSet(DOMAIN members) /\ Cardinality(DOMAIN members) = Len(members)
    BY <1>2, <1>3
  <2>2. IsFiniteSet(B) /\ Cardinality(B) = Cardinality(DOMAIN members)
    BY ONLY <2>1, TaggedSize, Zenon
  <2>3. QED
    BY ONLY <2>1, <2>2
<1>6. IsFiniteSet(C) /\ Cardinality(C) = Len(scratch_items)
  <2>1. IsFiniteSet(DOMAIN scratch_items) /\ Cardinality(DOMAIN scratch_items) = Len(scratch_items)
    BY <1>2, <1>3
  <2>2. IsFiniteSet(C) /\ Cardinality(C) = Cardinality(DOMAIN scratch_items)
    BY ONLY <2>1, TaggedSize, Zenon
  <2>3. QED
    BY ONLY <2>1, <2>2
<1>7. IsFiniteSet(Awaited) /\ Cardinality(Awaited) \in Nat
  BY AwaitedFinite
<1>8. DOMAIN scratch_members \cap Awaited = Awaited
  BY DEF Awaited
<1>9. IsFiniteSet(E) /\ Cardinality(E) = Len(scratch_members) - Cardinality(Awaited)
  <2>1. IsFiniteSet(DOMAIN scratch_members) /\ Cardinality(DOMAIN scratch_members) = Len(scratch_members)
    BY <1>2, <1>3
  <2>2. /\ IsFiniteSet(E)
        /\ Cardinality(E) = Cardinality(DOMAIN scratch_members)
                              - Cardinality(DOMAIN scratch_members \cap Awaited)
    BY <2>1, FS_Difference
  <2>3. QED
    BY <1>8, <2>1, <2>2
<1>10. IsFiniteSet(D) /\ Cardinality(D) = Cardinality(E)
  BY <1>9, TaggedSize
<1>11. A \cap B = {} /\ (A \cup B) \cap C = {} /\ ((A \cup B) \cup C) \cap D = {}
  OBVIOUS
<1> HIDE DEF A, B, C, D, E
<1>12. IsFiniteSet(A \cup B) /\ Cardinality(A \cup B) = Cardinality(A) + Cardinality(B)
  BY ONLY <1>4, <1>5, <1>11, DisjointSize, Zenon
<1>13. /\ IsFiniteSet((A \cup B) \cup C)
       /\ Cardinality((A \cup B) \cup C) = Cardinality(A \cup B) + Cardinality(C)
  BY ONLY <1>6, <1>11, <1>12, DisjointSize, Zenon
<1>14. Cardinality(((A \cup B) \cup C) \cup D)
         = Cardinality((A \cup B) \cup C) + Cardinality(D)
  BY ONLY <1>10, <1>11, <1>13, DisjointSize, Zenon
<1>15. QED
  BY <1>1, <1>2, <1>4, <1>5, <1>6, <1>7, <1>9, <1>10, <1>12, <1>13, <1>14

LEMMA PlacesHold ==
    ASSUME NEW id
    PROVE  id \in {HeldAt(p) : p \in Places} <=> Held(id)
<1>1. \A i \in DOMAIN items : <<1, i>> \in Places /\ HeldAt(<<1, i>>) = items[i]
  BY DEF Places, HeldAt
<1>2. \A i \in DOMAIN members : <<2, i>> \in Places /\ HeldAt(<<2, i>>) = members[i].id
  BY DEF Places, HeldAt
<1>3. \A i \in DOMAIN scratch_items :
         <<3, i>> \in Places /\ HeldAt(<<3, i>>) = scratch_items[i]
  BY DEF Places, HeldAt
<1>4. \A i \in DOMAIN scratch_members \ Awaited :
         <<4, i>> \in Places /\ HeldAt(<<4, i>>) = scratch_members[i].id
  BY DEF Places, HeldAt, Awaited
<1>5. ASSUME NEW p \in Places
      PROVE  Held(HeldAt(p))
  <2>1. CASE p \in {1} \X DOMAIN items
    BY <2>1, <1>1 DEF Held
  <2>2. CASE p \in {2} \X DOMAIN members
    BY <2>2, <1>2 DEF Held
  <2>3. CASE p \in {3} \X DOMAIN scratch_items
    BY <2>3, <1>3 DEF Held
  <2>4. CASE p \in {4} \X (DOMAIN scratch_members \ Awaited)
    BY <2>4, <1>4 DEF Held
  <2>5. QED
    BY <2>1, <2>2, <2>3, <2>4 DEF Places, Awaited
<1>6. ASSUME Held(id)
      PROVE  id \in {HeldAt(p) : p \in Places}
  BY <1>6, <1>1, <1>2, <1>3, <1>4 DEF Held
<1>7. QED
  BY <1>5, <1>6

LEMMA HeldTyped ==
    ASSUME TypeOK
    PROVE  /\ \A i \in DOMAIN items : items[i] \in Int
           /\ \A i \in DOMAIN members : members[i].id \in Int
           /\ \A i \in DOMAIN scratch_items : scratch_items[i] \in Int
           /\ \A i \in DOMAIN scratch_members : scratch_members[i].id \in Int
<1>1. /\ items \in Seq(Nat) /\ scratch_items \in Seq(Nat)
      /\ members \in Seq([name : Names, id : Nat])
      /\ scratch_members \in Seq([name : Names, offset : Offset, id : Nat])
  BY DEF TypeOK, ScratchOK, ArenaOK, PendingMember, Id
<1>2. /\ \A i \in DOMAIN items : items[i] \in Nat
      /\ \A i \in DOMAIN scratch_items : scratch_items[i] \in Nat
  BY <1>1
<1>3. \A i \in DOMAIN members : members[i] \in [name : Names, id : Nat]
  BY <1>1, ElementOfSeq, LenProperties
<1>4. \A i \in DOMAIN scratch_members :
         scratch_members[i] \in [name : Names, offset : Offset, id : Nat]
  BY <1>1, ElementOfSeq, LenProperties
<1>5. QED
  BY <1>2, <1>3, <1>4

LEMMA BuildingHoldsOnce == Building => EveryNodeHeldOnce
<1> SUFFICES ASSUME Building PROVE EveryNodeHeldOnce
  OBVIOUS
<1> DEFINE nodes == 0 .. Len(slots) - 1
           root == IF stack = <<>> THEN {Len(slots) - 1} ELSE {}
<1>1. TypeOK /\ Shaped /\ Nested /\ NodesHeld /\ PlacesCounted /\ BytesRead
  BY DEF Building, Shaped, Counted
<1>2. Len(slots) \in Nat /\ (Len(slots) = 0 <=> slots = <<>>)
  BY <1>1, LenProperties, EmptySeq DEF TypeOK
<1>3. {HeldAt(p) : p \in Places} = nodes \ root
  <2>1. ASSUME NEW p \in Places
        PROVE  HeldAt(p) \in Int
    <3>1. /\ \A i \in DOMAIN items : items[i] \in Int
          /\ \A i \in DOMAIN members : members[i].id \in Int
          /\ \A i \in DOMAIN scratch_items : scratch_items[i] \in Int
          /\ \A i \in DOMAIN scratch_members : scratch_members[i].id \in Int
      BY <1>1, HeldTyped
    <3>2. Held(HeldAt(p))
      BY PlacesHold
    <3>3. QED
      BY <3>1, <3>2 DEF Held
  <2>2. ASSUME NEW id \in Int
        PROVE  id \in {HeldAt(p) : p \in Places} <=> id \in nodes \ root
    BY <1>1, <1>2, PlacesHold DEF NodesHeld
  <2>3. nodes \ root \subseteq Int
    BY <1>2
  <2> HIDE DEF nodes, root
  <2>4. QED
    BY <2>1, <2>2, <2>3
<1>4. /\ RootMade => Cardinality(nodes \ root) = Len(slots) - 1
      /\ ~RootMade => Cardinality(nodes \ root) = Len(slots)
  <2>1. IsFiniteSet(nodes) /\ Cardinality(nodes) = Len(slots)
    <3>1. 0 \in Int /\ Len(slots) - 1 \in Int
      BY <1>2
    <3>2. /\ IsFiniteSet(nodes)
          /\ Cardinality(nodes) = IF 0 > Len(slots) - 1 THEN 0 ELSE Len(slots) - 1 - 0 + 1
      BY ONLY <3>1, FS_Interval, Zenon
    <3>3. QED
      BY <1>2, <3>2
  <2>2. CASE RootMade
    <3>1. root = {Len(slots) - 1} /\ Len(slots) - 1 \in nodes
      BY <1>2, <2>2 DEF RootMade
    <3>2. QED
      BY <2>1, <2>2, <3>1, FS_RemoveElement
  <2>3. CASE ~RootMade
    <3>1. CASE stack = <<>>
      <4>1. Len(slots) = 0
        BY <1>2, <2>3, <3>1 DEF RootMade
      <4>2. nodes \ root = {}
        BY <4>1
      <4>3. \A none : none = {} => Cardinality(none) = 0
        BY FS_EmptySet
      <4> HIDE DEF nodes, root
      <4>4. Cardinality(nodes \ root) = 0
        BY ONLY <4>2, <4>3
      <4>5. QED
        BY ONLY <2>3, <4>1, <4>4, Zenon
    <3>2. CASE stack # <<>>
      <4>1. nodes \ root = nodes
        BY <3>2
      <4> HIDE DEF nodes, root
      <4>2. QED
        BY <1>2, <2>1, <2>3, <4>1
    <3>3. QED
      BY <3>1, <3>2
  <2>4. QED
    BY <2>2, <2>3
<1>5. Cardinality(Places) = Cardinality(nodes \ root)
  <2>1. Cardinality(Places) =
          Len(items) + Len(members) + Len(scratch_items) + Len(scratch_members)
            - Cardinality(Awaited)
    BY <1>1, PlacesSize
  <2>2. Cardinality(Awaited) \in Nat
    BY <1>1, AwaitedFinite
  <2>3. CASE RootMade
    BY <1>1, <1>2, <1>4, <2>1, <2>2, <2>3, StackTypes DEF PlacesCounted
  <2>4. CASE ~RootMade
    BY <1>1, <1>2, <1>4, <2>1, <2>2, <2>4, StackTypes DEF PlacesCounted
  <2>5. QED
    BY <2>3, <2>4
<1>6. QED
  BY <1>1, <1>3, <1>5 DEF EveryNodeHeldOnce, BytesRead

(* The arena that the reader builds is a tree and its parts are linear in  *)
(* the input: each finished node is held in exactly one place, of items,   *)
(* members or the two scratch stacks, except the root once nothing is      *)
(* open, and nodes, open containers and members together are no more than  *)
(* the bytes read.  It is what the drains of close, the appends of         *)
(* complete and the early placing of a pending member come to, on every    *)
(* input.                                                                  *)
THEOREM NodesHeldOnce == Spec => []EveryNodeHeldOnce
<1>1. QED
  BY AlwaysBuilding, BuildingHoldsOnce, PTL

-----------------------------------------------------------------------------
(* No object of the arena has two members of one name.                     *)

(* check_unique_names misses no name that occurs twice.                    *)
LEMMA DuplicatesFound ==
    ASSUME NEW pendings \in Seq(PendingMember),
           \A i, j \in DOMAIN pendings : i < j => pendings[i].offset < pendings[j].offset,
           DuplicateAt(pendings) = {},
           NEW j \in DOMAIN pendings, NEW k \in DOMAIN pendings,
           pendings[j].name = pendings[k].name
    PROVE  ~(j < k)
<1> SUFFICES ASSUME j < k PROVE FALSE
  OBVIOUS
<1> DEFINE again == {b \in DOMAIN pendings : \E a \in DOMAIN pendings :
                       /\ pendings[a].name = pendings[b].name
                       /\ pendings[a].offset < pendings[b].offset}
           ranks == {Rank[pendings[b].name] : b \in again}
<1>1. \A b \in DOMAIN pendings :
         /\ pendings[b].name \in Names /\ pendings[b].offset \in Nat
         /\ Rank[pendings[b].name] \in Nat
  <2> SUFFICES ASSUME NEW b \in DOMAIN pendings
               PROVE  /\ pendings[b].name \in Names /\ pendings[b].offset \in Nat
                      /\ Rank[pendings[b].name] \in Nat
    OBVIOUS
  <2>1. pendings[b] \in PendingMember
    BY ElementOfSeq, LenProperties
  <2>2. QED
    BY <2>1, RankAssumption, BoundAssumption DEF PendingMember, Offset
<1>2. again \subseteq DOMAIN pendings /\ k \in again
  OBVIOUS
<1> HIDE DEF again
<1>3. ranks \in SUBSET Nat /\ ranks # {}
  BY <1>1, <1>2
<1>4. PICK low \in ranks : \A r \in ranks : low <= r
  BY <1>3, LeastNatural
<1> DEFINE offsets == {pendings[b].offset : b \in {a \in again : Rank[pendings[a].name] = low}}
<1>5. offsets \in SUBSET Nat /\ offsets # {}
  BY <1>1, <1>2, <1>4
<1>6. PICK first \in offsets : \A o \in offsets : first <= o
  BY <1>5, LeastNatural
<1>7. PICK b \in again : Rank[pendings[b].name] = low /\ pendings[b].offset = first
  BY <1>6
<1>8. \A c \in again :
         \/ Rank[pendings[b].name] < Rank[pendings[c].name]
         \/ pendings[b].name = pendings[c].name /\ pendings[b].offset <= pendings[c].offset
  <2> SUFFICES ASSUME NEW c \in again, ~(Rank[pendings[b].name] < Rank[pendings[c].name])
               PROVE  /\ pendings[b].name = pendings[c].name
                      /\ pendings[b].offset <= pendings[c].offset
    OBVIOUS
  <2>1. low <= Rank[pendings[c].name]
    BY <1>4
  <2>2. Rank[pendings[c].name] = low
    BY <1>1, <1>2, <1>7, <2>1
  <2>3. pendings[c].offset \in offsets
    BY <2>2
  <2>4. pendings[b].name = pendings[c].name
    BY <1>1, <1>2, <1>7, <2>2, RankAssumption
  <2>5. QED
    BY <1>6, <1>7, <2>3, <2>4
<1>9. pendings[b].offset \in DuplicateAt(pendings)
  BY <1>7, <1>8 DEF DuplicateAt, again
<1>10. QED
  BY <1>9

LEMMA CompleteNames ==
    ASSUME NEW id \in Id, NEW open \in Seq([object : BOOLEAN, start : Id]),
           NEW ids \in Seq(Id), NEW pendings \in Seq(PendingMember),
           ~NoMember(open, pendings), Complete(id, open, ids, pendings)
    PROVE  /\ Len(scratch_members') = Len(pendings)
           /\ \A i \in 1 .. Len(pendings) :
                 /\ scratch_members'[i].offset = pendings[i].offset
                 /\ scratch_members'[i].name = pendings[i].name
<1>1. Len(pendings) \in Nat /\ DOMAIN pendings = 1 .. Len(pendings)
  BY LenProperties
<1>2. CASE InObject(open)
  <2>1. pendings # <<>>
    BY <1>2 DEF NoMember
  <2>2. Len(pendings) \in 1 .. Len(pendings)
    BY <2>1, EmptySeq, LenProperties
  <2>3. scratch_members' = [pendings EXCEPT ![Len(pendings)].id = id]
    BY <1>2 DEF Complete
  <2>4. scratch_members' \in Seq(PendingMember)
    BY CompleteType
  <2>5. DOMAIN scratch_members' = DOMAIN pendings
    BY <2>3
  <2>6. Len(scratch_members') = Len(pendings)
    BY <1>1, <2>4, <2>5, LenProperties
  <2>7. ASSUME NEW i \in 1 .. Len(pendings)
        PROVE  /\ scratch_members'[i].offset = pendings[i].offset
               /\ scratch_members'[i].name = pendings[i].name
    <3>1. pendings[i] \in PendingMember
      BY ElementOfSeq
    <3>2. CASE i = Len(pendings)
      <4>1. scratch_members'[i] = [pendings[i] EXCEPT !.id = id]
        BY <1>1, <2>2, <2>3, <3>2
      <4>2. QED
        BY <3>1, <4>1 DEF PendingMember
    <3>3. CASE i # Len(pendings)
      BY <1>1, <2>3, <3>3
    <3>4. QED
      BY <3>2, <3>3
  <2>8. QED
    BY <2>6, <2>7
<1>3. CASE ~InObject(open)
  BY <1>3 DEF Complete
<1>4. QED
  BY <1>2, <1>3

LEMMA OffsetsType ==
    ASSUME TypeOK
    PROVE  /\ \A i \in DOMAIN scratch_members : scratch_members[i].offset \in Nat
           /\ name.offset \in Nat
<1>1. ASSUME NEW i \in DOMAIN scratch_members
      PROVE  scratch_members[i].offset \in Nat
  <2>1. scratch_members[i] \in PendingMember
    BY ElementOfSeq, LenProperties DEF TypeOK, ScratchOK
  <2>2. QED
    BY <2>1, BoundAssumption DEF PendingMember, Offset
<1>2. name \in [name : Names \cup {""}, offset : Offset]
  BY DEF TypeOK, ExpectOK
<1>3. name.offset \in Offset
  BY ONLY <1>2
<1>4. QED
  BY <1>1, <1>3, BoundAssumption DEF Offset

LEMMA AscendKept ==
    ASSUME TypeOK, TypeOK', NamesAscend, position' = position + 1, expect' # "Colon",
           Len(scratch_members') <= Len(scratch_members),
           \A i \in 1 .. Len(scratch_members') :
              scratch_members'[i].offset = scratch_members[i].offset
    PROVE  NamesAscend'
<1>1. /\ DOMAIN scratch_members = 1 .. Len(scratch_members) /\ Len(scratch_members) \in Nat
      /\ DOMAIN scratch_members' = 1 .. Len(scratch_members') /\ Len(scratch_members') \in Nat
  BY LenProperties DEF TypeOK, ScratchOK
<1>2. \A i \in 1 .. Len(scratch_members') : i \in 1 .. Len(scratch_members)
  BY <1>1
<1>3. \A i \in 1 .. Len(scratch_members) : scratch_members[i].offset \in Nat
  BY <1>1, OffsetsType
<1>4. position \in Nat
  BY BytesType
<1>5. QED
  BY <1>1, <1>2, <1>3, <1>4 DEF NamesAscend

(* Members stay distinct when the arena grows by a node whose own are.     *)
LEMMA DistinctKept ==
    ASSUME TypeOK, TypeOK', ChildrenComeFirst, NamesDistinct,
           NEW node \in Node, slots' = Append(slots, node),
           Len(members) <= Len(members'),
           \A i \in 1 .. Len(members) : members'[i] = members[i],
           node.kind = "Object" => DistinctIn(members', node.children)
    PROVE  NamesDistinct'
<1>1. /\ DOMAIN slots' = 1 .. Len(slots) + 1 /\ DOMAIN slots = 1 .. Len(slots)
      /\ Len(slots) \in Nat
      /\ \A i \in 1 .. Len(slots) : slots'[i] = slots[i]
      /\ slots'[Len(slots) + 1] = node
  <2>1. slots \in Seq(Node)
    BY DEF TypeOK, ArenaOK
  <2>2. QED
    BY <2>1, AppendProperties, LenProperties
<1>2. Len(members) \in Nat
  BY BytesType
<1>3. ASSUME NEW i \in 1 .. Len(slots), slots[i].kind = "Object"
      PROVE  DistinctIn(members', slots[i].children)
  <2>1. slots[i] \in Node
    BY ElementOfSeq DEF TypeOK, ArenaOK
  <2>2. slots[i].children.start \in Nat /\ slots[i].children.end \in Nat
    BY <1>3, <2>1 DEF Node, Children, Id
  <2>3. slots[i].children.end <= Len(members)
    BY <1>1, <1>3 DEF ChildrenComeFirst, HoldsEarlier
  <2>4. DistinctIn(members, slots[i].children)
    BY <1>1, <1>3 DEF NamesDistinct
  <2>5. \A j \in slots[i].children.start + 1 .. slots[i].children.end : members'[j] = members[j]
    BY <1>2, <2>2, <2>3, SMTT(30)
  <2>6. QED
    BY <2>4, <2>5 DEF DistinctIn
<1>4. SUFFICES ASSUME NEW i \in 1 .. Len(slots) + 1, slots'[i].kind = "Object"
               PROVE  DistinctIn(members', slots'[i].children)
  BY <1>1 DEF NamesDistinct
<1>5. CASE i = Len(slots) + 1
  BY <1>1, <1>4, <1>5
<1>6. CASE i # Len(slots) + 1
  <2>1. i \in 1 .. Len(slots) /\ slots'[i] = slots[i]
    BY <1>1, <1>6
  <2>2. QED
    BY <1>3, <1>4, <2>1
<1>7. QED
  BY <1>5, <1>6

(* What an object closes with comes from the latest part of the scratch    *)
(* stack, in order and without duplicates.                                 *)
LEMMA CloseObjectDistinct ==
    ASSUME TypeOK, TypeOK', ChildrenComeFirst, NamesAscend, NamesDistinct,
           NEW outer, NEW start \in Nat, CloseObject(outer, start),
           DuplicateAt(SubSeq(scratch_members, start + 1, Len(scratch_members))) = {}
    PROVE  NamesDistinct'
<1> DEFINE pendings == SubSeq(scratch_members, start + 1, Len(scratch_members))
           added == [i \in DOMAIN pendings |-> [name |-> pendings[i].name, id |-> pendings[i].id]]
           node == Object(Slice(Len(members), Len(members) + Len(added)))
<1>1. /\ scratch_members \in Seq(PendingMember) /\ Len(scratch_members) \in Nat
      /\ DOMAIN scratch_members = 1 .. Len(scratch_members)
      /\ members \in Seq([name : Names, id : Id]) /\ Len(members) \in Nat
  BY BytesType, LenProperties DEF TypeOK, ScratchOK, ArenaOK
<1>2. members' = members \o added /\ slots' = Append(slots, node)
  BY DEF CloseObject
<1>3. /\ pendings \in Seq(PendingMember) /\ Len(pendings) \in Nat
      /\ \A i \in 1 .. Len(pendings) :
            /\ start + i \in 1 .. Len(scratch_members)
            /\ pendings[i] = scratch_members[start + i]
  BY <1>1, SuffixType, SuffixElements
<1>4. DuplicateAt(pendings) = {}
  OBVIOUS
<1> HIDE DEF pendings
<1>5. DOMAIN pendings = 1 .. Len(pendings)
  BY <1>3, LenProperties
<1>6. \A i, j \in DOMAIN pendings : i < j => pendings[i].offset < pendings[j].offset
  <2> SUFFICES ASSUME NEW i \in DOMAIN pendings, NEW j \in DOMAIN pendings, i < j
               PROVE  pendings[i].offset < pendings[j].offset
    OBVIOUS
  <2>1. /\ start + i \in DOMAIN scratch_members /\ start + j \in DOMAIN scratch_members
        /\ pendings[i] = scratch_members[start + i] /\ pendings[j] = scratch_members[start + j]
    BY <1>1, <1>3, <1>5
  <2>2. start + i < start + j
    BY <1>3, <1>5
  <2>3. QED
    BY <2>1, <2>2 DEF NamesAscend
<1>7. \A i \in 1 .. Len(pendings) : pendings[i] \in PendingMember
  BY <1>3, ElementOfSeq
<1>8. /\ added \in [1 .. Len(pendings) -> [name : Names, id : Id]]
      /\ \A i \in 1 .. Len(pendings) : added[i].name = pendings[i].name
  BY <1>5, <1>7 DEF PendingMember
<1> HIDE DEF added
<1>9. added \in Seq([name : Names, id : Id]) /\ Len(added) = Len(pendings)
  BY <1>3, <1>8, FunctionIsSeq
<1>10. /\ Len(members') = Len(members) + Len(added)
       /\ \A k \in 1 .. Len(members) : members'[k] = members[k]
       /\ \A k \in Len(members) + 1 .. Len(members) + Len(added) :
             members'[k] = added[k - Len(members)]
  <2>1. members' = members \o added
    BY <1>2
  <2>2. members \in Seq([name : Names, id : Id]) /\ added \in Seq([name : Names, id : Id])
    BY <1>1, <1>9
  <2>3. QED
    BY ONLY <2>1, <2>2, ConcatProperties
<1>11. /\ node \in Node
       /\ node.children.start = Len(members) /\ node.children.end = Len(members) + Len(added)
  BY <1>1, <1>3, <1>9 DEF Node, Object, Slice, Children, Id
<1> HIDE DEF node
<1>12. DistinctIn(members', node.children)
  <2> SUFFICES ASSUME NEW j \in Len(members) + 1 .. Len(members) + Len(added),
                      NEW k \in Len(members) + 1 .. Len(members) + Len(added),
                      members'[j].name = members'[k].name
               PROVE  j = k
    BY <1>11 DEF DistinctIn
  <2>1. /\ j - Len(members) \in DOMAIN pendings /\ k - Len(members) \in DOMAIN pendings
        /\ members'[j] = added[j - Len(members)] /\ members'[k] = added[k - Len(members)]
    BY <1>1, <1>3, <1>5, <1>9, <1>10
  <2>2. pendings[j - Len(members)].name = pendings[k - Len(members)].name
    BY <1>5, <1>8, <2>1
  <2>3. ~(j - Len(members) < k - Len(members))
    BY <1>3, <1>4, <1>6, <2>1, <2>2, DuplicatesFound
  <2>4. ~(k - Len(members) < j - Len(members))
    BY <1>3, <1>4, <1>6, <2>1, <2>2, DuplicatesFound
  <2>5. QED
    BY <1>1, <1>3, <1>9, <2>3, <2>4
<1>13. Len(members) <= Len(members')
  BY <1>1, <1>3, <1>9, <1>10
<1>14. QED
  BY <1>2, <1>10, <1>11, <1>12, <1>13, DistinctKept

LEMMA CloseNamed ==
    ASSUME TypeOK, TypeOK', ChildrenComeFirst, Named, Shaped,
           NEW outer, NEW top, ClosedInto(outer, top)
    PROVE  Named'
<1>1. /\ outer \in Seq(OpenEntry) /\ top.object \in BOOLEAN /\ top.start \in Nat
      /\ position' = position + 1
  BY DEF ClosedInto, OpenEntry, Id
<1>2. /\ scratch_items \in Seq(Id) /\ scratch_members \in Seq(PendingMember)
      /\ slots \in Seq(Node) /\ Len(slots) \in Id /\ items \in Seq(Id)
  BY LenProperties DEF TypeOK, ScratchOK, ArenaOK, Id
<1>3. outer \in Seq([object : BOOLEAN, start : Id])
  BY <1>1 DEF OpenEntry
<1>4. CASE top.object
  <2>1. CloseObject(outer, top.start)
    BY <1>4 DEF ClosedInto
  <2>2. NamesDistinct'
    BY <1>1, <1>4, <2>1, CloseObjectDistinct DEF ClosedInto, Named
  <2>3. PICK left : left = Dropped(scratch_members, top.start)
    OBVIOUS
  <2>4. /\ left \in Seq(PendingMember) /\ Len(left) <= Len(scratch_members) /\ Len(left) \in Nat
        /\ \A i \in 1 .. Len(left) : left[i] = scratch_members[i]
    BY <1>1, <1>2, <2>3, DroppedType
  <2>5. Complete(Len(slots), outer, scratch_items, left) /\ ~NoMember(outer, left)
    BY <1>4, <2>1, <2>3 DEF ClosedInto, CloseObject
  <2>6. /\ Len(scratch_members') = Len(left)
        /\ \A i \in 1 .. Len(left) : scratch_members'[i].offset = left[i].offset
    BY <1>2, <1>3, <2>4, <2>5, CompleteNames
  <2>7. expect' # "Colon"
    BY <2>5 DEF Complete
  <2>8. NamesAscend'
    BY <1>1, <2>4, <2>6, <2>7, AscendKept DEF Named
  <2>9. QED
    BY <2>2, <2>8 DEF Named
<1>5. CASE ~top.object
  <2>1. CloseArray(outer, top.start)
    BY <1>5 DEF ClosedInto
  <2>2. PICK left : left = Dropped(scratch_items, top.start)
    OBVIOUS
  <2>3. left \in Seq(Id)
    BY <1>1, <1>2, <2>2, DroppedType
  <2>4. Complete(Len(slots), outer, left, scratch_members) /\ ~NoMember(outer, scratch_members)
    BY <1>5, <2>1, <2>2 DEF ClosedInto, CloseArray
  <2>5. /\ Len(scratch_members') = Len(scratch_members)
        /\ \A i \in 1 .. Len(scratch_members) :
              scratch_members'[i].offset = scratch_members[i].offset
    BY <1>2, <1>3, <2>3, <2>4, CompleteNames
  <2>6. expect' # "Colon"
    BY <2>4 DEF Complete
  <2>7. Len(scratch_members) \in Nat
    BY BytesType
  <2>8. NamesAscend'
    BY <1>1, <2>5, <2>6, <2>7, AscendKept DEF Named
  <2>9. PICK node : slots' = Append(slots, node) /\ node.kind # "Object" /\ node \in Node
    <3> DEFINE ids == SubSeq(scratch_items, top.start + 1, Len(scratch_items))
               node == Array(Slice(Len(items), Len(items) + Len(ids)))
    <3>1. slots' = Append(slots, node)
      BY <2>1 DEF CloseArray
    <3>2. Len(ids) \in Nat
      BY <1>1, <1>2, SuffixType
    <3>3. Len(items) \in Nat
      BY BytesType
    <3> HIDE DEF ids
    <3>4. node.kind # "Object" /\ node \in Node
      BY <3>2, <3>3 DEF Array, Slice, Node, Children, Id
    <3>5. QED
      BY <3>1, <3>4
  <2>10. members' = members
    BY <2>1 DEF CloseArray
  <2>11. Len(members) \in Nat
    BY BytesType
  <2>12. NamesDistinct'
    BY <2>9, <2>10, <2>11, DistinctKept DEF Named
  <2>13. QED
    BY <2>8, <2>12 DEF Named
<1>6. QED
  BY <1>1, <1>4, <1>5

LEMMA LeafNamed ==
    ASSUME TypeOK, TypeOK', ChildrenComeFirst, Named, LeafValue,
           ~NoMember(stack, scratch_members)
    PROVE  Named'
<1>1. /\ slots' = Append(slots, Leaf(Peek)) /\ members' = members
      /\ Complete(Len(slots), stack, scratch_items, scratch_members)
      /\ position' = position + 1
  BY DEF LeafValue
<1>2. Leaf(Peek) \in Node /\ Leaf(Peek).kind # "Object"
  BY DEF LeafValue, Leaf, Node
<1>3. /\ Len(slots) \in Id /\ stack \in Seq([object : BOOLEAN, start : Id])
      /\ scratch_items \in Seq(Id) /\ scratch_members \in Seq(PendingMember)
      /\ Len(scratch_members) \in Nat /\ Len(members) \in Nat
  BY BytesType DEF TypeOK, ArenaOK, ScratchOK, Id
<1>4. /\ Len(scratch_members') = Len(scratch_members)
      /\ \A i \in 1 .. Len(scratch_members) :
            scratch_members'[i].offset = scratch_members[i].offset
  BY <1>1, <1>3, CompleteNames
<1>5. expect' # "Colon"
  BY <1>1 DEF Complete
<1>6. NamesAscend'
  BY <1>1, <1>3, <1>4, <1>5, AscendKept DEF Named
<1>7. NamesDistinct'
  BY <1>1, <1>2, <1>3, DistinctKept DEF Named
<1>8. QED
  BY <1>6, <1>7 DEF Named

LEMMA ColonNamed ==
    ASSUME TypeOK, Named, Colon
    PROVE  Named'
<1> DEFINE l == Len(scratch_members)
           pending == Pending(name.name, name.offset)
<1>1. /\ UNCHANGED <<slots, members>> /\ expect' = "Value"
      /\ scratch_members' = Append(scratch_members, pending)
      /\ expect = "Colon" /\ position' = position + 1
  BY DEF Colon, arena
<1>2. /\ \A i, j \in DOMAIN scratch_members :
            i < j => scratch_members[i].offset < scratch_members[j].offset
      /\ \A i \in DOMAIN scratch_members :
            /\ scratch_members[i].offset < name.offset
            /\ scratch_members[i].offset < position
      /\ name.offset < position
  BY <1>1 DEF Named, NamesAscend
<1>3. \A i \in DOMAIN scratch_members : scratch_members[i].offset \in Nat
  BY OffsetsType
<1>4. pending.offset = name.offset /\ name.offset \in Nat /\ position \in Nat
  BY BytesType, OffsetsType DEF Pending
<1>5. /\ DOMAIN scratch_members = 1 .. l /\ l \in Nat
      /\ DOMAIN scratch_members' = 1 .. l + 1
      /\ \A i \in 1 .. l : scratch_members'[i] = scratch_members[i]
      /\ scratch_members'[l + 1] = pending
  <2>1. scratch_members \in Seq(PendingMember \cup {pending})
    BY DEF TypeOK, ScratchOK
  <2> HIDE DEF pending
  <2>2. QED
    BY <1>1, <2>1, AppendProperties, LenProperties
<1> HIDE DEF l, pending
<1>6. ASSUME NEW i \in 1 .. l + 1
      PROVE  /\ i < l + 1 => scratch_members'[i].offset < name.offset
             /\ i = l + 1 => scratch_members'[i].offset = name.offset
             /\ scratch_members'[i].offset < position + 1
  BY <1>2, <1>3, <1>4, <1>5
<1>7. ASSUME NEW i \in 1 .. l + 1, NEW j \in 1 .. l + 1, i < j
      PROVE  scratch_members'[i].offset < scratch_members'[j].offset
  <2>1. i \in 1 .. l
    BY <1>5, <1>7
  <2>2. CASE j = l + 1
    BY <1>5, <1>6, <1>7, <2>2
  <2>3. CASE j # l + 1
    <3>1. j \in 1 .. l
      BY <1>5, <2>3
    <3>2. QED
      BY <1>2, <1>5, <1>7, <2>1, <3>1
  <2>4. QED
    BY <2>2, <2>3
<1>8. NamesAscend'
  BY <1>1, <1>5, <1>6, <1>7 DEF NamesAscend
<1>9. NamesDistinct'
  BY <1>1 DEF Named, NamesDistinct
<1>10. QED
  BY <1>8, <1>9 DEF Named

(* What leaves the scratch stack and the arena alone.                      *)
LEMMA QuietNamed ==
    ASSUME TypeOK, Named, UNCHANGED <<scratch_members, slots, members>>,
           position' \in {position, position + 1},
           \/ expect' # "Colon"
           \/ UNCHANGED <<expect, name>>
           \/ position' = position + 1 /\ name'.offset = position
    PROVE  Named'
<1>1. /\ \A i, j \in DOMAIN scratch_members :
            i < j => scratch_members[i].offset < scratch_members[j].offset
      /\ \A i \in DOMAIN scratch_members : scratch_members[i].offset < position
      /\ expect = "Colon" =>
            /\ name.offset < position
            /\ \A i \in DOMAIN scratch_members : scratch_members[i].offset < name.offset
  BY DEF Named, NamesAscend
<1>2. \A i \in DOMAIN scratch_members : scratch_members[i].offset \in Nat
  BY OffsetsType
<1>3. name.offset \in Nat /\ position \in Nat
  BY BytesType, OffsetsType
<1>4. \A i \in DOMAIN scratch_members : scratch_members[i].offset < position'
  BY <1>1, <1>2, <1>3
<1>5. expect' = "Colon" =>
         /\ name'.offset < position'
         /\ \A i \in DOMAIN scratch_members : scratch_members[i].offset < name'.offset
  <2>1. CASE UNCHANGED <<expect, name>>
    BY <1>1, <1>3, <2>1
  <2>2. CASE position' = position + 1 /\ name'.offset = position
    BY <1>1, <1>3, <2>2
  <2>3. QED
    BY <2>1, <2>2
<1>6. NamesAscend'
  BY <1>1, <1>4, <1>5 DEF NamesAscend
<1>7. NamesDistinct'
  BY DEF Named, NamesDistinct
<1>8. QED
  BY <1>6, <1>7 DEF Named

NamedWell == Building /\ Acyclic /\ Named

LEMMA NamedNext == NamedWell /\ [Next]_vars => NamedWell'
<1> SUFFICES ASSUME NamedWell, [Next]_vars PROVE NamedWell'
  OBVIOUS
<1>1. TypeOK /\ Shaped /\ ChildrenComeFirst /\ Named /\ Building /\ Acyclic
  BY DEF NamedWell, Building, Acyclic
<1>2. Building' /\ Acyclic' /\ TypeOK'
  BY <1>1, BuildingNext, NextAcyclic DEF Acyclic
<1> SUFFICES Named'
  BY <1>2 DEF NamedWell
<1>3. ASSUME NEW result, Stop(result)
      PROVE  Named'
  <2>1. UNCHANGED <<expect, name, position, scratch_members, slots, members>>
    BY <1>3 DEF Stop, scratch, arena
  <2>2. QED
    BY <1>1, <2>1, QuietNamed
<1>4. CASE UNCHANGED vars \/ Disclose \/ SkipWhitespace
  <2>1. /\ UNCHANGED <<expect, name, scratch_members, slots, members>>
        /\ position' \in {position, position + 1}
    BY <1>4 DEF vars, Disclose, SkipWhitespace, scratch, arena
  <2>2. QED
    BY <1>1, <2>1, QuietNamed
<1>5. CASE Begin \/ Stops
  <2>1. \E result : Stop(result)
    BY <1>5 DEF Stops, Begin, BadValue, OutOfRange, BadName, NoColon, BadSeparator, RefuseClose,
           Finish, OutOfMemory, Refuse
  <2>2. QED
    BY <1>3, <2>1
<1>6. CASE OpenContainer \/ Comma
  <2>1. /\ UNCHANGED <<scratch_members, slots, members>> /\ position' = position + 1
        /\ expect' # "Colon"
    BY <1>6 DEF OpenContainer, Comma, scratch, arena
  <2>2. QED
    BY <1>1, <2>1, QuietNamed
<1>7. CASE MemberName
  <2>1. /\ UNCHANGED <<scratch_members, slots, members>> /\ position' = position + 1
        /\ name'.offset = position
    BY <1>7 DEF MemberName, scratch, arena
  <2>2. QED
    BY <1>1, <2>1, QuietNamed
<1>8. CASE LeafValue
  <2>1. CASE NoMember(stack, scratch_members)
    <3>1. \E result : Stop(result)
      BY <1>8, <2>1 DEF LeafValue, Refuse
    <3>2. QED
      BY <1>3, <3>1
  <2>2. CASE ~NoMember(stack, scratch_members)
    BY <1>1, <1>2, <1>8, <2>2, LeafNamed
  <2>3. QED
    BY <2>1, <2>2
<1>9. CASE Colon
  BY <1>1, <1>9, ColonNamed
<1>10. CASE Close
  <2>1. PICK outer, top : ClosedInto(outer, top)
    BY <1>1, <1>10, CloseCloses
  <2>2. QED
    BY <1>1, <1>2, <2>1, CloseNamed
<1>11. QED
  BY <1>4, <1>5, <1>6, <1>7, <1>8, <1>9, <1>10 DEF Next, Parse, Stops

LEMMA NamedInit == Init => NamedWell
<1> SUFFICES ASSUME Init PROVE NamedWell
  OBVIOUS
<1>1. scratch_members = <<>> /\ slots = <<>> /\ expect = "Value"
  BY DEF Init
<1>2. Named
  BY <1>1 DEF Named, NamesAscend, NamesDistinct
<1>3. QED
  BY <1>2, BuildingInit, InitAcyclic DEF NamedWell

(* No object of a tree that read returns has two members of one name: the  *)
(* neighbours that check_unique_names compares after its sort by name and  *)
(* offset miss no pair, wherever in the scratch stack the pending members  *)
(* of the object lie.                                                      *)
THEOREM NamesAlwaysDistinct == Spec => []NamesDistinct
<1>1. NamedWell => NamesDistinct
  BY DEF NamedWell, Named
<1>2. QED
  BY <1>1, NamedInit, NamedNext, PTL DEF Spec

-----------------------------------------------------------------------------
(* The containers that a position is in, from the tokens before it.        *)
Openings(q, p) == {r \in q .. p - 1 : input[r] \in Opening}
Closings(q, p) == {r \in q .. p - 1 : input[r] \in Closing}

LEMMA SignsApart == Opening \cap Closing = {}
  BY DEF Opening, Closing

LEMMA CountStep ==
    ASSUME NEW q \in Nat, NEW p \in Nat, q <= p
    PROVE  /\ Cardinality(Openings(q, p)) \in Nat
           /\ input[p] \in Opening =>
                Cardinality(Openings(q, p + 1)) = Cardinality(Openings(q, p)) + 1
           /\ input[p] \notin Opening => Openings(q, p + 1) = Openings(q, p)
           /\ Cardinality(Closings(q, p)) \in Nat
           /\ input[p] \in Closing =>
                Cardinality(Closings(q, p + 1)) = Cardinality(Closings(q, p)) + 1
           /\ input[p] \notin Closing => Closings(q, p + 1) = Closings(q, p)
<1>1. IsFiniteSet(q .. p - 1)
  BY FS_Interval
<1>2. Openings(q, p) \subseteq q .. p - 1 /\ Closings(q, p) \subseteq q .. p - 1
  BY DEF Openings, Closings
<1>3. /\ IsFiniteSet(Openings(q, p)) /\ Cardinality(Openings(q, p)) \in Nat
      /\ IsFiniteSet(Closings(q, p)) /\ Cardinality(Closings(q, p)) \in Nat
  BY <1>1, <1>2, FS_Subset, FS_CardinalityType
<1>4. p \notin Openings(q, p) /\ p \notin Closings(q, p)
  BY <1>2
<1>5. q .. p + 1 - 1 = (q .. p - 1) \cup {p}
  OBVIOUS
<1>6. /\ input[p] \in Opening => Openings(q, p + 1) = Openings(q, p) \cup {p}
      /\ input[p] \notin Opening => Openings(q, p + 1) = Openings(q, p)
      /\ input[p] \in Closing => Closings(q, p + 1) = Closings(q, p) \cup {p}
      /\ input[p] \notin Closing => Closings(q, p + 1) = Closings(q, p)
  BY <1>5 DEF Openings, Closings
<1>7. /\ Cardinality(Openings(q, p) \cup {p}) = Cardinality(Openings(q, p)) + 1
      /\ Cardinality(Closings(q, p) \cup {p}) = Cardinality(Closings(q, p)) + 1
  BY <1>3, <1>4, FS_AddElement
<1>8. QED
  BY <1>3, <1>6, <1>7

LEMMA DepthIs ==
    \A q, p : Depth(q, p) = Cardinality(Openings(q, p)) - Cardinality(Closings(q, p))
  BY DEF Depth, Openings, Closings

LEMMA DepthStep ==
    ASSUME NEW q \in Nat, NEW p \in Nat, q <= p
    PROVE  /\ Depth(q, p) \in Int
           /\ input[p] \in Opening => Depth(q, p + 1) = Depth(q, p) + 1
           /\ input[p] \in Closing => Depth(q, p + 1) = Depth(q, p) - 1
           /\ input[p] \notin Opening \cup Closing => Depth(q, p + 1) = Depth(q, p)
<1> DEFINE o == Cardinality(Openings(q, p))
           c == Cardinality(Closings(q, p))
           o1 == Cardinality(Openings(q, p + 1))
           c1 == Cardinality(Closings(q, p + 1))
<1>1. o \in Nat /\ c \in Nat
  BY CountStep
<1>2. /\ input[p] \in Opening => o1 = o + 1 /\ input[p] \notin Closing
      /\ input[p] \notin Opening => o1 = o
      /\ input[p] \in Closing => c1 = c + 1 /\ input[p] \notin Opening
      /\ input[p] \notin Closing => c1 = c
  BY CountStep, SignsApart
<1>3. Depth(q, p) = o - c /\ Depth(q, p + 1) = o1 - c1
  BY DepthIs
<1> HIDE DEF o, c, o1, c1
<1>4. QED
  BY <1>1, <1>2, <1>3

LEMMA DepthNone ==
    ASSUME NEW p \in Nat
    PROVE  Depth(p, p) = 0
<1>1. Openings(p, p) = {} /\ Closings(p, p) = {}
  BY DEF Openings, Closings
<1>2. Cardinality({}) = 0
  BY FS_EmptySet
<1>3. QED
  BY <1>1, <1>2, DepthIs

(* Going from p to the next position. *)
LEMMA ParentsKept ==
    ASSUME NEW p \in Nat \ {0}, input[p] \notin Opening \cup Closing
    PROVE  /\ Parents(p + 1) = Parents(p)
           /\ \A q \in Parents(p) : Depth(q, p + 1) = Depth(q, p)
<1>1. ASSUME NEW q \in Before(p)
      PROVE  /\ Depth(q, p + 1) = Depth(q, p)
             /\ (\A r \in q + 1 .. p + 1 : Depth(q, r) > 0)
                   <=> (\A r \in q + 1 .. p : Depth(q, r) > 0)
  <2>1. q \in Nat /\ q <= p /\ p \in q + 1 .. p
    BY DEF Before
  <2>2. Depth(q, p + 1) = Depth(q, p)
    BY <2>1, DepthStep
  <2>3. q + 1 .. p + 1 = (q + 1 .. p) \cup {p + 1}
    BY <2>1
  <2>4. QED
    BY <2>1, <2>2, <2>3
<1>2. Before(p + 1) = Before(p) \cup {p}
  BY DEF Before
<1>3. QED
  BY <1>1, <1>2 DEF Parents

LEMMA ParentsOpened ==
    ASSUME NEW p \in Nat \ {0}, input[p] \in Opening
    PROVE  /\ Parents(p + 1) = Parents(p) \cup {p} /\ p \notin Parents(p)
           /\ \A q \in Parents(p) : Depth(q, p + 1) = Depth(q, p) + 1
           /\ Depth(p, p + 1) = 1
<1>1. ASSUME NEW q \in Before(p)
      PROVE  /\ Depth(q, p) \in Int /\ Depth(q, p + 1) = Depth(q, p) + 1
             /\ (\A r \in q + 1 .. p + 1 : Depth(q, r) > 0)
                   <=> (\A r \in q + 1 .. p : Depth(q, r) > 0)
  <2>1. q \in Nat /\ q <= p /\ p \in q + 1 .. p
    BY DEF Before
  <2>2. Depth(q, p) \in Int /\ Depth(q, p + 1) = Depth(q, p) + 1
    BY <2>1, DepthStep
  <2>3. q + 1 .. p + 1 = (q + 1 .. p) \cup {p + 1}
    BY <2>1
  <2>4. QED
    BY <2>1, <2>2, <2>3
<1>2. Before(p + 1) = Before(p) \cup {p} /\ p \notin Before(p)
  BY DEF Before
<1>3. Depth(p, p + 1) = 1
  BY DepthStep, DepthNone
<1>4. p + 1 .. p + 1 = {p + 1}
  OBVIOUS
<1>5. \A r \in p + 1 .. p + 1 : Depth(p, r) > 0
  BY <1>3, <1>4
<1>6. QED
  BY <1>1, <1>2, <1>3, <1>5 DEF Parents

LEMMA ParentsClosed ==
    ASSUME NEW p \in Nat \ {0}, input[p] \in Closing
    PROVE  /\ Parents(p + 1) = {q \in Parents(p) : Depth(q, p) > 1}
           /\ \A q \in Parents(p) : Depth(q, p + 1) = Depth(q, p) - 1
<1>1. ASSUME NEW q \in Before(p)
      PROVE  /\ Depth(q, p + 1) = Depth(q, p) - 1
             /\ (\A r \in q + 1 .. p + 1 : Depth(q, r) > 0)
                   <=> (\A r \in q + 1 .. p : Depth(q, r) > 0) /\ Depth(q, p) > 1
  <2>1. q \in Nat /\ q <= p /\ p \in q + 1 .. p
    BY DEF Before
  <2>2. Depth(q, p) \in Int /\ Depth(q, p + 1) = Depth(q, p) - 1
    BY <2>1, DepthStep
  <2>3. q + 1 .. p + 1 = (q + 1 .. p) \cup {p + 1}
    BY <2>1
  <2>4. Depth(q, p + 1) > 0 <=> Depth(q, p) > 1
    BY <2>2
  <2>5. QED
    BY <2>1, <2>2, <2>3, <2>4
<1>2. Before(p + 1) = Before(p) \cup {p} /\ input[p] \notin Opening
  BY SignsApart DEF Before
<1>3. QED
  BY <1>1, <1>2 DEF Parents

LEMMA DepthAdds ==
    ASSUME NEW q \in Nat, NEW r \in Nat, NEW p \in Nat, q <= r, r <= p
    PROVE  /\ Depth(q, p) = Depth(q, r) + Depth(r, p)
           /\ Depth(q, r) \in Int /\ Depth(r, p) \in Int
<1>1. q .. p - 1 = (q .. r - 1) \cup (r .. p - 1)
  OBVIOUS
<1>2. /\ Openings(q, p) = Openings(q, r) \cup Openings(r, p)
      /\ Closings(q, p) = Closings(q, r) \cup Closings(r, p)
  BY <1>1 DEF Openings, Closings
<1>3. Openings(q, r) \cap Openings(r, p) = {} /\ Closings(q, r) \cap Closings(r, p) = {}
  BY DEF Openings, Closings
<1>4. IsFiniteSet(q .. r - 1) /\ IsFiniteSet(r .. p - 1)
  BY FS_Interval
<1>5. /\ Openings(q, r) \subseteq q .. r - 1 /\ Openings(r, p) \subseteq r .. p - 1
      /\ Closings(q, r) \subseteq q .. r - 1 /\ Closings(r, p) \subseteq r .. p - 1
  BY DEF Openings, Closings
<1>6. /\ IsFiniteSet(Openings(q, r)) /\ IsFiniteSet(Openings(r, p))
      /\ IsFiniteSet(Closings(q, r)) /\ IsFiniteSet(Closings(r, p))
  BY <1>4, <1>5, FS_Subset
<1>7. /\ Cardinality(Openings(q, p)) = Cardinality(Openings(q, r)) + Cardinality(Openings(r, p))
      /\ Cardinality(Closings(q, p)) = Cardinality(Closings(q, r)) + Cardinality(Closings(r, p))
  <2>1. Cardinality(Openings(q, r) \cup Openings(r, p))
          = Cardinality(Openings(q, r)) + Cardinality(Openings(r, p))
    BY ONLY <1>3, <1>6, DisjointSize
  <2>2. Cardinality(Closings(q, r) \cup Closings(r, p))
          = Cardinality(Closings(q, r)) + Cardinality(Closings(r, p))
    BY ONLY <1>3, <1>6, DisjointSize
  <2>3. QED
    BY <1>2, <2>1, <2>2
<1>8. /\ Cardinality(Openings(q, r)) \in Nat /\ Cardinality(Openings(r, p)) \in Nat
      /\ Cardinality(Closings(q, r)) \in Nat /\ Cardinality(Closings(r, p)) \in Nat
  BY <1>6, FS_CardinalityType
<1>9. QED
  BY <1>7, <1>8, DepthIs

(* The closer a container around p begins, the less deep p is in it. *)
LEMMA DepthOrder ==
    ASSUME NEW p \in Nat, NEW q \in Parents(p), NEW r \in Parents(p), q < r
    PROVE  Depth(q, p) > Depth(r, p)
<1>1. q \in Nat /\ r \in Nat /\ r < p /\ r \in q + 1 .. p
  BY DEF Parents, Before
<1>2. Depth(q, r) > 0
  BY <1>1 DEF Parents
<1>3. QED
  BY <1>1, <1>2, DepthAdds

LEMMA ParentsType ==
    ASSUME NEW p \in Nat \ {0}
    PROVE  /\ Parents(p) \subseteq 1 .. p - 1
           /\ \A q \in Parents(p) : /\ input[q] \in Opening
                                    /\ Depth(q, p) \in Int /\ Depth(q, p) > 0
<1>1. Parents(p) \subseteq 1 .. p - 1
  BY DEF Parents, Before
<1>2. ASSUME NEW q \in Parents(p)
      PROVE  input[q] \in Opening /\ Depth(q, p) \in Int /\ Depth(q, p) > 0
  <2>1. q \in Nat /\ q < p /\ p \in q + 1 .. p
    BY <1>1
  <2>2. QED
    BY <2>1, DepthStep DEF Parents
<1>3. QED
  BY <1>1, <1>2

LEMMA MaxIs ==
    ASSUME NEW S \in SUBSET Nat, NEW m \in S, \A x \in S : x <= m
    PROVE  Max(S) = m
<1>1. \E x \in S : \A y \in S : x >= y
  OBVIOUS
<1>2. Max(S) \in S /\ \A y \in S : Max(S) >= y
  BY <1>1 DEF Max
<1>3. m \in Nat /\ Max(S) \in Nat /\ Max(S) >= m /\ Max(S) <= m
  BY <1>2
<1>4. QED
  BY <1>3

LEMMA HereType ==
    ASSUME TypeOK
    PROVE  /\ Here \in Nat \ {0} /\ Here - 1 = position /\ position \in Nat
           /\ Len(stack) \in Nat /\ DOMAIN stack = 1 .. Len(stack)
           /\ \A q \in Parents(Here) : /\ q \in 1 .. position /\ input[q] \in Opening
                                       /\ Depth(q, Here) \in Int /\ Depth(q, Here) > 0
                                       /\ Level(q) \in Int
<1>1. position \in Nat /\ Len(stack) \in Nat /\ DOMAIN stack = 1 .. Len(stack)
  BY BytesType, StackTypes
<1>2. Here \in Nat \ {0} /\ Here - 1 = position
  BY <1>1 DEF Here
<1>3. \A q \in Parents(Here) : /\ q \in 1 .. position /\ input[q] \in Opening
                               /\ Depth(q, Here) \in Int /\ Depth(q, Here) > 0
  BY <1>2, ParentsType
<1>4. QED
  BY <1>1, <1>2, <1>3 DEF Level

(* The innermost container is the one that the next token is directly in.  *)
LEMMA Innermost ==
    ASSUME TypeOK, StackIsParents, NEW q \in Parents(Here)
    PROVE  Directly(q, Here) <=> Level(q) = Len(stack)
<1>1. /\ Len(stack) \in Nat /\ DOMAIN stack = 1 .. Len(stack) /\ Here \in Nat
      /\ \A r \in Parents(Here) : r \in Nat /\ Depth(r, Here) \in Int /\ Level(r) \in Int
  BY HereType
<1>2. Len(stack) \in DOMAIN stack
  BY <1>1 DEF StackIsParents
<1>3. PICK top \in Parents(Here) : Level(top) = Len(stack)
  BY <1>2 DEF StackIsParents
<1>4. ASSUME NEW r \in Parents(Here), top < r
      PROVE  FALSE
  <2>1. Depth(top, Here) > Depth(r, Here)
    BY <1>1, <1>4, DepthOrder
  <2>2. Level(r) <= Len(stack)
    BY <1>1 DEF StackIsParents
  <2>3. QED
    BY <1>1, <1>3, <2>1, <2>2, SMTT(30) DEF Level
<1>5. \A r \in Parents(Here) : r <= top
  BY <1>1, <1>4
<1>6. Max(Parents(Here)) = top
  <2>1. Parents(Here) \in SUBSET Nat
    BY <1>1
  <2>2. QED
    BY ONLY <1>3, <1>5, <2>1, MaxIs
<1>7. Level(q) = Len(stack) => q = top
  <2> SUFFICES ASSUME Level(q) = Len(stack), q < top PROVE FALSE
    BY <1>1, <1>5
  <2>1. Depth(q, Here) > Depth(top, Here)
    BY <1>1, DepthOrder
  <2>2. QED
    BY <1>1, <1>3, <2>1 DEF Level
<1>8. Directly(q, Here) <=> Max(Parents(Here)) = q
  BY DEF Directly
<1>9. QED
  BY <1>3, <1>6, <1>7, <1>8

LEMMA NoParents ==
    ASSUME TypeOK, StackIsParents
    PROVE  Parents(Here) = {} <=> stack = <<>>
<1>1. DOMAIN stack = 1 .. Len(stack) /\ Len(stack) \in Nat /\ (stack = <<>> <=> Len(stack) = 0)
  BY HereType, StackTypes, EmptySeq
<1>2. QED
  BY <1>1 DEF StackIsParents

(* The tokens read do not change, and what they mean does not either.      *)
PastKept == \A r \in 1 .. position : input'[r] = input[r]

LEMMA PastNext == TypeOK /\ [Next]_vars => PastKept
<1> SUFFICES ASSUME TypeOK, [Next]_vars PROVE PastKept
  OBVIOUS
<1>1. input \in Seq(Token) /\ position \in 0 .. Len(input) /\ Len(input) \in Nat
  BY LenProperties DEF TypeOK, InputOK
<1>2. CASE input' = input
  BY <1>2 DEF PastKept
<1>3. CASE Disclose
  <2>1. CASE \E t \in Token : input' = Append(input, t)
    <3>1. PICK t \in Token : input' = Append(input, t)
      BY <2>1
    <3>2. \A r \in 1 .. Len(input) : input'[r] = input[r]
      BY <1>1, <3>1, AppendProperties
    <3>3. QED
      BY <1>1, <3>2 DEF PastKept
  <2>2. QED
    BY <1>2, <1>3, <2>1 DEF Disclose
<1>4. input' = input \/ Disclose
  <2>1. (\E result : Stop(result)) => input' = input
    BY DEF Stop
  <2>2. LeafValue => input' = input
    BY DEF LeafValue, Refuse, Stop
  <2>3. Stops \/ Begin => input' = input
    BY DEF Stops, Begin, BadValue, OutOfRange, BadName, NoColon, BadSeparator, RefuseClose,
           Finish, OutOfMemory, Refuse, Stop
  <2>4. QED
    BY <2>2, <2>3 DEF Next, Parse, Stops, vars, SkipWhitespace, OpenContainer, MemberName, Comma,
                      Colon, Close
<1>5. QED
  BY <1>2, <1>3, <1>4

LEMMA DepthKept ==
    ASSUME TypeOK, PastKept, NEW q \in Nat \ {0}, NEW p \in Nat, p <= Here
    PROVE  Depth(q, p)' = Depth(q, p)
<1>1. \A r \in q .. p - 1 : input'[r] = input[r]
  BY HereType DEF PastKept
<1>2. /\ {r \in q .. p - 1 : input'[r] \in Opening} = {r \in q .. p - 1 : input[r] \in Opening}
      /\ {r \in q .. p - 1 : input'[r] \in Closing} = {r \in q .. p - 1 : input[r] \in Closing}
  BY <1>1
<1>3. QED
  BY <1>2 DEF Depth

LEMMA ParentsPast ==
    ASSUME TypeOK, PastKept, NEW p \in 1 .. Here
    PROVE  /\ Parents(p)' = Parents(p)
           /\ \A q : Directly(q, p)' <=> Directly(q, p)
<1>1. Here \in Nat \ {0} /\ Here - 1 = position
  BY HereType
<1>2. ASSUME NEW q \in Before(p)
      PROVE  /\ input'[q] = input[q]
             /\ \A r \in q + 1 .. p : Depth(q, r)' = Depth(q, r)
  <2>1. q \in 1 .. position /\ q \in Nat \ {0} /\ p <= Here
    BY <1>1 DEF Before
  <2>2. input'[q] = input[q]
    BY <2>1 DEF PastKept
  <2>3. ASSUME NEW r \in q + 1 .. p
        PROVE  Depth(q, r)' = Depth(q, r)
    BY <1>1, <2>1, DepthKept
  <2>4. QED
    BY <2>2, <2>3
<1>3. Before(p)' = Before(p)
  BY DEF Before
<1>4. Parents(p)' = Parents(p)
  BY <1>2, <1>3 DEF Parents
<1>5. QED
  BY <1>4 DEF Directly

LEMMA NamesPast ==
    ASSUME TypeOK, PastKept, NEW c \in 1 .. position
    PROVE  /\ input'[c] = input[c]
           /\ NameBefore(c)' = NameBefore(c)
<1>1. position \in Nat
  BY HereType
<1>2. \A r \in Before(c) : input'[r] = input[r]
  BY <1>1 DEF PastKept, Before
<1>3. {r \in Before(c) : input'[r] \in Names} = {r \in Before(c) : input[r] \in Names}
  BY <1>2
<1>4. NameBefore(c)' = NameBefore(c)
  BY <1>3 DEF NameBefore, Before
<1>5. QED
  BY <1>4 DEF PastKept

LEMMA NamedPast ==
    ASSUME TypeOK, PastKept, NEW c \in 1 .. position, NameBefore(c) \in 1 .. position
    PROVE  /\ NameAt(c)' = NameAt(c)
           /\ \A q : NameIn(q, c)' <=> NameIn(q, c)
<1>1. PICK at \in 1 .. position : at = NameBefore(c)
  OBVIOUS
<1>2. NameBefore(c)' = at /\ input'[at] = input[at]
  BY <1>1, NamesPast
<1>3. at \in 1 .. Here
  BY HereType
<1>4. \A q : Directly(q, at)' <=> Directly(q, at)
  BY <1>3, ParentsPast
<1>5. NameAt(c)' = NameAt(c)
  BY <1>1, <1>2 DEF NameAt
<1>6. QED
  BY <1>1, <1>2, <1>4, <1>5 DEF NameIn

(* The sets of signs when the position stays and when it moves. *)
LEMMA SignsStay ==
    ASSUME TypeOK, PastKept, position' = position, NEW q \in Nat
    PROVE  Colons(q)' = Colons(q) /\ Commas(q)' = Commas(q)
<1>1. \A c \in q + 1 .. position : c \in 1 .. Here /\ c \in 1 .. position
  BY HereType
<1>2. \A c \in q + 1 .. position : input'[c] = input[c] /\ (Directly(q, c)' <=> Directly(q, c))
  BY <1>1, ParentsPast, NamesPast
<1>3. Colons(q)' = Colons(q)
  BY <1>2 DEF Colons
<1>4. Commas(q)' = Commas(q)
  BY <1>2 DEF Commas
<1>5. QED
  BY <1>3, <1>4

LEMMA SignsMove ==
    ASSUME TypeOK, input' = input, position' = position + 1, NEW q \in 1 .. position
    PROVE  /\ Colons(q)' = Colons(q) \cup {c \in {Here} : input[c] = ":" /\ Directly(q, c)}
           /\ Commas(q)' = Commas(q) \cup {c \in {Here} : input[c] = "," /\ Directly(q, c)}
<1>1. PastKept
  BY DEF PastKept
<1>2. Here \in Nat \ {0} /\ Here = position + 1 /\ position \in Nat
  BY HereType DEF Here
<1>3. q + 1 .. position + 1 = (q + 1 .. position) \cup {Here}
  BY <1>2
<1>4. \A c \in q + 1 .. position + 1 : Directly(q, c)' <=> Directly(q, c)
  BY <1>1, <1>2, ParentsPast
<1>5. Colons(q)' = {c \in q + 1 .. position + 1 : input[c] = ":" /\ Directly(q, c)}
  BY <1>4 DEF Colons
<1>6. Commas(q)' = {c \in q + 1 .. position + 1 : input[c] = "," /\ Directly(q, c)}
  BY <1>4 DEF Commas
<1>7. Colons(q)' = Colons(q) \cup {c \in {Here} : input[c] = ":" /\ Directly(q, c)}
  BY <1>3, <1>5 DEF Colons
<1>8. Commas(q)' = Commas(q) \cup {c \in {Here} : input[c] = "," /\ Directly(q, c)}
  BY <1>3, <1>6 DEF Commas
<1>9. QED
  BY <1>7, <1>8

LEMMA CommasFinite ==
    ASSUME TypeOK, NEW q \in 1 .. position
    PROVE  /\ IsFiniteSet(Commas(q)) /\ Cardinality(Commas(q)) \in Nat
           /\ Commas(q) \subseteq 1 .. position /\ Colons(q) \subseteq 1 .. position
           /\ Here \notin Commas(q) /\ Here \notin Colons(q)
<1>1. position \in Nat /\ Here = position + 1
  BY HereType DEF Here
<1>2. Commas(q) \subseteq 1 .. position /\ Colons(q) \subseteq 1 .. position
  <2>1. q + 1 .. position \subseteq 1 .. position
    BY <1>1
  <2>2. Commas(q) \subseteq q + 1 .. position /\ Colons(q) \subseteq q + 1 .. position
    BY DEF Commas, Colons
  <2>3. QED
    BY <2>1, <2>2
<1>3. IsFiniteSet(1 .. position)
  BY <1>1, FS_Interval
<1>4. IsFiniteSet(Commas(q)) /\ Cardinality(Commas(q)) \in Nat
  BY <1>2, <1>3, FS_Subset, FS_CardinalityType
<1>5. QED
  BY <1>1, <1>2, <1>4

LEMMA HereStays ==
    ASSUME TypeOK, PastKept, position' = position, UNCHANGED stack
    PROVE  /\ Parents(Here)' = Parents(Here)
           /\ \A q \in Parents(Here) : /\ Level(q)' = Level(q)
                                       /\ OpensObject(q)' <=> OpensObject(q)
<1>1. PICK p \in 1 .. Here : p = Here
  BY HereType
<1>2. Parents(p)' = Parents(p)
  BY ParentsPast
<1>3. Parents(Here)' = Parents(Here)
  BY <1>1, <1>2 DEF Parents, Before, Depth, Here
<1>4. ASSUME NEW q \in Parents(Here)
      PROVE  Level(q)' = Level(q) /\ (OpensObject(q)' <=> OpensObject(q))
  <2>1. q \in 1 .. position /\ q \in Nat \ {0} /\ p \in Nat /\ p <= Here
    BY <1>1, HereType
  <2>2. Depth(q, p)' = Depth(q, p)
    BY <2>1, DepthKept
  <2>3. Level(q)' = Level(q)
    BY <1>1, <2>2 DEF Level, Depth, Here
  <2>4. QED
    BY <2>1, <2>3 DEF OpensObject, PastKept
<1>5. QED
  BY <1>3, <1>4

LEMMA HereMoves ==
    ASSUME TypeOK, input' = input, position' = position + 1, NEW p, p = Here
    PROVE  /\ Parents(Here)' = Parents(p + 1)
           /\ \A q : Level(q)' = Len(stack') + 1 - Depth(q, p + 1)
           /\ \A q : OpensObject(q)' <=> OpensObject(q)
<1>1. Here' = p + 1
  BY DEF Here
<1>2. Parents(Here)' = Parents(p + 1)
  BY <1>1 DEF Parents, Before, Depth
<1>3. \A q : Level(q)' = Len(stack') + 1 - Depth(q, p + 1)
  BY <1>1 DEF Level, Depth
<1>4. QED
  BY <1>2, <1>3 DEF OpensObject

(* What a container that stays open passes on to the next state. *)
Inherited ==
    \A q \in Parents(Here)' : q # Here => q \in Parents(Here) /\ Level(q)' = Level(q)

LEMMA StayingParents ==
    ASSUME TypeOK, PastKept, StackIsParents, position' = position, UNCHANGED stack
    PROVE  StackIsParents' /\ Inherited /\ Here \notin Parents(Here)'
<1>1. /\ Parents(Here)' = Parents(Here)
      /\ \A q \in Parents(Here) : Level(q)' = Level(q) /\ (OpensObject(q)' <=> OpensObject(q))
  BY HereStays
<1>2. Here \notin Parents(Here)
  BY HereType
<1>3. StackIsParents'
  BY <1>1 DEF StackIsParents
<1>4. QED
  BY <1>1, <1>2, <1>3 DEF Inherited

LEMMA PlainParents ==
    ASSUME TypeOK, StackIsParents, input' = input, position' = position + 1,
           input[Here] \notin Opening \cup Closing, UNCHANGED stack
    PROVE  StackIsParents' /\ Inherited /\ Here \notin Parents(Here)'
<1>1. PICK p \in Nat \ {0} : p = Here
  BY HereType
<1>2. Parents(p + 1) = Parents(p) /\ \A q \in Parents(p) : Depth(q, p + 1) = Depth(q, p)
  BY <1>1, ParentsKept
<1>3. /\ Parents(Here)' = Parents(p + 1)
      /\ \A q : Level(q)' = Len(stack') + 1 - Depth(q, p + 1)
      /\ \A q : OpensObject(q)' <=> OpensObject(q)
  BY <1>1, HereMoves
<1>4. Parents(Here)' = Parents(Here)
  BY <1>1, <1>2, <1>3
<1>5. \A q \in Parents(Here) : Level(q)' = Level(q)
  BY <1>1, <1>2, <1>3 DEF Level
<1>6. Here \notin Parents(Here)
  BY HereType
<1>7. StackIsParents'
  BY <1>3, <1>4, <1>5 DEF StackIsParents
<1>8. QED
  BY <1>4, <1>5, <1>6, <1>7 DEF Inherited

LEMMA OpenedParents ==
    ASSUME TypeOK, StackIsParents, input' = input, position' = position + 1,
           input[Here] \in Opening, DOMAIN stack' = 1 .. Len(stack) + 1,
           Len(stack') = Len(stack) + 1,
           \A k \in 1 .. Len(stack) : stack'[k] = stack[k],
           stack'[Len(stack) + 1].object <=> OpensObject(Here)
    PROVE  /\ StackIsParents' /\ Inherited
           /\ \A q : q = Here => Level(q)' = Len(stack) + 1
<1> DEFINE n == Len(stack)
<1>1. PICK p \in Nat \ {0} : p = Here
  BY HereType
<1>2. /\ Parents(p + 1) = Parents(p) \cup {p}
      /\ \A q \in Parents(p) : Depth(q, p + 1) = Depth(q, p) + 1
      /\ Depth(p, p + 1) = 1
  BY <1>1, ParentsOpened
<1>3. /\ Parents(Here)' = Parents(p + 1)
      /\ \A q : Level(q)' = Len(stack') + 1 - Depth(q, p + 1)
      /\ \A q : OpensObject(q)' <=> OpensObject(q)
  BY <1>1, HereMoves
<1>4. /\ n \in Nat /\ DOMAIN stack = 1 .. n
      /\ \A q \in Parents(p) : Depth(q, p) \in Int /\ Level(q) = n + 1 - Depth(q, p)
  BY <1>1, HereType DEF Level
<1> HIDE DEF n
<1>5. DOMAIN stack' = 1 .. n + 1 /\ Len(stack') = n + 1
  BY DEF n
<1>6. \A q \in Parents(p) : Level(q)' = Level(q)
  <2> TAKE q \in Parents(p)
  <2>1. Level(q)' = n + 1 + 1 - (Depth(q, p) + 1)
    BY <1>2, <1>3, <1>5
  <2>2. QED
    BY <1>4, <2>1
<1>7. Level(p)' = n + 1
  BY <1>2, <1>3, <1>4, <1>5
<1>8. /\ \A q \in Parents(p) : Level(q) \in 1 .. n
      /\ \A q \in Parents(p), k \in 1 .. n :
            k = Level(q) => (stack[k].object <=> OpensObject(q))
      /\ \A k \in 1 .. n : \E q \in Parents(p) : Level(q) = k
  BY <1>1, <1>4 DEF StackIsParents
<1>9. /\ \A k \in 1 .. n : stack'[k] = stack[k]
      /\ stack'[n + 1].object <=> OpensObject(p)
  BY <1>1 DEF n
<1>10. ASSUME NEW q \in Parents(p) \cup {p}
       PROVE  Level(q)' \in 1 .. n + 1
  BY <1>4, <1>6, <1>7, <1>8
<1>11. ASSUME NEW q \in Parents(p) \cup {p}, NEW k \in 1 .. n + 1, k = Level(q)'
       PROVE  stack'[k].object <=> OpensObject(q)
  <2>1. CASE q \in Parents(p)
    <3>1. k = Level(q) /\ k \in 1 .. n
      BY <1>6, <1>8, <1>11, <2>1
    <3>2. QED
      BY <1>8, <1>9, <2>1, <3>1
  <2>2. CASE q = p
    BY <1>7, <1>9, <1>11, <2>2
  <2>3. QED
    BY <2>1, <2>2
<1>12. ASSUME NEW k \in 1 .. n + 1
       PROVE  \E q \in Parents(p) \cup {p} : Level(q)' = k
  <2>1. CASE k = n + 1
    BY <1>7, <2>1
  <2>2. CASE k \in 1 .. n
    BY <1>6, <1>8, <2>2
  <2>3. QED
    BY <1>4, <2>1, <2>2
<1>13. Parents(Here)' = Parents(p) \cup {p}
  BY <1>2, <1>3
<1>14. StackIsParents'
  BY <1>3, <1>5, <1>10, <1>11, <1>12, <1>13 DEF StackIsParents
<1>15. Inherited
  BY <1>1, <1>6, <1>13 DEF Inherited
<1>16. QED
  BY <1>1, <1>7, <1>14, <1>15 DEF n

LEMMA ClosedParents ==
    ASSUME TypeOK, StackIsParents, input' = input, position' = position + 1,
           input[Here] \in Closing, NEW m \in Nat, Len(stack) = m + 1,
           DOMAIN stack' = 1 .. m, Len(stack') = m,
           \A k \in 1 .. m : stack'[k] = stack[k]
    PROVE  StackIsParents' /\ Inherited /\ Here \notin Parents(Here)'
<1>1. PICK p \in Nat \ {0} : p = Here
  BY HereType
<1>2. /\ Parents(p + 1) = {q \in Parents(p) : Depth(q, p) > 1}
      /\ \A q \in Parents(p) : Depth(q, p + 1) = Depth(q, p) - 1
  BY <1>1, ParentsClosed
<1>3. /\ Parents(Here)' = Parents(p + 1)
      /\ \A q : Level(q)' = Len(stack') + 1 - Depth(q, p + 1)
      /\ \A q : OpensObject(q)' <=> OpensObject(q)
  BY <1>1, HereMoves
<1>4. /\ DOMAIN stack = 1 .. m + 1 /\ p \notin Parents(p)
      /\ \A q \in Parents(p) : /\ Depth(q, p) \in Int /\ Depth(q, p) > 0
                               /\ Level(q) = m + 1 + 1 - Depth(q, p)
  BY <1>1, HereType DEF Level
<1>5. \A q \in Parents(p) : Level(q)' = Level(q)
  <2> TAKE q \in Parents(p)
  <2>1. Level(q)' = m + 1 - (Depth(q, p) - 1)
    BY <1>2, <1>3
  <2>2. QED
    BY <1>4, <2>1
<1>6. /\ \A q \in Parents(p) : Level(q) \in 1 .. m + 1
      /\ \A q \in Parents(p), k \in 1 .. m + 1 :
            k = Level(q) => (stack[k].object <=> OpensObject(q))
      /\ \A k \in 1 .. m + 1 : \E q \in Parents(p) : Level(q) = k
  BY <1>1, <1>4 DEF StackIsParents
<1>7. \A q \in Parents(p) : Depth(q, p) > 1 <=> Level(q) \in 1 .. m
  <2> TAKE q \in Parents(p)
  <2>1. /\ Depth(q, p) \in Int /\ Level(q) = m + 1 + 1 - Depth(q, p)
        /\ Level(q) \in 1 .. m + 1
    BY <1>4, <1>6
  <2>2. QED
    BY <2>1
<1>8. Parents(Here)' = {q \in Parents(p) : Level(q) \in 1 .. m}
  BY <1>2, <1>3, <1>7
<1>9. ASSUME NEW k \in 1 .. m
      PROVE  \E q \in Parents(p) : Level(q)' = k /\ Level(q) \in 1 .. m
  <2>1. PICK q \in Parents(p) : Level(q) = k
    BY <1>6
  <2>2. QED
    BY <1>5, <2>1
<1>10. \A q \in Parents(Here)' : Level(q)' \in 1 .. m
  BY <1>5, <1>8
<1>11. \A q \in Parents(Here)', k \in 1 .. m :
          k = Level(q)' => (stack'[k].object <=> OpensObject(q)')
  <2> TAKE q \in Parents(Here)', k \in 1 .. m
  <2> HAVE k = Level(q)'
  <2>1. q \in Parents(p) /\ k = Level(q) /\ k \in 1 .. m + 1
    BY <1>5, <1>8
  <2>2. QED
    BY <1>3, <1>6, <2>1
<1>12. \A k \in 1 .. m : \E q \in Parents(Here)' : Level(q)' = k
  BY <1>8, <1>9
<1>13. StackIsParents'
  BY <1>10, <1>11, <1>12 DEF StackIsParents
<1>14. Inherited /\ Here \notin Parents(Here)'
  BY <1>1, <1>4, <1>5, <1>8 DEF Inherited
<1>15. QED
  BY <1>13, <1>14

-----------------------------------------------------------------------------
(* What is said of a container's children stays true while neither its     *)
(* children nor its signs change.                                          *)
LEMMA SignKept ==
    ASSUME TypeOK, PastKept, NEW q, NEW i, NEW c \in 1 .. position, SignedAt(q, i, c),
           scratch_members[i].offset \in Nat, scratch_members[i].offset < position,
           scratch_members'[i].offset = scratch_members[i].offset,
           scratch_members'[i].name = scratch_members[i].name
    PROVE  SignedAt(q, i, c)'
<1>1. /\ NameBefore(c) = scratch_members[i].offset + 1
      /\ NameAt(c) = scratch_members[i].name
      /\ NameIn(q, c)
  BY DEF SignedAt
<1>2. position \in Nat
  BY HereType
<1>3. NameBefore(c) \in 1 .. position
  BY <1>1, <1>2
<1>4. NameBefore(c)' = NameBefore(c)
  BY NamesPast
<1>5. NameAt(c)' = NameAt(c) /\ (NameIn(q, c)' <=> NameIn(q, c))
  BY <1>3, NamedPast
<1>6. NameBefore(c)' = scratch_members'[i].offset + 1
  BY <1>1, <1>4
<1>7. NameAt(c)' = scratch_members'[i].name
  BY <1>1, <1>5
<1>8. NameIn(q, c)'
  BY <1>1, <1>5
<1>9. QED
  BY <1>6, <1>7, <1>8 DEF SignedAt

LEMMA MembersKept ==
    ASSUME TypeOK, PastKept, NEW q \in 1 .. position, NEW k \in 1 .. Len(stack),
           MembersSigned(q, k), stack'[k] = stack[k], EndOf(k)' = EndOf(k),
           Colons(q)' = Colons(q),
           \A i \in 1 .. EndOf(k) :
              /\ scratch_members[i].offset \in Nat /\ scratch_members[i].offset < position
              /\ scratch_members'[i].offset = scratch_members[i].offset
              /\ scratch_members'[i].name = scratch_members[i].name
    PROVE  MembersSigned(q, k)'
<1>1. stack[k].start \in Nat /\ EndOf(k) \in Nat
  BY StackTypes
<1>2. ASSUME NEW i \in stack[k].start + 1 .. EndOf(k)
      PROVE  \E c \in Colons(q) : SignedAt(q, i, c)' /\ (i = EndOf(k) => \A d \in Colons(q) : d <= c)
  <2>1. PICK c \in Colons(q) :
           SignedAt(q, i, c) /\ (i = EndOf(k) => \A d \in Colons(q) : d <= c)
    BY DEF MembersSigned
  <2>2. i \in 1 .. EndOf(k)
    BY <1>1
  <2>3. c \in 1 .. position
    BY CommasFinite
  <2>4. SignedAt(q, i, c)'
    BY <2>1, <2>2, <2>3, SignKept
  <2>5. QED
    BY <2>1, <2>4
<1>3. QED
  BY <1>2 DEF MembersSigned

(* The offsets of pending members lie before the position.                 *)
LEMMA OffsetsPast ==
    ASSUME TypeOK, Named
    PROVE  \A i \in 1 .. Len(scratch_members) :
              scratch_members[i].offset \in Nat /\ scratch_members[i].offset < position
<1>1. DOMAIN scratch_members = 1 .. Len(scratch_members)
  BY LenProperties DEF TypeOK, ScratchOK
<1>2. QED
  BY <1>1, OffsetsType DEF Named, NamesAscend

(* Which signs the token at the position adds. *)
Signs == {":", ","}

LEMMA SignsKept ==
    ASSUME TypeOK, PastKept, NEW q \in 1 .. position,
           \/ position' = position
           \/ /\ input' = input /\ position' = position + 1
              /\ input[Here] \notin Signs \/ ~Directly(q, Here)
    PROVE  Colons(q)' = Colons(q) /\ Commas(q)' = Commas(q)
<1>1. q \in Nat
  BY HereType
<1>2. CASE position' = position
  BY <1>1, <1>2, SignsStay
<1>3. CASE /\ input' = input /\ position' = position + 1
           /\ input[Here] \notin Signs \/ ~Directly(q, Here)
  <2>1. /\ Colons(q)' = Colons(q) \cup {c \in {Here} : input[c] = ":" /\ Directly(q, c)}
        /\ Commas(q)' = Commas(q) \cup {c \in {Here} : input[c] = "," /\ Directly(q, c)}
    BY <1>3, SignsMove
  <2>2. ~(input[Here] = ":" /\ Directly(q, Here)) /\ ~(input[Here] = "," /\ Directly(q, Here))
    BY <1>3 DEF Signs
  <2>3. /\ {c \in {Here} : input[c] = ":" /\ Directly(q, c)} = {}
        /\ {c \in {Here} : input[c] = "," /\ Directly(q, c)} = {}
    BY <2>2
  <2>4. QED
    BY <2>1, <2>3
<1>4. QED
  BY <1>2, <1>3

(* An array has as many items as commas, or one more. *)
Due(k) == Waits(k) \/ expect = "ValueOrEnd"

LEMMA ItemsKept ==
    ASSUME NEW q, NEW k, ItemsSigned(q, k), stack'[k] = stack[k], EndOf(k)' = EndOf(k),
           Commas(q)' = Commas(q), Due(k)' <=> Due(k)
    PROVE  ItemsSigned(q, k)'
<1>1. Cardinality(Commas(q)) = EndOf(k) - stack[k].start - (IF Due(k) THEN 0 ELSE 1)
  BY DEF ItemsSigned, Due
<1>2. Cardinality(Commas(q)') = EndOf(k)' - stack'[k].start - (IF Due(k)' THEN 0 ELSE 1)
  BY <1>1
<1>3. QED
  BY <1>2 DEF ItemsSigned, Due

LEMMA OthersSigned ==
    ASSUME TypeOK, PastKept, Shaped, Named, StackIsParents, ChildrenSigned, Inherited,
           NEW q \in Parents(Here)', q # Here, NEW k, k = Level(q)',
           stack'[k] = stack[k], EndOf(k)' = EndOf(k),
           stack[k].object =>
              /\ Colons(q)' = Colons(q)
              /\ \A i \in 1 .. EndOf(k) :
                    /\ scratch_members'[i].offset = scratch_members[i].offset
                    /\ scratch_members'[i].name = scratch_members[i].name,
           ~stack[k].object => Commas(q)' = Commas(q) /\ (Due(k)' <=> Due(k))
    PROVE  IF stack'[k].object THEN MembersSigned(q, k)' ELSE ItemsSigned(q, k)'
<1>1. q \in Parents(Here) /\ k = Level(q)
  BY DEF Inherited
<1>2. q \in 1 .. position /\ k \in 1 .. Len(stack)
  BY <1>1, HereType DEF StackIsParents
<1>3. k \in DOMAIN stack
  BY <1>2, StackTypes
<1>4. IF stack[k].object THEN MembersSigned(q, k) ELSE ItemsSigned(q, k)
  BY <1>1, <1>3 DEF ChildrenSigned
<1>5. CASE stack[k].object
  <2>1. MembersSigned(q, k)
    BY <1>4, <1>5
  <2>2. EndOf(k) <= Len(scratch_members) /\ EndOf(k) \in Nat /\ Len(scratch_members) \in Nat
    BY <1>2, <1>3, <1>5, StackTypes DEF Shaped, Nested
  <2>3. \A i \in 1 .. EndOf(k) : i \in 1 .. Len(scratch_members)
    BY <2>2
  <2>4. \A i \in 1 .. EndOf(k) :
           /\ scratch_members[i].offset \in Nat /\ scratch_members[i].offset < position
           /\ scratch_members'[i].offset = scratch_members[i].offset
           /\ scratch_members'[i].name = scratch_members[i].name
    BY <1>5, <2>3, OffsetsPast
  <2>5. Colons(q)' = Colons(q)
    BY <1>5
  <2>6. MembersSigned(q, k)'
    BY <1>2, <2>1, <2>4, <2>5, MembersKept
  <2>7. QED
    BY <1>5, <2>6
<1>6. CASE ~stack[k].object
  <2>1. ItemsSigned(q, k)
    BY <1>4, <1>6
  <2>2. Commas(q)' = Commas(q) /\ (Due(k)' <=> Due(k))
    BY <1>6
  <2>3. ItemsSigned(q, k)'
    BY <2>1, <2>2, ItemsKept
  <2>4. QED
    BY <1>6, <2>3
<1>7. QED
  BY <1>5, <1>6

(* Steps that leave the stacks alone and read no sign. *)
LEMMA QuietSigned ==
    ASSUME TypeOK, PastKept, Shaped, Named, StackIsParents, ChildrenSigned,
           Inherited, Here \notin Parents(Here)',
           UNCHANGED <<stack, scratch_items, scratch_members>>,
           \/ position' = position
           \/ /\ input' = input /\ position' = position + 1
              /\ input[Here] \notin Signs,
           \A k \in 1 .. Len(stack) : ~stack[k].object => (Due(k)' <=> Due(k))
    PROVE  ChildrenSigned'
<1>1. ASSUME NEW q \in Parents(Here)', NEW k \in DOMAIN stack', k = Level(q)'
      PROVE  IF stack'[k].object THEN MembersSigned(q, k)' ELSE ItemsSigned(q, k)'
  <2>1. q # Here /\ q \in Parents(Here) /\ k \in 1 .. Len(stack)
    BY <1>1, StackTypes DEF Inherited
  <2>2. q \in 1 .. position
    BY <2>1, HereType
  <2>3. Colons(q)' = Colons(q) /\ Commas(q)' = Commas(q)
    BY <2>2, SignsKept
  <2>4. stack'[k] = stack[k] /\ EndOf(k)' = EndOf(k)
    BY DEF EndOf
  <2>5. ~stack[k].object => (Due(k)' <=> Due(k))
    BY <2>1
  <2>6. QED
    BY <1>1, <2>1, <2>3, <2>4, <2>5, OthersSigned
<1>2. QED
  BY <1>1 DEF ChildrenSigned

(* A new container has read no sign yet. *)
LEMMA NewSigned ==
    ASSUME TypeOK, position' = position + 1, NEW q, q = Here
    PROVE  Colons(q)' = {} /\ Commas(q)' = {}
<1>1. q \in Nat /\ q = position + 1 /\ position \in Nat
  BY HereType DEF Here
<1>2. q + 1 .. position + 1 = {}
  BY <1>1
<1>3. QED
  BY <1>2 DEF Colons, Commas

LEMMA OpenedSigned ==
    ASSUME TypeOK, PastKept, Shaped, Named, Located, OpenContainer
    PROVE  StackIsParents' /\ ChildrenSigned'
<1> DEFINE n == Len(stack)
<1>1. PICK entry \in OpenEntry : Opened(entry) /\ entry.object = (Peek = "{")
  BY OpenContainerOpens
<1>2. /\ DOMAIN stack' = 1 .. n + 1 /\ Len(stack') = n + 1
      /\ \A k \in 1 .. n : stack'[k] = stack[k] /\ EndOf(k)' = EndOf(k)
      /\ stack'[n + 1] = entry
      /\ \A k : k = n + 1 => EndOf(k)' = entry.start
  BY <1>1, OpenedEnds
<1>3. /\ input' = input /\ position' = position + 1 /\ scratch_members' = scratch_members
      /\ expect \in {"Value", "ValueOrEnd"} /\ Peek \in Opening /\ ~AtEnd
      /\ entry.object \/ expect' = "ValueOrEnd"
  <2>1. End \notin Opening
    BY TokensAssumption DEF Token, Punctuation
  <2>2. Peek \in Opening
    BY DEF OpenContainer
  <2>3. ~AtEnd
    BY <2>1, <2>2 DEF Peek
  <2>4. QED
    BY <1>1, <2>2, <2>3 DEF OpenContainer, AtValue
<1>4. Peek = input[Here]
  BY <1>3 DEF Peek, Here
<1>5. entry.object <=> OpensObject(Here)
  BY <1>1, <1>4 DEF OpensObject, OpenEntry
<1>6. StackIsParents' /\ Inherited /\ \A q : q = Here => Level(q)' = n + 1
  BY <1>2, <1>3, <1>4, <1>5, OpenedParents DEF Located
<1>7. n \in Nat /\ DOMAIN stack = 1 .. n /\ entry.start \in Nat
  BY StackTypes DEF OpenEntry, Id
<1>8. Opening \cap Signs = {}
  BY DEF Opening, Signs
<1> HIDE DEF n
<1>9. ASSUME NEW q \in Parents(Here)', NEW k \in DOMAIN stack', k = Level(q)'
      PROVE  IF stack'[k].object THEN MembersSigned(q, k)' ELSE ItemsSigned(q, k)'
  <2>1. CASE q = Here
    <3>1. k = n + 1
      BY <1>6, <1>9, <2>1
    <3>2. Colons(q)' = {} /\ Commas(q)' = {}
      BY <1>3, <2>1, NewSigned
    <3>3. stack'[k] = entry /\ EndOf(k)' = entry.start
      BY <1>2, <3>1
    <3>4. CASE entry.object
      <4>1. entry.start + 1 .. entry.start = {}
        BY <1>7
      <4>2. MembersSigned(q, k)'
        BY <3>3, <4>1 DEF MembersSigned
      <4>3. QED
        BY <3>3, <3>4, <4>2
    <3>5. CASE ~entry.object
      <4>1. Due(k)'
        BY <1>3, <3>5 DEF Due
      <4>2. Cardinality(Commas(q)') = 0
        BY <3>2, FS_EmptySet
      <4>3. Cardinality(Commas(q)') = EndOf(k)' - stack'[k].start - 0
        BY <1>7, <3>3, <4>2
      <4>4. ItemsSigned(q, k)'
        BY <4>1, <4>3 DEF ItemsSigned, Due
      <4>5. QED
        BY <3>3, <3>5, <4>4
    <3>6. QED
      BY <3>4, <3>5
  <2>2. CASE q # Here
    <3>1. q \in Parents(Here) /\ k = Level(q)
      BY <1>6, <1>9, <2>2 DEF Inherited
    <3>2. q \in 1 .. position /\ k \in 1 .. n
      BY <1>7, <3>1, HereType DEF Located, StackIsParents
    <3>3. Colons(q)' = Colons(q) /\ Commas(q)' = Commas(q)
      BY <1>3, <1>4, <1>8, <3>2, SignsKept
    <3>4. Due(k) /\ Due(k)'
      <4>1. k < n + 1 /\ (k < n \/ k = n)
        BY <1>7, <3>2
      <4>2. Due(k)'
        BY <1>2, <4>1 DEF Due, Waits
      <4>3. Due(k)
        BY <1>3 DEF Due, Waits
      <4>4. QED
        BY <4>2, <4>3
    <3>5. stack'[k] = stack[k] /\ EndOf(k)' = EndOf(k)
      BY <1>2, <3>2
    <3>6. QED
      BY <1>3, <1>6, <1>9, <2>2, <3>3, <3>4, <3>5, OthersSigned DEF Located
  <2>3. QED
    BY <2>1, <2>2
<1>10. ChildrenSigned'
  BY <1>9 DEF ChildrenSigned
<1>11. QED
  BY <1>6, <1>10

LEMMA CompletedSigned ==
    ASSUME TypeOK, TypeOK', PastKept, Shaped, Named, StackIsParents, ChildrenSigned, Inherited,
           Here \notin Parents(Here)', NEW m, Completed(m),
           input' = input, position' = position + 1, input[Here] \notin Signs,
           m < Len(stack) \/ expect \in {"Value", "ValueOrEnd"},
           \A i \in 1 .. Len(scratch_members') :
              /\ scratch_members'[i].offset = scratch_members[i].offset
              /\ scratch_members'[i].name = scratch_members[i].name
    PROVE  ChildrenSigned'
<1>1. /\ m \in Nat /\ m <= Len(stack) /\ Len(stack) \in Nat /\ Len(scratch_members') \in Nat
      /\ Len(stack') = m /\ expect' = "Separator"
  BY StackTypes, LenProperties DEF Completed, TypeOK, ScratchOK
<1>2. DOMAIN stack' = 1 .. m
  BY <1>1, LenProperties DEF TypeOK, ScratchOK
<1>3. /\ \A k \in 1 .. m : stack'[k] = stack[k]
      /\ \A k \in 1 .. m : k < m \/ stack[k].object => EndOf(k)' = EndOf(k)
      /\ \A k \in 1 .. m : stack[k].object => EndOf(k)' <= Len(scratch_members')
      /\ \A k \in 1 .. m : k = m /\ ~stack[k].object => EndOf(k)' = EndOf(k) + 1
      /\ \A k \in 1 .. m : EndOf(k) \in Nat /\ stack[k].start \in Nat
                             /\ stack[k].object \in BOOLEAN
  <2>1. \A k \in 1 .. m : k \in 1 .. Len(stack)
    BY <1>1
  <2>2. \A k \in 1 .. m : EndOf(k) \in Nat /\ stack[k].start \in Nat /\ stack[k].object \in BOOLEAN
    BY <2>1, StackTypes
  <2>3. ASSUME NEW k \in 1 .. m
        PROVE  /\ k < m \/ stack[k].object => EndOf(k)' = EndOf(k)
               /\ k = m /\ ~stack[k].object => EndOf(k)' = EndOf(k) + 1
    <3>1. CASE k < m
      <4>1. k \in 1 .. m - 1
        BY <1>1, <3>1
      <4>2. QED
        BY <3>1, <4>1 DEF Completed
    <3>2. CASE k = m
      <4>1. EndOf(k)' = EndOf(k) + (IF stack[k].object THEN 0 ELSE 1)
        BY <3>2 DEF Completed
      <4>2. EndOf(k) \in Nat
        BY <2>2
      <4>3. QED
        BY <1>1, <3>2, <4>1, <4>2
    <3>3. QED
      BY <1>1, <3>1, <3>2
  <2>4. QED
    BY <2>2, <2>3 DEF Completed
<1>4. ASSUME NEW q \in Parents(Here)', NEW k \in 1 .. m, k = Level(q)'
      PROVE  IF stack'[k].object THEN MembersSigned(q, k)' ELSE ItemsSigned(q, k)'
  <2>1. q # Here /\ q \in Parents(Here) /\ k = Level(q)
    BY <1>4 DEF Inherited
  <2>2. q \in 1 .. position /\ k \in 1 .. Len(stack)
    BY <1>1, <2>1, HereType
  <2>3. Colons(q)' = Colons(q) /\ Commas(q)' = Commas(q)
    BY <2>2, SignsKept
  <2>4. CASE k < m \/ stack[k].object
    <3>1. stack'[k] = stack[k] /\ EndOf(k)' = EndOf(k)
      BY <1>3, <2>4
    <3>2. stack[k].object =>
             \A i \in 1 .. EndOf(k) :
                /\ scratch_members'[i].offset = scratch_members[i].offset
                /\ scratch_members'[i].name = scratch_members[i].name
      <4> SUFFICES ASSUME stack[k].object, NEW i \in 1 .. EndOf(k)
                   PROVE  /\ scratch_members'[i].offset = scratch_members[i].offset
                          /\ scratch_members'[i].name = scratch_members[i].name
        OBVIOUS
      <4>1. EndOf(k) <= Len(scratch_members') /\ EndOf(k) \in Nat
        BY <1>3, <3>1
      <4>2. i \in 1 .. Len(scratch_members')
        BY <1>1, <4>1
      <4>3. QED
        BY <4>2
    <3>3. ~stack[k].object => Due(k) /\ Due(k)'
      <4> SUFFICES ASSUME ~stack[k].object PROVE Due(k) /\ Due(k)'
        OBVIOUS
      <4>1. k < m
        BY <2>4
      <4>2. k < Len(stack) /\ k < Len(stack')
        BY <1>1, <4>1
      <4>3. QED
        BY <4>2 DEF Due, Waits
    <3>4. QED
      BY <1>4, <2>1, <2>3, <3>1, <3>2, <3>3, OthersSigned
  <2>5. CASE k = m /\ ~stack[k].object
    <3>1. ItemsSigned(q, k)
      BY <2>1, <2>2, <2>5, StackTypes DEF ChildrenSigned
    <3>2. Due(k)
      BY <1>1, <2>5 DEF Due, Waits
    <3>3. ~Due(k)'
      BY <1>1, <2>5 DEF Due, Waits
    <3>4. Cardinality(Commas(q)) = EndOf(k) - stack[k].start - 0
      BY <3>1, <3>2 DEF ItemsSigned, Due
    <3>5. EndOf(k)' = EndOf(k) + 1 /\ EndOf(k) \in Nat /\ stack[k].start \in Nat
          /\ stack'[k] = stack[k]
      BY <1>3, <2>5
    <3>6. EndOf(k) - stack[k].start - 0 = EndOf(k) + 1 - stack[k].start - 1
      BY <3>5
    <3>7. Cardinality(Commas(q)') = EndOf(k)' - stack'[k].start - 1
      BY <2>3, <3>4, <3>5, <3>6
    <3>8. ItemsSigned(q, k)'
      BY <3>3, <3>7 DEF ItemsSigned, Due
    <3>9. QED
      BY <2>5, <3>5, <3>8
  <2>6. QED
    BY <1>1, <2>4, <2>5
<1>5. QED
  BY <1>2, <1>4 DEF ChildrenSigned

LEMMA PlainToken ==
    ASSUME NEW t \in Scalar \cup Space
    PROVE  t \notin Opening \cup Closing /\ t \notin Signs
  BY TokensAssumption DEF Punctuation, Opening, Closing, Signs

LEMMA ClosingToken ==
    ASSUME NEW t \in Closing
    PROVE  t \in Token /\ t \notin Signs
  BY DEF Closing, Token, Punctuation, Signs

LEMMA PeekHere ==
    ASSUME Peek \in Token
    PROVE  ~AtEnd /\ input[Here] = Peek
<1>1. ~AtEnd
  BY TokensAssumption DEF Peek
<1>2. QED
  BY <1>1 DEF Peek, Here

LEMMA LeafSigned ==
    ASSUME TypeOK, TypeOK', PastKept, Shaped, Named, Located, LeafValue,
           ~NoMember(stack, scratch_members)
    PROVE  StackIsParents' /\ ChildrenSigned'
<1>1. /\ Completed(Len(stack))
      /\ Complete(Len(slots), stack, scratch_items, scratch_members)
      /\ input' = input /\ stack' = stack /\ position' = position + 1
  BY LeafCompletes
<1>2. Peek \in Scalar /\ expect \in {"Value", "ValueOrEnd"}
  BY DEF LeafValue, AtValue
<1>3. Peek \in Token /\ input[Here] = Peek
  BY <1>2, PeekHere DEF Token
<1>4. input[Here] \notin Opening \cup Closing /\ input[Here] \notin Signs
  BY <1>2, <1>3, PlainToken
<1>5. StackIsParents' /\ Inherited /\ Here \notin Parents(Here)'
  BY <1>1, <1>4, PlainParents DEF Located
<1>6. /\ Len(slots) \in Id /\ stack \in Seq([object : BOOLEAN, start : Id])
      /\ scratch_items \in Seq(Id) /\ scratch_members \in Seq(PendingMember)
  BY BytesType DEF TypeOK, ScratchOK, Id
<1>7. /\ Len(scratch_members') = Len(scratch_members)
      /\ \A i \in 1 .. Len(scratch_members) :
            /\ scratch_members'[i].offset = scratch_members[i].offset
            /\ scratch_members'[i].name = scratch_members[i].name
  BY <1>1, <1>6, CompleteNames
<1>8. StackIsParents /\ ChildrenSigned
  BY DEF Located
<1>9. ChildrenSigned'
  BY <1>1, <1>2, <1>4, <1>5, <1>7, <1>8, CompletedSigned
<1>10. QED
  BY <1>5, <1>9

LEMMA CloseNames ==
    ASSUME TypeOK, NEW outer, NEW top, ClosedInto(outer, top)
    PROVE  /\ Len(scratch_members') <= Len(scratch_members)
           /\ \A i \in 1 .. Len(scratch_members') :
                 /\ scratch_members'[i].offset = scratch_members[i].offset
                 /\ scratch_members'[i].name = scratch_members[i].name
<1>1. /\ outer \in Seq(OpenEntry) /\ top.object \in BOOLEAN /\ top.start \in Nat
  BY DEF ClosedInto, OpenEntry, Id
<1>2. /\ scratch_items \in Seq(Id) /\ scratch_members \in Seq(PendingMember)
      /\ Len(slots) \in Id /\ Len(scratch_members) \in Nat
  BY LenProperties DEF TypeOK, ScratchOK, ArenaOK, Id
<1>3. outer \in Seq([object : BOOLEAN, start : Id])
  BY <1>1 DEF OpenEntry
<1>4. CASE top.object
  <2>1. CloseObject(outer, top.start)
    BY <1>4 DEF ClosedInto
  <2>2. PICK left : left = Dropped(scratch_members, top.start)
    OBVIOUS
  <2>3. /\ left \in Seq(PendingMember) /\ Len(left) <= Len(scratch_members) /\ Len(left) \in Nat
        /\ \A i \in 1 .. Len(left) : left[i] = scratch_members[i]
    BY <1>1, <1>2, <2>2, DroppedType
  <2>4. Complete(Len(slots), outer, scratch_items, left) /\ ~NoMember(outer, left)
    BY <1>4, <2>1, <2>2 DEF ClosedInto, CloseObject
  <2>5. /\ Len(scratch_members') = Len(left)
        /\ \A i \in 1 .. Len(left) : /\ scratch_members'[i].offset = left[i].offset
                                     /\ scratch_members'[i].name = left[i].name
    BY <1>2, <1>3, <2>3, <2>4, CompleteNames
  <2>6. QED
    BY <2>3, <2>5
<1>5. CASE ~top.object
  <2>1. CloseArray(outer, top.start)
    BY <1>5 DEF ClosedInto
  <2>2. PICK left : left = Dropped(scratch_items, top.start)
    OBVIOUS
  <2>3. left \in Seq(Id)
    BY <1>1, <1>2, <2>2, DroppedType
  <2>4. Complete(Len(slots), outer, left, scratch_members) /\ ~NoMember(outer, scratch_members)
    BY <1>5, <2>1, <2>2 DEF ClosedInto, CloseArray
  <2>5. /\ Len(scratch_members') = Len(scratch_members)
        /\ \A i \in 1 .. Len(scratch_members) :
              /\ scratch_members'[i].offset = scratch_members[i].offset
              /\ scratch_members'[i].name = scratch_members[i].name
    BY <1>2, <1>3, <2>3, <2>4, CompleteNames
  <2>6. QED
    BY <1>2, <2>5
<1>6. QED
  BY <1>1, <1>4, <1>5

LEMMA CloseSigned ==
    ASSUME TypeOK, TypeOK', PastKept, Shaped, Named, Located, Close
    PROVE  StackIsParents' /\ ChildrenSigned'
<1>1. PICK outer, top : ClosedInto(outer, top)
  BY CloseCloses
<1>2. expect # "Value"
  BY CloseCloses
<1>3. /\ Completed(Len(outer)) /\ Len(stack) = Len(outer) + 1 /\ Len(outer) \in Nat
  BY <1>1, <1>2, CloseCompletes
<1>4. input' = input /\ position' = position + 1 /\ stack' = outer /\ outer \in Seq(OpenEntry)
  BY <1>1 DEF ClosedInto
<1>5. Peek \in Closing
  BY DEF Close, AtClose, Closing
<1>6. input[Here] \in Closing /\ input[Here] \notin Signs
  BY <1>5, ClosingToken, PeekHere
<1>7. DOMAIN stack' = 1 .. Len(outer) /\ Len(stack') = Len(outer)
  BY <1>4, LenProperties
<1>8. \A k \in 1 .. Len(outer) : stack'[k] = stack[k]
  BY <1>3, SMTT(30) DEF Completed
<1>9. StackIsParents' /\ Inherited /\ Here \notin Parents(Here)'
  BY <1>3, <1>4, <1>6, <1>7, <1>8, ClosedParents DEF Located
<1>10. \A i \in 1 .. Len(scratch_members') :
          /\ scratch_members'[i].offset = scratch_members[i].offset
          /\ scratch_members'[i].name = scratch_members[i].name
  BY <1>1, CloseNames
<1>11. StackIsParents /\ ChildrenSigned /\ Len(outer) < Len(stack)
  BY <1>3 DEF Located
<1>12. ChildrenSigned'
  BY <1>3, <1>4, <1>6, <1>9, <1>10, <1>11, CompletedSigned
<1>13. QED
  BY <1>9, <1>12

LEMMA SignTokens ==
    /\ "," \in Token /\ "," \notin Opening \cup Closing
    /\ ":" \in Token /\ ":" \notin Opening \cup Closing
  BY DEF Token, Punctuation, Opening, Closing

LEMMA CommaSigned ==
    ASSUME TypeOK, PastKept, Shaped, Named, Located, Comma
    PROVE  StackIsParents' /\ ChildrenSigned'
<1> DEFINE n == Len(stack)
<1>1. /\ UNCHANGED <<stack, scratch_items, scratch_members>>
      /\ input' = input /\ position' = position + 1 /\ expect = "Separator"
      /\ expect' = (IF InObject(stack) THEN "Name" ELSE "Value") /\ stack # <<>>
  BY DEF Comma, AtSeparator, scratch
<1>2. input[Here] = ","
  BY SignTokens, PeekHere DEF Comma
<1>3. StackIsParents' /\ Inherited /\ Here \notin Parents(Here)'
  BY <1>1, <1>2, SignTokens, PlainParents DEF Located
<1>4. n \in Nat /\ DOMAIN stack = 1 .. n /\ n # 0 /\ Last(stack) = stack[n]
  BY <1>1, StackTypes, EmptySeq DEF Last
<1>5. \A k \in 1 .. n : stack'[k] = stack[k] /\ EndOf(k)' = EndOf(k)
  BY <1>1 DEF EndOf
<1> HIDE DEF n
<1>6. ASSUME NEW q \in Parents(Here)', NEW k \in 1 .. n, k = Level(q)'
      PROVE  IF stack'[k].object THEN MembersSigned(q, k)' ELSE ItemsSigned(q, k)'
  <2>1. q # Here /\ q \in Parents(Here) /\ k = Level(q)
    BY <1>3, <1>6 DEF Inherited
  <2>2. q \in 1 .. position
    BY <2>1, HereType
  <2>3. /\ Colons(q)' = Colons(q) \cup {c \in {Here} : input[c] = ":" /\ Directly(q, c)}
        /\ Commas(q)' = Commas(q) \cup {c \in {Here} : input[c] = "," /\ Directly(q, c)}
    BY <1>1, <2>2, SignsMove
  <2>4. Colons(q)' = Colons(q)
    <3>1. {c \in {Here} : input[c] = ":" /\ Directly(q, c)} = {}
      BY <1>2
    <3>2. QED
      BY <2>3, <3>1
  <2>5. Directly(q, Here) <=> k = n
    BY <2>1, Innermost DEF Located, n
  <2>6. stack'[k] = stack[k] /\ EndOf(k)' = EndOf(k)
    BY <1>5
  <2>7. CASE k < n \/ stack[k].object
    <3>1. ~stack[k].object => Commas(q)' = Commas(q) /\ Due(k) /\ Due(k)'
      <4> SUFFICES ASSUME ~stack[k].object PROVE Commas(q)' = Commas(q) /\ Due(k) /\ Due(k)'
        OBVIOUS
      <4>1. k < n /\ k # n
        BY <1>4, <2>7
      <4>2. {c \in {Here} : input[c] = "," /\ Directly(q, c)} = {}
        BY <2>5, <4>1
      <4>3. Due(k) /\ Due(k)'
        BY <1>1, <4>1 DEF Due, Waits, n
      <4>4. QED
        BY <2>3, <4>2, <4>3
    <3>2. QED
      BY <1>1, <1>3, <1>6, <2>1, <2>4, <2>6, <3>1, OthersSigned DEF Located
  <2>8. CASE k = n /\ ~stack[k].object
    <3>1. ItemsSigned(q, k)
      BY <1>4, <2>1, <2>8 DEF Located, ChildrenSigned
    <3>2. ~InObject(stack)
      BY <1>4, <2>8 DEF InObject
    <3>3. ~Due(k) /\ Due(k)'
      BY <1>1, <1>4, <2>8, <3>2 DEF Due, Waits, n
    <3>4. Cardinality(Commas(q)) = EndOf(k) - stack[k].start - 1
      BY <3>1, <3>3 DEF ItemsSigned, Due
    <3>5. Commas(q)' = Commas(q) \cup {Here}
      <4>1. {c \in {Here} : input[c] = "," /\ Directly(q, c)} = {Here}
        BY <1>2, <2>5, <2>8
      <4>2. QED
        BY <2>3, <4>1
    <3>6. Cardinality(Commas(q)') = Cardinality(Commas(q)) + 1
      <4>1. IsFiniteSet(Commas(q)) /\ Here \notin Commas(q)
        BY <2>2, CommasFinite
      <4>2. QED
        BY <3>5, <4>1, FS_AddElement
    <3>7. EndOf(k) \in Nat /\ stack[k].start \in Nat
      BY <1>6, StackTypes DEF n
    <3>8. Cardinality(Commas(q)') = EndOf(k)' - stack'[k].start - 0
      BY <2>6, <3>4, <3>6, <3>7
    <3>9. ItemsSigned(q, k)'
      BY <3>3, <3>8 DEF ItemsSigned, Due
    <3>10. QED
      BY <2>6, <2>8, <3>9
  <2>9. QED
    BY <1>4, <2>7, <2>8
<1>7. ChildrenSigned'
  BY <1>1, <1>4, <1>6 DEF ChildrenSigned
<1>8. QED
  BY <1>3, <1>7

(* The name before the colon is the one that was kept.                     *)
LEMMA ColonName ==
    ASSUME TypeOK, NameRead, expect = "Colon"
    PROVE  /\ NameBefore(Here) = name.offset + 1
           /\ name.offset \in Nat /\ name.offset + 1 \in 1 .. position
           /\ NameAt(Here) = name.name
           /\ \A q : NameIn(q, Here) <=> Directly(q, Here)
<1>1. PICK at : at = name.offset + 1
  OBVIOUS
<1>2. /\ name.offset < position
      /\ input[at] = name.name
      /\ Parents(at) = Parents(Here)
      /\ \A r \in at + 1 .. position : input[r] \notin Names
  BY <1>1 DEF NameRead
<1>3. name.offset \in Nat /\ name.name \in Names
  BY OffsetsType DEF TypeOK, ExpectOK
<1>4. position \in Nat /\ Here = position + 1
  BY HereType DEF Here
<1>5. at \in 1 .. position
  BY <1>1, <1>2, <1>3, <1>4
<1> DEFINE named == {r \in Before(Here) : input[r] \in Names}
<1>6. Before(Here) = 1 .. position
  BY <1>4 DEF Before
<1>7. at \in named /\ named \in SUBSET Nat
  BY <1>2, <1>3, <1>4, <1>5, <1>6
<1>8. ASSUME NEW r \in named
      PROVE  r <= at
  <2>1. r \in 1 .. position /\ input[r] \in Names
    BY <1>6
  <2>2. r \notin at + 1 .. position
    BY <1>2, <2>1
  <2>3. QED
    BY <1>4, <1>5, <2>1, <2>2
<1>9. NameBefore(Here) = at
  <2>1. NameBefore(Here) = Max(named)
    BY DEF NameBefore
  <2> HIDE DEF named
  <2>2. QED
    BY <1>7, <1>8, <2>1, MaxIs
<1>10. NameAt(Here) = name.name
  BY <1>2, <1>9 DEF NameAt
<1>11. \A q : NameIn(q, Here) <=> Directly(q, Here)
  BY <1>2, <1>9 DEF NameIn, Directly
<1>12. QED
  BY <1>1, <1>3, <1>5, <1>9, <1>10, <1>11

(* Nothing of a text depends on how far it is read. *)
LEMMA TextSame ==
    ASSUME input' = input
    PROVE  /\ \A q, p : Directly(q, p)' <=> Directly(q, p)
           /\ \A p : Parents(p)' = Parents(p)
           /\ \A c : NameBefore(c)' = NameBefore(c) /\ NameAt(c)' = NameAt(c)
           /\ \A q, c : NameIn(q, c)' <=> NameIn(q, c)
<1>1. \A q, p : Depth(q, p)' = Depth(q, p)
  BY DEF Depth
<1>2. \A p : Parents(p)' = Parents(p)
  BY <1>1 DEF Parents, Before
<1>3. \A q, p : Directly(q, p)' <=> Directly(q, p)
  BY <1>2 DEF Directly
<1>4. \A c : NameBefore(c)' = NameBefore(c)
  BY DEF NameBefore, Before
<1>5. \A c : NameAt(c)' = NameAt(c)
  BY <1>4 DEF NameAt
<1>6. \A q, c : NameIn(q, c)' <=> NameIn(q, c)
  BY <1>3, <1>4 DEF NameIn
<1>7. QED
  BY <1>2, <1>3, <1>4, <1>5, <1>6

LEMMA ColonSigned ==
    ASSUME TypeOK, TypeOK', PastKept, Shaped, Named, Located, Colon
    PROVE  StackIsParents' /\ ChildrenSigned'
<1> DEFINE n == Len(stack)
           l == Len(scratch_members)
           pending == Pending(name.name, name.offset)
<1>1. /\ UNCHANGED <<stack, scratch_items>> /\ scratch_members' = Append(scratch_members, pending)
      /\ input' = input /\ position' = position + 1 /\ expect = "Colon"
      /\ expect' = "Value"
  BY DEF Colon
<1>2. input[Here] = ":"
  BY SignTokens, PeekHere DEF Colon
<1>3. StackIsParents' /\ Inherited /\ Here \notin Parents(Here)'
  BY <1>1, <1>2, SignTokens, PlainParents DEF Located
<1>4. stack # <<>> /\ Last(stack).object
  BY <1>1 DEF Shaped, Turn, InObject
<1>5. n \in Nat /\ DOMAIN stack = 1 .. n /\ n # 0 /\ Last(stack) = stack[n] /\ l \in Nat
      /\ \A k \in 1 .. n : stack[k].start \in Nat /\ EndOf(k) \in Nat
  BY <1>4, StackTypes, EmptySeq DEF Last
<1>6. stack \in Seq(OpenEntry)
  BY StackTypes
<1>7. pending.name = name.name /\ pending.offset = name.offset
  BY DEF Pending
<1>8. /\ Len(scratch_members') = l + 1
      /\ \A i \in 1 .. l : scratch_members'[i] = scratch_members[i]
      /\ scratch_members'[l + 1] = pending
  <2>1. scratch_members \in Seq(PendingMember \cup {pending})
    BY DEF TypeOK, ScratchOK
  <2> HIDE DEF pending
  <2>2. QED
    BY <1>1, <2>1, AppendProperties, LenProperties
<1>9. \A k \in 1 .. n - 1 : EndOf(k)' = EndOf(k)
  <2>1. \A k \in 1 .. n - 1 :
           EndIn(stack, Len(scratch_items), Len(scratch_members'), k)
             = EndIn(stack, Len(scratch_items), Len(scratch_members), k)
    BY <1>4, <1>6, EndBelow
  <2>2. QED
    BY <1>1, <2>1 DEF EndOf
<1>10. EndOf(n) = l /\ \A k : k = n => EndOf(k)' = l + 1
  <2>1. EndIn(stack, Len(scratch_items), Len(scratch_members), n) = l
    BY <1>4, <1>6, EndInnermost
  <2>2. EndIn(stack, Len(scratch_items), Len(scratch_members'), n) = l + 1
    BY <1>4, <1>6, <1>8, EndInnermost
  <2>3. QED
    BY <1>1, <2>1, <2>2 DEF EndOf
<1> HIDE DEF n, l, pending
<1>11. ASSUME NEW q \in Parents(Here)', NEW k \in 1 .. n, k = Level(q)'
       PROVE  IF stack'[k].object THEN MembersSigned(q, k)' ELSE ItemsSigned(q, k)'
  <2>1. q # Here /\ q \in Parents(Here) /\ k = Level(q)
    BY <1>3, <1>11 DEF Inherited
  <2>2. q \in 1 .. position
    BY <2>1, HereType
  <2>3. /\ Colons(q)' = Colons(q) \cup {c \in {Here} : input[c] = ":" /\ Directly(q, c)}
        /\ Commas(q)' = Commas(q) \cup {c \in {Here} : input[c] = "," /\ Directly(q, c)}
    BY <1>1, <2>2, SignsMove
  <2>4. Directly(q, Here) <=> k = n
    BY <2>1, Innermost DEF Located, n
  <2>5. stack'[k] = stack[k]
    BY <1>1
  <2>6. CASE k < n
    <3>1. Colons(q)' = Colons(q) /\ Commas(q)' = Commas(q)
      <4>1. ~Directly(q, Here)
        BY <1>5, <2>4, <2>6
      <4>2. {c \in {Here} : input[c] = ":" /\ Directly(q, c)} = {}
        BY <4>1
      <4>3. {c \in {Here} : input[c] = "," /\ Directly(q, c)} = {}
        BY <4>1
      <4>4. QED
        BY <2>3, <4>2, <4>3
    <3>2. k \in 1 .. n - 1
      BY <1>5, <2>6
    <3>3. EndOf(k)' = EndOf(k)
      BY <1>9, <3>2
    <3>4. Due(k) /\ Due(k)'
      BY <1>1, <2>6 DEF Due, Waits, n
    <3>5. stack[k].object =>
             \A i \in 1 .. EndOf(k) :
                /\ scratch_members'[i].offset = scratch_members[i].offset
                /\ scratch_members'[i].name = scratch_members[i].name
      <4> SUFFICES ASSUME stack[k].object, NEW i \in 1 .. EndOf(k)
                   PROVE  scratch_members'[i] = scratch_members[i]
        OBVIOUS
      <4>1. EndOf(k) <= l
        BY <1>5 DEF Shaped, Nested, l
      <4>2. i \in 1 .. l
        BY <1>5, <4>1
      <4>3. QED
        BY <1>8, <4>2
    <3>6. QED
      BY <1>11, <2>1, <2>5, <3>1, <3>3, <3>4, <3>5, <1>3, OthersSigned DEF Located
  <2>7. CASE k = n
    <3>1. stack[k].object
      BY <1>4, <1>5, <2>7
    <3>2. Colons(q)' = Colons(q) \cup {Here}
      <4>1. {c \in {Here} : input[c] = ":" /\ Directly(q, c)} = {Here}
        BY <1>2, <2>4, <2>7
      <4>2. QED
        BY <2>3, <4>1
    <3>3. MembersSigned(q, k)
      BY <1>5, <2>1, <3>1 DEF Located, ChildrenSigned
    <3>4. ASSUME NEW i \in stack[k].start + 1 .. l + 1
          PROVE  \E c \in Colons(q)' : /\ SignedAt(q, i, c)'
                                       /\ i = l + 1 => \A d \in Colons(q)' : d <= c
      <4>1. CASE i <= l
        <5>1. i \in stack[k].start + 1 .. EndOf(k) /\ i \in 1 .. l
          BY <1>5, <1>10, <2>7, <4>1
        <5>2. PICK c \in Colons(q) : SignedAt(q, i, c)
          BY <3>3, <5>1 DEF MembersSigned
        <5>3. c \in 1 .. position
          BY <2>2, CommasFinite
        <5>4. /\ scratch_members[i].offset \in Nat /\ scratch_members[i].offset < position
              /\ scratch_members'[i] = scratch_members[i]
          BY <1>8, <5>1, OffsetsPast DEF l
        <5>5. SignedAt(q, i, c)'
          BY <5>2, <5>3, <5>4, SignKept
        <5>6. i # l + 1
          BY <1>5, <4>1
        <5>7. QED
          BY <3>2, <5>5, <5>6
      <4>2. CASE i = l + 1
        <5>1. /\ NameBefore(Here) = name.offset + 1 /\ NameAt(Here) = name.name
              /\ NameIn(q, Here)
          BY <1>1, <2>4, <2>7, ColonName DEF Located
        <5>2. PICK c : c = Here
          OBVIOUS
        <5>3. /\ NameBefore(c)' = name.offset + 1 /\ NameAt(c)' = name.name
              /\ NameIn(q, c)'
          BY <1>1, <5>1, <5>2, TextSame
        <5>4. scratch_members'[i].offset = name.offset /\ scratch_members'[i].name = name.name
          BY <1>7, <1>8, <4>2
        <5>5. SignedAt(q, i, c)'
          BY <5>3, <5>4 DEF SignedAt
        <5>6. \A d \in Colons(q)' : d <= c
          <6>1. \A d \in Colons(q) : d \in 1 .. position
            BY <2>2, CommasFinite
          <6>2. Here = position + 1 /\ position \in Nat
            BY HereType DEF Here
          <6>3. QED
            BY <3>2, <5>2, <6>1, <6>2
        <5>7. c \in Colons(q)'
          BY <3>2, <5>2
        <5>8. QED
          BY <5>5, <5>6, <5>7
      <4>3. QED
        BY <1>5, <4>1, <4>2
    <3>5. EndOf(k)' = l + 1
      BY <1>10, <2>7
    <3>6. MembersSigned(q, k)'
      BY <2>5, <3>4, <3>5 DEF MembersSigned
    <3>7. QED
      BY <2>5, <3>1, <3>6
  <2>8. QED
    BY <1>5, <2>6, <2>7
<1>12. ChildrenSigned'
  BY <1>1, <1>5, <1>11 DEF ChildrenSigned
<1>13. QED
  BY <1>3, <1>12

-----------------------------------------------------------------------------
(* The name that is kept. *)
LEMMA NameStays ==
    ASSUME TypeOK, PastKept, NameRead, position' = position,
           expect' # "Colon" \/ UNCHANGED <<expect, name>>
    PROVE  NameRead'
<1> SUFFICES ASSUME expect' = "Colon" PROVE NameRead'
  BY DEF NameRead
<1>1. UNCHANGED <<expect, name>>
  OBVIOUS
<1>2. PICK at : at = name.offset + 1
  OBVIOUS
<1>3. /\ name.offset < position
      /\ input[at] = name.name
      /\ Parents(at) = Parents(Here)
      /\ \A r \in at + 1 .. position : input[r] \notin Names
  BY <1>1, <1>2 DEF NameRead
<1>4. name.offset \in Nat /\ position \in Nat
  BY OffsetsType, HereType
<1>5. at \in 1 .. position
  BY <1>2, <1>3, <1>4
<1>6. PICK p \in 1 .. Here : p = Here
  BY HereType
<1>7. at \in 1 .. Here
  BY <1>4, <1>5, HereType
<1>8. Parents(at)' = Parents(at) /\ Parents(p)' = Parents(p)
  BY <1>7, ParentsPast
<1>9. Parents(Here)' = Parents(p)'
  BY <1>6 DEF Parents, Before, Depth, Here
<1>10. Parents(at)' = Parents(Here)'
  BY <1>3, <1>6, <1>8, <1>9
<1>11. input'[at] = name'.name
  BY <1>1, <1>3, <1>5 DEF PastKept
<1>12. \A r \in at + 1 .. position : input'[r] \notin Names
  <2>1. \A r \in at + 1 .. position : r \in 1 .. position
    BY <1>4, <1>5
  <2>2. QED
    BY <1>3, <2>1 DEF PastKept
<1>13. \A x : x = name.offset + 1 =>
          /\ input'[x] = name'.name
          /\ Parents(x)' = Parents(Here)'
          /\ \A r \in x + 1 .. position : input'[r] \notin Names
  BY <1>2, <1>10, <1>11, <1>12
<1>14. QED
  BY <1>1, <1>3, <1>13 DEF NameRead

LEMMA NameMoves ==
    ASSUME TypeOK, input' = input, position' = position + 1,
           input[Here] \notin Opening \cup Closing, expect' = "Colon",
           \/ UNCHANGED <<expect, name>> /\ NameRead /\ input[Here] \notin Names
           \/ name'.name = input[Here] /\ name'.offset = position
    PROVE  NameRead'
<1>1. PICK p \in Nat \ {0} : p = Here
  BY HereType
<1>2. Parents(p + 1) = Parents(p)
  BY <1>1, ParentsKept
<1>3. Parents(Here)' = Parents(Here)
  BY <1>1, <1>2, HereMoves
<1>4. position \in Nat /\ p = position + 1
  BY <1>1, HereType DEF Here
<1>5. \A x : Parents(x)' = Parents(x)
  BY TextSame
<1>6. CASE UNCHANGED <<expect, name>> /\ NameRead /\ input[Here] \notin Names
  <2>1. PICK at : at = name.offset + 1
    OBVIOUS
  <2>2. /\ name.offset < position
        /\ input[at] = name.name
        /\ Parents(at) = Parents(Here)
        /\ \A r \in at + 1 .. position : input[r] \notin Names
    BY <1>6, <2>1 DEF NameRead
  <2>3. name.offset \in Nat
    BY OffsetsType
  <2>4. \A r \in at + 1 .. position + 1 : input[r] \notin Names
    <3> TAKE r \in at + 1 .. position + 1
    <3>1. CASE r = p
      BY <1>1, <1>6, <3>1
    <3>2. CASE r # p
      <4>1. r \in at + 1 .. position
        BY <1>4, <2>1, <2>3, <3>2
      <4>2. QED
        BY <2>2, <4>1
    <3>3. QED
      BY <3>1, <3>2
  <2>5. name'.offset < position + 1
    BY <1>4, <1>6, <2>2, <2>3
  <2>6. \A x : x = name'.offset + 1 =>
          /\ input[x] = name'.name
          /\ Parents(x)' = Parents(Here)'
          /\ \A r \in x + 1 .. position + 1 : input[r] \notin Names
    BY <1>3, <1>5, <1>6, <2>1, <2>2, <2>4
  <2>7. QED
    BY <2>5, <2>6 DEF NameRead
<1>7. CASE name'.name = input[Here] /\ name'.offset = position
  <2>1. p + 1 .. position + 1 = {}
    BY <1>4
  <2>2. name'.offset < position + 1 /\ name'.offset + 1 = p
    BY <1>4, <1>7
  <2>3. \A x : x = name'.offset + 1 =>
          /\ input[x] = name'.name
          /\ Parents(x)' = Parents(Here)'
          /\ \A r \in x + 1 .. position + 1 : input[r] \notin Names
    BY <1>1, <1>3, <1>5, <1>7, <2>1, <2>2
  <2>4. QED
    BY <2>2, <2>3 DEF NameRead
<1>8. QED
  BY <1>6, <1>7

-----------------------------------------------------------------------------
LEMMA StayLocated ==
    ASSUME TypeOK, PastKept, Shaped, Named, Located, position' = position,
           UNCHANGED <<stack, scratch_items, scratch_members, expect, name>>
    PROVE  Located'
<1>1. StackIsParents' /\ Inherited /\ Here \notin Parents(Here)'
  BY StayingParents DEF Located
<1>2. \A k \in 1 .. Len(stack) : Due(k)' <=> Due(k)
  BY DEF Due, Waits
<1>3. ChildrenSigned'
  BY <1>1, <1>2, QuietSigned DEF Located
<1>4. NameRead'
  BY NameStays DEF Located
<1>5. QED
  BY <1>1, <1>3, <1>4 DEF Located

LEMMA SpaceLocated ==
    ASSUME TypeOK, PastKept, Shaped, Named, Located, SkipWhitespace
    PROVE  Located'
<1>1. /\ UNCHANGED <<stack, scratch_items, scratch_members, expect, name>>
      /\ input' = input /\ position' = position + 1 /\ Peek \in Space
  BY DEF SkipWhitespace, scratch
<1>2. input[Here] \in Space
  BY <1>1, PeekHere DEF Token
<1>3. input[Here] \notin Opening \cup Closing /\ input[Here] \notin Signs
  BY <1>2, PlainToken
<1>4. input[Here] \notin Names
  BY <1>2, TokensAssumption DEF Scalar
<1>5. StackIsParents' /\ Inherited /\ Here \notin Parents(Here)'
  BY <1>1, <1>3, PlainParents DEF Located
<1>6. \A k \in 1 .. Len(stack) : Due(k)' <=> Due(k)
  BY <1>1 DEF Due, Waits
<1>7. ChildrenSigned'
  BY <1>1, <1>3, <1>5, <1>6, QuietSigned DEF Located
<1>8. NameRead'
  <2>1. CASE expect' = "Colon"
    BY <1>1, <1>3, <1>4, <2>1, NameMoves DEF Located
  <2>2. CASE expect' # "Colon"
    BY <2>2 DEF NameRead
  <2>3. QED
    BY <2>1, <2>2
<1>9. QED
  BY <1>5, <1>7, <1>8 DEF Located

LEMMA NameLocated ==
    ASSUME TypeOK, PastKept, Shaped, Named, Located, MemberName
    PROVE  Located'
<1>1. /\ UNCHANGED <<stack, scratch_items, scratch_members>>
      /\ input' = input /\ position' = position + 1 /\ Peek \in Names
      /\ expect \in {"Name", "NameOrEnd"} /\ expect' = "Colon"
      /\ name' = [name |-> Peek, offset |-> position]
  BY DEF MemberName, AtName, scratch
<1>2. input[Here] = Peek /\ input[Here] \in Scalar
  BY <1>1, PeekHere DEF Token, Scalar
<1>3. input[Here] \notin Opening \cup Closing /\ input[Here] \notin Signs
  BY <1>2, PlainToken
<1>4. StackIsParents' /\ Inherited /\ Here \notin Parents(Here)'
  BY <1>1, <1>3, PlainParents DEF Located
<1>5. \A k \in 1 .. Len(stack) : Due(k)' <=> Due(k)
  BY <1>1 DEF Due, Waits
<1>6. ChildrenSigned'
  BY <1>1, <1>3, <1>4, <1>5, QuietSigned DEF Located
<1>7. NameRead'
  BY <1>1, <1>2, <1>3, NameMoves
<1>8. QED
  BY <1>4, <1>6, <1>7 DEF Located

LEMMA LocatedNext == NamedWell /\ Located /\ [Next]_vars => Located'
<1> SUFFICES ASSUME NamedWell, Located, [Next]_vars PROVE Located'
  OBVIOUS
<1>1. TypeOK /\ Shaped /\ Named
  BY DEF NamedWell, Building
<1>2. TypeOK' /\ PastKept
  BY <1>1, NextTyped, PastNext
<1>3. ASSUME NEW result, Stop(result)
      PROVE  Located'
  <2>1. position' = position /\ UNCHANGED <<stack, scratch_items, scratch_members, expect, name>>
    BY <1>3 DEF Stop, scratch
  <2>2. QED
    BY <1>1, <1>2, <2>1, StayLocated
<1>4. CASE UNCHANGED vars \/ Disclose
  <2>1. position' = position /\ UNCHANGED <<stack, scratch_items, scratch_members, expect, name>>
    BY <1>4 DEF vars, Disclose, scratch
  <2>2. QED
    BY <1>1, <1>2, <2>1, StayLocated
<1>5. CASE Begin \/ Stops
  <2>1. \E result : Stop(result)
    BY <1>5 DEF Stops, Begin, BadValue, OutOfRange, BadName, NoColon, BadSeparator, RefuseClose,
           Finish, OutOfMemory, Refuse
  <2>2. QED
    BY <1>3, <2>1
<1>6. StackIsParents' /\ ChildrenSigned' /\ expect' # "Colon" => Located'
  BY DEF Located, NameRead
<1>7. CASE SkipWhitespace
  BY <1>1, <1>2, <1>7, SpaceLocated
<1>8. CASE OpenContainer
  <2>1. expect' # "Colon"
    BY <1>8 DEF OpenContainer
  <2>2. QED
    BY <1>1, <1>2, <1>6, <1>8, <2>1, OpenedSigned
<1>9. CASE LeafValue
  <2>1. CASE NoMember(stack, scratch_members)
    <3>1. \E result : Stop(result)
      BY <1>9, <2>1 DEF LeafValue, Refuse
    <3>2. QED
      BY <1>3, <3>1
  <2>2. CASE ~NoMember(stack, scratch_members)
    <3>1. expect' # "Colon"
      BY <1>9, <2>2 DEF LeafValue, Complete
    <3>2. QED
      BY <1>1, <1>2, <1>6, <1>9, <2>2, <3>1, LeafSigned
  <2>3. QED
    BY <2>1, <2>2
<1>10. CASE MemberName
  BY <1>1, <1>2, <1>10, NameLocated
<1>11. CASE Colon
  <2>1. expect' # "Colon"
    BY <1>11 DEF Colon
  <2>2. QED
    BY <1>1, <1>2, <1>6, <1>11, <2>1, ColonSigned
<1>12. CASE Comma
  <2>1. expect' # "Colon"
    BY <1>12 DEF Comma
  <2>2. QED
    BY <1>1, <1>2, <1>6, <1>12, <2>1, CommaSigned
<1>13. CASE Close
  <2>1. expect' # "Colon"
    BY <1>13 DEF Close, CloseObject, CloseArray, Complete
  <2>2. QED
    BY <1>1, <1>2, <1>6, <1>13, <2>1, CloseSigned
<1>14. QED
  BY <1>4, <1>5, <1>7, <1>8, <1>9, <1>10, <1>11, <1>12, <1>13 DEF Next, Parse, Stops

LEMMA LocatedInit == Init => Located
<1> SUFFICES ASSUME Init PROVE Located
  OBVIOUS
<1>1. stack = <<>> /\ position = 0 /\ expect = "Value"
  BY DEF Init
<1>2. Before(Here) = {}
  BY <1>1 DEF Before, Here
<1>3. Parents(Here) = {} /\ DOMAIN stack = {}
  BY <1>1, <1>2 DEF Parents
<1>4. QED
  BY <1>1, <1>3 DEF Located, StackIsParents, NameRead, ChildrenSigned

LEMMA AlwaysLocated == Spec => [](NamedWell /\ Located)
<1>1. QED
  BY NamedInit, NamedNext, LocatedInit, LocatedNext, PTL DEF Spec

-----------------------------------------------------------------------------
(* The pointer of a number is the path to it.                              *)
LEMMA ParentsCounted ==
    ASSUME TypeOK, StackIsParents
    PROVE  Cardinality(Parents(Here)) = Len(stack)
<1> DEFINE n == Len(stack)
           S == Parents(Here)
           f == [q \in S |-> Level(q)]
<1>1. /\ n \in Nat /\ DOMAIN stack = 1 .. n /\ position \in Nat /\ Here \in Nat
      /\ \A q \in S : /\ q \in 1 .. position
                      /\ Depth(q, Here) \in Int /\ Level(q) = n + 1 - Depth(q, Here)
  BY HereType DEF Level
<1>2. ASSUME NEW q \in S, NEW r \in S, Level(q) = Level(r)
      PROVE  q = r
  <2>1. Depth(q, Here) = Depth(r, Here)
    BY <1>1, <1>2
  <2>2. ~(q < r) /\ ~(r < q)
    BY <1>1, <2>1, DepthOrder
  <2>3. q \in Nat /\ r \in Nat
    BY <1>1
  <2>4. QED
    BY <2>2, <2>3
<1>3. /\ \A q \in S : Level(q) \in 1 .. n
      /\ \A k \in 1 .. n : \E q \in S : Level(q) = k
  BY <1>1 DEF StackIsParents
<1> HIDE DEF n, S
<1>4. f \in [S -> 1 .. n]
  BY <1>3
<1>5. f \in Bijection(S, 1 .. n)
  <2>1. \A q, r \in S : f[q] = f[r] => q = r
    BY <1>2
  <2>2. \A k \in 1 .. n : \E q \in S : f[q] = k
    BY <1>3
  <2>3. DOMAIN f = S
    OBVIOUS
  <2> HIDE DEF f
  <2>4. f \in Injection(S, 1 .. n)
    BY <1>4, <2>1, <2>3 DEF Injection, IsInjective
  <2>5. f \in Surjection(S, 1 .. n)
    BY <1>4, <2>2 DEF Surjection
  <2>6. QED
    BY <2>4, <2>5 DEF Bijection
<1>6. IsFiniteSet(S)
  <2>1. S \subseteq 1 .. position /\ IsFiniteSet(1 .. position)
    BY <1>1, FS_Interval
  <2>2. QED
    BY <2>1, FS_Subset
<1>7. ExistsBijection(S, 1 .. n)
  BY <1>5 DEF ExistsBijection
<1>8. Cardinality(1 .. n) = Cardinality(S)
  BY ONLY <1>6, <1>7, FS_Bijection
<1>9. Cardinality(1 .. n) = n
  <2>1. 0 \in Int /\ 1 \in Int /\ n \in Int /\ n \in Nat
    BY <1>1
  <2>2. Cardinality(1 .. n) = IF 1 > n THEN 0 ELSE n - 1 + 1
    BY <2>1, FS_Interval
  <2>3. QED
    BY <2>1, <2>2
<1>10. QED
  BY <1>8, <1>9 DEF n, S

LEMMA OpeningIs ==
    ASSUME TypeOK, NEW q \in Parents(Here)
    PROVE  /\ OpensObject(q) <=> input[q] # "["
           /\ input[q] # "," /\ input[q] # ":"
<1>1. input[q] \in {"{", "["}
  BY HereType DEF Opening
<1>2. QED
  BY <1>1 DEF OpensObject

LEMMA SignsBefore ==
    ASSUME TypeOK, NEW q \in Parents(Here)
    PROVE  /\ {c \in q .. Here - 1 : input[c] = "," /\ Directly(q, c)} = Commas(q)
           /\ {c \in q .. Here - 1 : input[c] = ":" /\ Directly(q, c)} = Colons(q)
<1>1. /\ q \in 1 .. position /\ Here - 1 = position /\ position \in Nat
  BY HereType
<1>2. q .. Here - 1 = (q + 1 .. position) \cup {q}
  BY <1>1
<1>3. input[q] # "," /\ input[q] # ":"
  BY OpeningIs
<1>4. {c \in q .. Here - 1 : input[c] = "," /\ Directly(q, c)} = Commas(q)
  BY <1>2, <1>3 DEF Commas
<1>5. {c \in q .. Here - 1 : input[c] = ":" /\ Directly(q, c)} = Colons(q)
  BY <1>2, <1>3 DEF Colons
<1>6. QED
  BY <1>4, <1>5

LEMMA StepIs ==
    ASSUME TypeOK, Shaped, Located, expect \in {"Value", "ValueOrEnd"},
           NEW q \in Parents(Here), NEW k \in 1 .. Len(stack), k = Level(q)
    PROVE  /\ stack[k].object =>
                /\ EndOf(k) \in DOMAIN scratch_members
                /\ PathStep(q, Here) = Member(scratch_members[EndOf(k)].name)
           /\ ~stack[k].object =>
                /\ stack[k].start <= EndOf(k)
                /\ PathStep(q, Here) = Index(EndOf(k) - stack[k].start)
<1>1. /\ DOMAIN stack = 1 .. Len(stack) /\ stack[k].start \in Nat /\ EndOf(k) \in Nat
      /\ Len(scratch_members) \in Nat
  BY StackTypes
<1>2. /\ stack[k].start <= EndOf(k)
      /\ EndOf(k) <= IF stack[k].object THEN Len(scratch_members) ELSE Len(scratch_items)
      /\ stack[k].object /\ Waits(k) => stack[k].start < EndOf(k)
  BY <1>1 DEF Shaped, Nested
<1>3. stack[k].object <=> input[q] # "["
  <2>1. stack[k].object <=> OpensObject(q)
    BY <1>1 DEF Located, StackIsParents
  <2>2. QED
    BY <2>1, OpeningIs
<1>4. /\ stack[k].object => MembersSigned(q, k)
      /\ ~stack[k].object => ItemsSigned(q, k)
  BY <1>1 DEF Located, ChildrenSigned
<1>5. CASE stack[k].object
  <2>1. EndOf(k) \in stack[k].start + 1 .. EndOf(k) /\ EndOf(k) \in 1 .. Len(scratch_members)
    BY <1>1, <1>2, <1>5, ObjectsWait
  <2>2. PICK c \in Colons(q) : SignedAt(q, EndOf(k), c) /\ \A d \in Colons(q) : d <= c
    BY <1>4, <1>5, <2>1 DEF MembersSigned
  <2>3. Colons(q) \in SUBSET Nat
    <3>1. Colons(q) \subseteq 1 .. position
      BY HereType, CommasFinite
    <3>2. QED
      BY <3>1
  <2>4. Max(Colons(q)) = c
    BY <2>2, <2>3, MaxIs
  <2>5. input[NameBefore(c)] = scratch_members[EndOf(k)].name
    BY <2>2 DEF SignedAt, NameAt
  <2>6. PathStep(q, Here) = Member(input[NameBefore(Max(Colons(q)))])
    BY <1>3, <1>5, SignsBefore DEF PathStep
  <2>7. PathStep(q, Here) = Member(scratch_members[EndOf(k)].name)
    BY <2>4, <2>5, <2>6
  <2>8. DOMAIN scratch_members = 1 .. Len(scratch_members)
    BY LenProperties DEF TypeOK, ScratchOK
  <2>9. QED
    BY <1>5, <2>1, <2>7, <2>8
<1>6. CASE ~stack[k].object
  <2>1. Waits(k) \/ expect = "ValueOrEnd"
    BY DEF Waits
  <2>2. Cardinality(Commas(q)) = EndOf(k) - stack[k].start - 0
    BY <1>4, <1>6, <2>1 DEF ItemsSigned
  <2>3. Cardinality(Commas(q)) = EndOf(k) - stack[k].start
    BY <1>1, <2>2
  <2>4. PathStep(q, Here) = Index(Cardinality(Commas(q)))
    BY <1>3, <1>6, SignsBefore DEF PathStep
  <2>5. QED
    BY <1>2, <1>6, <2>3, <2>4
<1>7. QED
  BY <1>5, <1>6

LEMMA PointerIs ==
    ASSUME TypeOK, Shaped, Located, expect \in {"Value", "ValueOrEnd"}
    PROVE  Pointer = Path(Here)
<1> DEFINE S == Parents(Here)
           n == Cardinality(S)
           parent(k) == CHOOSE q \in S : Depth(q, Here) = n + 1 - k
           step(k) == IF stack[k].object
                        THEN IF EndOf(k) \in DOMAIN scratch_members
                               THEN Member(scratch_members[EndOf(k)].name)
                               ELSE NoStep
                      ELSE IF EndOf(k) > stack[k].start THEN Index(EndOf(k) - stack[k].start)
                      ELSE Index(0)
<1>1. Pointer = [k \in DOMAIN stack |-> step(k)]
  BY DEF Pointer, EndOf, EndIn, Above
<1>2. Path(Here) = [k \in 1 .. n |-> PathStep(parent(k), Here)]
  BY DEF Path
<1>3. n = Len(stack) /\ n \in Nat /\ DOMAIN stack = 1 .. n
  BY HereType, ParentsCounted DEF Located
<1>4. ASSUME NEW k \in 1 .. n
      PROVE  parent(k) \in S /\ Level(parent(k)) = k
  <2>1. PICK q \in S : Level(q) = k
    BY <1>3 DEF Located, StackIsParents
  <2>2. Depth(q, Here) \in Int /\ Level(q) = n + 1 - Depth(q, Here)
    BY <1>3, HereType DEF Level
  <2>3. Depth(q, Here) = n + 1 - k
    BY <1>3, <2>1, <2>2
  <2>4. parent(k) \in S /\ Depth(parent(k), Here) = n + 1 - k
    BY <2>3
  <2>5. Level(parent(k)) = n + 1 - (n + 1 - k)
    BY <1>3, <2>4 DEF Level
  <2>6. QED
    BY <1>3, <2>4, <2>5
<1>5. ASSUME NEW k \in 1 .. n
      PROVE  step(k) = PathStep(parent(k), Here)
  <2>1. PICK q : q = parent(k)
    OBVIOUS
  <2>2. q \in S /\ k = Level(q)
    BY <1>4, <2>1
  <2>3. /\ stack[k].object =>
             /\ EndOf(k) \in DOMAIN scratch_members
             /\ PathStep(q, Here) = Member(scratch_members[EndOf(k)].name)
        /\ ~stack[k].object =>
             /\ stack[k].start <= EndOf(k)
             /\ PathStep(q, Here) = Index(EndOf(k) - stack[k].start)
    BY <1>3, <2>2, StepIs
  <2>4. stack[k].start \in Nat /\ EndOf(k) \in Nat
    BY <1>3, StackTypes
  <2>5. step(k) = PathStep(q, Here)
    <3>1. CASE stack[k].object
      BY <2>3, <3>1
    <3>2. CASE ~stack[k].object
      <4>1. CASE EndOf(k) > stack[k].start
        BY <2>3, <3>2, <4>1
      <4>2. CASE ~(EndOf(k) > stack[k].start)
        <5>1. EndOf(k) - stack[k].start = 0
          BY <2>3, <2>4, <3>2, <4>2
        <5>2. QED
          BY <2>3, <3>2, <4>2, <5>1
      <4>3. QED
        BY <4>1, <4>2
    <3>3. QED
      BY <3>1, <3>2
  <2>6. QED
    BY <2>1, <2>5
<1> HIDE DEF step, parent, n
<1>6. QED
  BY <1>1, <1>2, <1>3, <1>5

(* A duplicate is reported at a name of the object that is being closed.   *)
LEMMA DuplicateIs ==
    ASSUME NEW pendings, NEW offset \in DuplicateAt(pendings)
    PROVE  \E i, j \in DOMAIN pendings :
              /\ pendings[i].name = pendings[j].name
              /\ pendings[i].offset < pendings[j].offset
              /\ offset = pendings[j].offset
  BY DEF DuplicateAt

LEMMA DuplicateRefusal ==
    ASSUME NEW refusal \in CloseRefusals
    PROVE  /\ refusal.kind # "NumberOutOfRange"
           /\ refusal.kind = "DuplicateName" =>
                /\ stack # <<>> /\ Last(stack).object
                /\ refusal.offset \in DuplicateAt(SubSeq(scratch_members, Last(stack).start + 1,
                                                         Len(scratch_members)))
<1> DEFINE object == Peek = "}"
           start == Last(stack).start
           left == IF object THEN Dropped(scratch_members, start) ELSE scratch_members
           duplicates ==
             IF object THEN DuplicateAt(SubSeq(scratch_members, start + 1, Len(scratch_members)))
             ELSE {}
<1>1. CloseRefusals = IF stack = <<>> \/ Last(stack).object # object
          THEN {Answer("UnexpectedCharacter", position, <<>>)}
        ELSE IF duplicates # {}
          THEN {Answer("DuplicateName", offset, <<>>) : offset \in duplicates}
        ELSE IF NoMember(Front(stack), left)
          THEN {Answer("UnexpectedCharacter", position + 1, <<>>)}
        ELSE {}
  BY DEF CloseRefusals
<1> HIDE DEF duplicates, left, object
<1>2. /\ refusal.kind # "NumberOutOfRange"
      /\ refusal.kind = "DuplicateName" =>
           stack # <<>> /\ Last(stack).object = object /\ refusal.offset \in duplicates
  BY <1>1 DEF Answer
<1>3. refusal.kind = "DuplicateName" => object
  BY <1>2 DEF duplicates
<1>4. QED
  BY <1>2, <1>3 DEF duplicates

LEMMA SignedName ==
    ASSUME TypeOK, NEW q \in Parents(Here), NEW i, NEW c \in Colons(q), SignedAt(q, i, c),
           NEW p, p = scratch_members[i].offset + 1
    PROVE  /\ p \in MemberNames(q) /\ Max(Parents(p)) = q
           /\ input[p] = scratch_members[i].name
<1>1. NameBefore(c) = p /\ NameAt(c) = scratch_members[i].name /\ NameIn(q, c)
  BY DEF SignedAt
<1>2. q + 1 .. position \subseteq q + 1 .. Len(input)
  <2>1. position \in 0 .. Len(input) /\ Len(input) \in Nat
    BY LenProperties DEF TypeOK, InputOK
  <2>2. q \in 1 .. position
    BY HereType
  <2>3. QED
    BY <2>1, <2>2
<1>3. Colons(q) \subseteq {d \in q + 1 .. Len(input) : input[d] = ":" /\ Directly(q, d)}
  BY <1>2 DEF Colons
<1>4. p \in MemberNames(q)
  BY <1>1, <1>3 DEF MemberNames
<1>5. Max(Parents(p)) = q
  BY <1>1 DEF NameIn, Directly
<1>6. QED
  BY <1>1, <1>4, <1>5 DEF NameAt

DuplicateRight(p) ==
    /\ Directly(Max(Parents(p)), position + 1)
    /\ p \in MemberNames(Max(Parents(p)))
    /\ \E earlier \in MemberNames(Max(Parents(p))) : earlier < p /\ input[earlier] = input[p]

LEMMA DuplicateLocated ==
    ASSUME TypeOK, Shaped, Located, NEW refusal \in CloseRefusals,
           refusal.kind = "DuplicateName", NEW p, p = refusal.offset + 1
    PROVE  DuplicateRight(p)
<1> DEFINE n == Len(stack)
           l == Len(scratch_members)
           start == Last(stack).start
           pendings == SubSeq(scratch_members, start + 1, l)
<1>1. stack # <<>> /\ Last(stack).object /\ refusal.offset \in DuplicateAt(pendings)
  BY DuplicateRefusal
<1>2. /\ n \in Nat /\ n # 0 /\ DOMAIN stack = 1 .. n /\ l \in Nat
      /\ Last(stack) = stack[n] /\ start \in Nat
  BY <1>1, StackTypes, EmptySeq DEF Last
<1>3. EndOf(n) = l
  BY <1>1, StackTypes, EndInnermost DEF EndOf
<1>4. start <= l
  BY <1>2, <1>3 DEF Shaped, Nested
<1>5. /\ DOMAIN pendings = 1 .. l - start
      /\ \A i \in 1 .. l - start : pendings[i] = scratch_members[start + i]
  <2>1. scratch_members \in Seq(PendingMember)
    BY DEF TypeOK, ScratchOK
  <2>2. pendings \in Seq(PendingMember) /\ Len(pendings) = l - start
        /\ \A i \in 1 .. l - start : pendings[i] = scratch_members[start + i]
    BY ZenonT(60), <1>2, <1>4, <2>1, SuffixType, SuffixElements, ChildrenMoved
  <2>3. DOMAIN pendings = 1 .. Len(pendings)
    BY <2>2, LenProperties
  <2>4. QED
    BY <2>2, <2>3
<1> HIDE DEF pendings
<1>6. PICK i \in DOMAIN pendings, j \in DOMAIN pendings :
         /\ pendings[i].name = pendings[j].name
         /\ pendings[i].offset < pendings[j].offset
         /\ refusal.offset = pendings[j].offset
  BY <1>1, DuplicateIs
<1>7. PICK q \in Parents(Here) : Level(q) = n
  BY <1>2 DEF Located, StackIsParents
<1>8. Directly(q, Here)
  BY <1>7, Innermost DEF Located
<1>9. MembersSigned(q, n)
  BY <1>1, <1>2, <1>7 DEF Located, ChildrenSigned
<1>10. ASSUME NEW m \in DOMAIN pendings
       PROVE  \E c \in Colons(q) : SignedAt(q, start + m, c)
  <2>1. start + m \in stack[n].start + 1 .. EndOf(n)
    BY <1>2, <1>3, <1>4, <1>5
  <2>2. QED
    BY <1>9, <2>1 DEF MembersSigned
<1>11. PICK c \in Colons(q) : SignedAt(q, start + j, c)
  BY <1>10
<1>12. PICK d \in Colons(q) : SignedAt(q, start + i, d)
  BY <1>10
<1>13. PICK e : e = scratch_members[start + i].offset + 1
  OBVIOUS
<1>14. p = scratch_members[start + j].offset + 1
  BY <1>5, <1>6
<1>15. p \in MemberNames(q) /\ Max(Parents(p)) = q /\ input[p] = scratch_members[start + j].name
  BY <1>11, <1>14, SignedName
<1>16. e \in MemberNames(q) /\ input[e] = scratch_members[start + i].name
  BY <1>12, <1>13, SignedName
<1>17. input[e] = input[p]
  BY <1>5, <1>6, <1>15, <1>16
<1>18. e < p
  <2>1. /\ scratch_members[start + i].offset \in Nat /\ scratch_members[start + j].offset \in Nat
        /\ scratch_members[start + i].offset < scratch_members[start + j].offset
    <3>1. start + i \in DOMAIN scratch_members /\ start + j \in DOMAIN scratch_members
      <4>1. DOMAIN scratch_members = 1 .. l
        BY LenProperties DEF TypeOK, ScratchOK
      <4>2. QED
        BY <1>2, <1>4, <1>5, <4>1
    <3>2. QED
      BY <1>5, <1>6, <3>1, OffsetsType
  <2>2. QED
    BY <1>13, <1>14, <2>1
<1>19. QED
  BY <1>8, <1>15, <1>16, <1>17, <1>18 DEF DuplicateRight, Here

LEMMA PathSame ==
    ASSUME input' = input, NEW p
    PROVE  Path(p)' = Path(p)
<1>1. \A q, r : Depth(q, r)' = Depth(q, r)
  BY DEF Depth
<1>2. Parents(p)' = Parents(p) /\ \A q, c : Directly(q, c)' <=> Directly(q, c)
  BY TextSame
<1>3. \A c : NameBefore(c)' = NameBefore(c)
  BY TextSame
<1>4. ASSUME NEW q
      PROVE  PathStep(q, p)' = PathStep(q, p)
  <2>1. /\ {c \in q .. p - 1 : input'[c] = "," /\ Directly(q, c)'}
             = {c \in q .. p - 1 : input[c] = "," /\ Directly(q, c)}
        /\ {c \in q .. p - 1 : input'[c] = ":" /\ Directly(q, c)'}
             = {c \in q .. p - 1 : input[c] = ":" /\ Directly(q, c)}
    BY <1>2
  <2>2. QED
    BY <1>3, <2>1 DEF PathStep
<1>5. \A k, length :
         (CHOOSE q \in Parents(p)' : Depth(q, p)' = length + 1 - k)
           = CHOOSE q \in Parents(p) : Depth(q, p) = length + 1 - k
  BY <1>1, <1>2
<1>6. QED
  BY <1>2, <1>4, <1>5 DEF Path

DuplicateReported == answer.kind = "DuplicateName" => DuplicateRight(answer.offset + 1)

LEMMA ReportedRight ==
    ASSUME NamedWell, Located, [Next]_vars, PointerIsPath, DuplicateAtLaterName
    PROVE  PointerIsPath' /\ DuplicateReported'
<1>1. TypeOK /\ Shaped /\ Named
  BY DEF NamedWell, Building
<1>2. /\ PointerIsPath <=>
           (answer.kind = "NumberOutOfRange" =>
              \A p : p = answer.offset + 1 => input[p] \in Huge /\ answer.pointer = Path(p))
      /\ PointerIsPath' <=>
           (answer'.kind = "NumberOutOfRange" =>
              \A p : p = answer'.offset + 1 => input'[p] \in Huge /\ answer'.pointer = Path(p)')
  BY DEF PointerIsPath
<1>3. /\ DuplicateReported
      /\ DuplicateReported <=>
           (answer.kind = "DuplicateName" =>
              \A p : p = answer.offset + 1 => DuplicateRight(p))
      /\ DuplicateReported' <=>
           (answer'.kind = "DuplicateName" =>
              \A p : p = answer'.offset + 1 => DuplicateRight(p)')
  <2>1. DuplicateReported
    BY DEF DuplicateReported, DuplicateAtLaterName, DuplicateRight
  <2>2. DuplicateReported <=>
           (answer.kind = "DuplicateName" =>
              \A p : p = answer.offset + 1 => DuplicateRight(p))
    BY DEF DuplicateReported
  <2>3. DuplicateReported' <=>
           (answer'.kind = "DuplicateName" =>
              \A p : p = answer'.offset + 1 => DuplicateRight(p)')
    BY DEF DuplicateReported, DuplicateRight
  <2>4. QED
    BY <2>1, <2>2, <2>3
<1>4. input' = input /\ position' = position =>
         /\ \A p : Path(p)' = Path(p)
         /\ \A p : DuplicateRight(p)' <=> DuplicateRight(p)
  <2> SUFFICES ASSUME input' = input, position' = position
               PROVE  /\ \A p : Path(p)' = Path(p)
                      /\ \A p : DuplicateRight(p)' <=> DuplicateRight(p)
    OBVIOUS
  <2>1. \A p : Path(p)' = Path(p)
    BY PathSame
  <2>2. \A q : MemberNames(q)' = MemberNames(q)
    BY TextSame DEF MemberNames
  <2>3. \A p : DuplicateRight(p)' <=> DuplicateRight(p)
    BY <2>2, TextSame DEF DuplicateRight
  <2>4. QED
    BY <2>1, <2>3
<1>5. answer'.kind \notin {"NumberOutOfRange", "DuplicateName"} =>
         PointerIsPath' /\ DuplicateReported'
  BY <1>2, <1>3
<1>6. CASE UNCHANGED vars
  <2>1. input' = input /\ position' = position /\ answer' = answer
    BY <1>6 DEF vars
  <2>2. PointerIsPath'
    BY <1>2, <1>4, <2>1
  <2>3. \A p : DuplicateRight(p)' <=> DuplicateRight(p)
    BY <1>4, <2>1
  <2>4. DuplicateReported'
    BY <1>3, <2>1, <2>3
  <2>5. QED
    BY <2>2, <2>4
<1>7. CASE OutOfRange
  <2>1. /\ expect \in {"Value", "ValueOrEnd"} /\ Peek \in Huge
        /\ answer' = Answer("NumberOutOfRange", position, Pointer)
        /\ input' = input /\ position' = position
    BY <1>7 DEF OutOfRange, AtValue, Stop
  <2>2. Pointer = Path(Here)
    BY <1>1, <2>1, PointerIs
  <2>3. input[Here] \in Huge
    BY <2>1, PeekHere DEF Token
  <2>4. PICK p : p = Here
    OBVIOUS
  <2>5. input'[p] \in Huge /\ Path(p)' = Pointer
    BY <1>4, <2>1, <2>2, <2>3, <2>4
  <2>6. answer'.offset + 1 = p /\ answer'.pointer = Pointer /\ answer'.kind = "NumberOutOfRange"
    BY <2>1, <2>4 DEF Answer, Here
  <2>7. PointerIsPath'
    BY <1>2, <2>5, <2>6
  <2>8. QED
    BY <1>3, <2>6, <2>7
<1>8. CASE RefuseClose
  <2>1. PICK refusal \in CloseRefusals : Stop(refusal)
    BY <1>8 DEF RefuseClose
  <2>2. answer' = refusal /\ input' = input /\ position' = position
    BY <2>1 DEF Stop
  <2>3. answer'.kind # "NumberOutOfRange"
    BY <2>2, DuplicateRefusal
  <2>4. PICK p : p = refusal.offset + 1
    OBVIOUS
  <2>5. refusal.kind = "DuplicateName" => DuplicateRight(p)
    BY <1>1, <2>4, DuplicateLocated
  <2>6. DuplicateRight(p)' <=> DuplicateRight(p)
    BY <1>4, <2>2
  <2>7. DuplicateReported'
    BY <1>3, <2>2, <2>4, <2>5, <2>6
  <2>8. QED
    BY <1>2, <2>3, <2>7
<1>9. CASE Begin
  <2>1. answer'.kind \in {"Reading", "Limit", "Allocation", "InvalidUtf8"}
    BY <1>9 DEF Begin, Stop, Only, Answer, Refuse
  <2>2. QED
    BY <1>5, <2>1
<1>10. CASE Disclose \/ SkipWhitespace \/ OpenContainer \/ MemberName \/ Colon \/ Comma \/ Close
  <2>1. answer'.kind = "Reading"
    BY <1>10 DEF Disclose, SkipWhitespace, OpenContainer, MemberName, Colon, Comma, Close,
           AtValue, AtName, AtSeparator, AtClose, Ready, Reading
  <2>2. QED
    BY <1>5, <2>1
<1>11. CASE LeafValue
  <2>1. answer'.kind \in {"Reading", "UnexpectedCharacter"}
    BY <1>11 DEF LeafValue, AtValue, Ready, Reading, Refuse, Stop, Answer
  <2>2. QED
    BY <1>5, <2>1
<1>12. CASE BadValue \/ BadName \/ NoColon \/ BadSeparator \/ Finish \/ OutOfMemory
  <2>1. CASE BadValue \/ BadName \/ NoColon \/ BadSeparator
    <3>1. \E kind \in {"BadString", "InvalidNumber", "UnexpectedEnd", "UnexpectedCharacter"} :
             Refuse(kind, position)
      BY <2>1 DEF BadValue, BadName, NoColon, BadSeparator, Unexpected
    <3>2. answer'.kind \notin {"NumberOutOfRange", "DuplicateName"}
      BY <3>1 DEF Refuse, Stop, Answer
    <3>3. QED
      BY <1>5, <3>2
  <2>2. CASE Finish \/ OutOfMemory
    <3>1. \E kind \in {"TrailingContent", "UnexpectedEnd", "Document", "Allocation"} :
             answer'.kind = kind
      BY <2>2 DEF Finish, OutOfMemory, Refuse, Stop, Answer, Only
    <3>2. answer'.kind \notin {"NumberOutOfRange", "DuplicateName"}
      BY <3>1
    <3>3. QED
      BY <1>5, <3>2
  <2>3. QED
    BY <1>12, <2>1, <2>2
<1>13. QED
  BY <1>6, <1>7, <1>8, <1>9, <1>10, <1>11, <1>12 DEF Next, Parse

ReportedWell == NamedWell /\ Located /\ PointerIsPath /\ DuplicateAtLaterName

LEMMA ReportedNext == ReportedWell /\ [Next]_vars => ReportedWell'
<1> SUFFICES ASSUME ReportedWell, [Next]_vars PROVE ReportedWell'
  OBVIOUS
<1>1. NamedWell /\ Located /\ PointerIsPath /\ DuplicateAtLaterName
  BY DEF ReportedWell
<1>2. NamedWell' /\ Located'
  BY <1>1, NamedNext, LocatedNext
<1>3. PointerIsPath' /\ DuplicateReported'
  BY <1>1, ReportedRight
<1>4. NamesDistinct'
  BY <1>2 DEF NamedWell, Named
<1>5. DuplicateAtLaterName'
  BY <1>3, <1>4 DEF DuplicateAtLaterName, DuplicateReported, DuplicateRight
<1>6. QED
  BY <1>2, <1>3, <1>5 DEF ReportedWell

LEMMA ReportedInit == Init => ReportedWell
<1> SUFFICES ASSUME Init PROVE ReportedWell
  OBVIOUS
<1>1. answer.kind = "Unread"
  BY DEF Init, Only, Answer
<1>2. NamedWell /\ Located
  BY NamedInit, LocatedInit
<1>3. NamesDistinct
  BY <1>2 DEF NamedWell, Named
<1>4. PointerIsPath /\ DuplicateAtLaterName
  BY <1>1, <1>3 DEF PointerIsPath, DuplicateAtLaterName
<1>5. QED
  BY <1>2, <1>4 DEF ReportedWell

(* A number without a double is reported at its own offset, with the path  *)
(* that the brackets, commas and colons before it describe: the pointer    *)
(* read off the shared scratch stacks is not shifted by the children of    *)
(* containers that are closed, nor by those of other open ones.            *)
THEOREM AlwaysPointsAtNumber == Spec => []PointerIsPath
<1>1. ReportedWell => PointerIsPath
  BY DEF ReportedWell
<1>2. QED
  BY <1>1, ReportedInit, ReportedNext, PTL DEF Spec

(* A duplicate is reported at a later name of the object that is being     *)
(* closed, however deep it is and whatever was closed inside it, and no    *)
(* object of a tree that read returns has two members of one name.         *)
THEOREM AlwaysAtLaterName == Spec => []DuplicateAtLaterName
<1>1. ReportedWell => DuplicateAtLaterName
  BY DEF ReportedWell
<1>2. QED
  BY <1>1, ReportedInit, ReportedNext, PTL DEF Spec

=============================================================================
