-------------------------- MODULE ReaderRefinement --------------------------
(***************************************************************************)
(* The reader accepts the texts of the grammar and no others, and the      *)
(* arena it returns spells what it read.                                   *)
(***************************************************************************)
EXTENDS ReaderSafety

(* What is left to derive: a part of the innermost container by what is    *)
(* expected, then what the open containers may go on with and their ends.  *)
GoesOn(open) == IF open.object THEN <<"more members", "}">> ELSE <<"more items", "]">>
Ends(containers) ==
    [i \in 1 .. 2 * Len(containers) |->
        GoesOn(containers[Len(containers) - (i - 1) \div 2])[IF i % 2 = 1 THEN 1 ELSE 2]]
Rest ==
    CASE expect = "Value"      -> <<"value">> \o Ends(stack)
      [] expect = "ValueOrEnd" -> <<"items", "]">> \o Ends(Front(stack))
      [] expect = "NameOrEnd"  -> <<"members", "}">> \o Ends(Front(stack))
      [] expect = "Name"       -> <<"member">> \o Ends(stack)
      [] expect = "Colon"      -> <<":", "value">> \o Ends(stack)
      [] expect = "Separator"  -> Ends(stack)

Ungrammatical == {"UnexpectedEnd", "UnexpectedCharacter", "BadString", "InvalidNumber",
                  "TrailingContent"}

Verdict ==
    IF answer.kind \in {"Unread", "Reading"} THEN "reading"
    ELSE IF answer.kind = "Document" THEN "accepted"
    ELSE IF answer.kind \in Ungrammatical THEN "unexpected"
    ELSE "stopped"

(* The token that the fault is reported at. *)
Culprit ==
    IF Verdict # "unexpected" THEN "none"
    ELSE IF answer.offset = Len(input) THEN End
    ELSE input[answer.offset + 1]

Grammar == INSTANCE JsonGrammar
    WITH Scalars <- Scalar, Blanks <- Space,
         Others <- (Token \ (Punctuation \cup Scalar \cup Space)) \cup {End},
         read <- SubSeq(input, 1, position), rest <- Rest, verdict <- Verdict, culprit <- Culprit

(* The symbols of the grammar are no tokens. *)
ASSUME SymbolsAssumption == Grammar!Symbols \cap Token = {}

(* Every step of the reader is a step of the derivation: a document is     *)
(* returned only for a text of the grammar, and a text is called malformed *)
(* only at the first token that no text goes on with.                      *)
ImplementsGrammar == Grammar!Spec

-----------------------------------------------------------------------------
(* The tokens read, without white space. *)
Read == SelectSeq(SubSeq(input, 1, position), LAMBDA t : t \notin Space)

(* The text a finished node spells. *)
Joined(parts) ==
    FoldLeft(LAMBDA text, part : IF text = <<>> THEN part ELSE text \o <<",">> \o part,
             <<>>, parts)

NodeText ==
    LET text[id \in 0 .. Len(slots) - 1] ==
            LET node == slots[id + 1]
                Child(c) == IF c < id THEN text[c] ELSE <<>>
                ItemText(k) == Child(items[node.children.start + k])
                MemberText(k) == LET m == members[node.children.start + k]
                                 IN  <<m.name, ":">> \o Child(m.id)
                I == 1 .. node.children.end - node.children.start
            IN  CASE node.kind = "Leaf" -> <<node.token>>
                  [] node.kind = "Array" ->
                        <<"[">> \o Joined([k \in I |-> ItemText(k)]) \o <<"]">>
                  [] node.kind = "Object" ->
                        <<"{">> \o Joined([k \in I |-> MemberText(k)]) \o <<"}">>
    IN  text

(* What has been read of the k-th open container: its children so far, and *)
(* what the next one, which is being read, has begun with.                 *)
OpenText(k) ==
    LET open == stack[k]
        inner == {j \in k + 1 .. Len(stack) : stack[j].object = open.object}
        last == IF inner # {} THEN stack[Min(inner)].start
                ELSE IF open.object THEN Len(scratch_members) ELSE Len(scratch_items)
        count == last - open.start
        innermost == k = Len(stack)
        begun == ~innermost \/ expect = "Value"
        Separator(n) == IF n > 0 THEN <<",">> ELSE <<>>
        Item(i) == NodeText[scratch_items[open.start + i]]
        MemberOf(i) ==
            LET m == scratch_members[open.start + i]
            IN  <<m.name, ":">> \o (IF begun /\ i = count THEN <<>> ELSE NodeText[m.id])
    IN  IF open.object
          THEN <<"{">> \o Joined([i \in 1 .. count |-> MemberOf(i)])
                 \o (IF innermost /\ expect \in {"Name", "Colon"} THEN Separator(count) ELSE <<>>)
                 \o (IF innermost /\ expect = "Colon" THEN <<name.name>> ELSE <<>>)
          ELSE <<"[">> \o Joined([i \in 1 .. count |-> Item(i)])
                 \o (IF begun THEN Separator(count) ELSE <<>>)

(* At every point the open containers and the arena spell exactly what was *)
(* read, and so does the document's root in the end: no value is lost,     *)
(* repeated, moved to another container or given another name.             *)
TreeSpellsInput ==
    answer.kind \in {"Reading", "Document"} =>
        Read = IF stack = <<>>
                 THEN IF slots = <<>> THEN <<>> ELSE NodeText[Len(slots) - 1]
               ELSE FoldLeft(LAMBDA text, part : text \o part, <<>>,
                             [k \in DOMAIN stack |-> OpenText(k)])
=============================================================================
