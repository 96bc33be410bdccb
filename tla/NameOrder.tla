----------------------------- MODULE NameOrder -----------------------------
(***************************************************************************)
(* The member order of src/order.rs: cmp_member_names compares the names   *)
(* of two buffered members by reading both back out of their escaped text, *)
(* a byte of each in turn, without a copy of either.                       *)
(*                                                                         *)
(* A buffered member is its quoted, escaped name, a colon and a value.     *)
(***************************************************************************)
EXTENDS EscapedText

CONSTANT MemberNames    \* the names of members, sequences of code points

VARIABLES
    left_name, right_name,
    left, right,            \* the members' bytes
    left_index, right_index,    \* of the two Unescaped, zero-based
    read,                   \* the bytes they agreed on
    verdict

vars == <<left_name, right_name, left, right, left_index, right_index, read, verdict>>

MemberBytes(name) ==
    <<Quote>> \o Escaped(Bytes(name)) \o <<Quote, 58, 48>>

-----------------------------------------------------------------------------
(* Unescaped::next: the byte read, if there is one, and where it leaves    *)
(* the index.                                                              *)
None == [byte |-> -1, index |-> -1]
Yield(byte, index) == [byte |-> byte, index |-> index]

Short(letter) == CHOOSE byte \in DOMAIN ShortForms : ShortForms[byte] = letter
Digit(letter) == IF letter < 97 THEN letter - 48 ELSE letter - 87

AfterHexEscapeDigits(index) == index + 4
AfterHexEscape(index) == index + 6
NextByte(member, index) ==
    LET byte   == member[index + 1]
        letter == member[index + 2]
    IN  IF index >= Len(member) \/ byte = Quote THEN None
        ELSE IF byte # Backslash THEN Yield(byte, index + 1)
        ELSE IF letter = 117
          THEN Yield(16 * Digit(member[index + 5]) + Digit(member[index + 6]),
                     AfterHexEscape(index))
        ELSE IF letter \in {ShortForms[b] : b \in DOMAIN ShortForms}
          THEN Yield(Short(letter), index + 2)
        ELSE Yield(letter, index + 2)

-----------------------------------------------------------------------------
(* utf16_order_of_first_difference. *)
HighBmpBelow(byte) == byte = 238
HighBmp(byte) == byte \in {238, 239}
Supplementary(byte) == byte >= 240

ByteOrder(a, b) == IF a < b THEN "Less" ELSE "Greater"
FirstDifference(a, b) ==
    IF HighBmp(a) /\ Supplementary(b) THEN "Greater"
    ELSE IF Supplementary(a) /\ HighBmp(b) THEN "Less"
    ELSE ByteOrder(a, b)

-----------------------------------------------------------------------------
(* One turn of the loop of cmp_member_names. *)
LeftNext  == NextByte(left, left_index)
RightNext == NextByte(right, right_index)

Decide(order) ==
    /\ verdict' = order
    /\ UNCHANGED <<left_name, right_name, left, right, left_index, right_index, read>>

BothEnd == verdict = "none" /\ LeftNext = None /\ RightNext = None /\ Decide("Equal")
LeftEnds == verdict = "none" /\ LeftNext = None /\ RightNext # None /\ Decide("Less")
RightEnds == verdict = "none" /\ LeftNext # None /\ RightNext = None /\ Decide("Greater")

BytesDiffer ==
    /\ verdict = "none" /\ LeftNext # None /\ RightNext # None
    /\ LeftNext.byte # RightNext.byte
    /\ Decide(FirstDifference(LeftNext.byte, RightNext.byte))

BytesAgree ==
    /\ verdict = "none" /\ LeftNext # None /\ RightNext # None
    /\ LeftNext.byte = RightNext.byte
    /\ left_index' = LeftNext.index /\ right_index' = RightNext.index
    /\ read' = Append(read, LeftNext.byte)
    /\ UNCHANGED <<left_name, right_name, left, right, verdict>>

Init ==
    /\ left_name \in MemberNames /\ right_name \in MemberNames
    /\ left = MemberBytes(left_name) /\ right = MemberBytes(right_name)
    /\ left_index = 1 /\ right_index = 1
    /\ read = <<>> /\ verdict = "none"

Next == BothEnd \/ LeftEnds \/ RightEnds \/ BytesDiffer \/ BytesAgree

Spec == Init /\ [][Next]_vars

-----------------------------------------------------------------------------
(* The order of two sequences of numbers as a dictionary has it. *)
Before(s, t) ==
    \/ Len(s) < Len(t) /\ IsPrefix(s, t)
    \/ \E i \in DOMAIN s \cap DOMAIN t :
         s[i] < t[i] /\ SubSeq(s, 1, i - 1) = SubSeq(t, 1, i - 1)

(* RFC 8785, 3.2.3, and order.rs: the verdict is the order of the names'   *)
(* UTF-16 code units, although it is taken from the UTF-8 of their escaped *)
(* text, and members are called equal only if their names are.             *)
OrderIsUtf16 ==
    /\ verdict = "Less"    => Before(Units(left_name), Units(right_name))
    /\ verdict = "Greater" => Before(Units(right_name), Units(left_name))
    /\ verdict = "Equal"   => left_name = right_name

(* order.rs, "Unescaped undoes exactly the escapes escape emits": what is  *)
(* read back is the names' own UTF-8, and ends where a name does, never    *)
(* in the colon or the value behind it.                                    *)
ReadsNamesBack ==
    /\ IsPrefix(read, Bytes(left_name)) /\ IsPrefix(read, Bytes(right_name))
    /\ verdict \in {"Equal", "Less"}    /\ LeftNext = None  => read = Bytes(left_name)
    /\ verdict \in {"Equal", "Greater"} /\ RightNext = None => read = Bytes(right_name)

(* Both at once: the order taken is that of the names, read whole.         *)
ComparesNames == OrderIsUtf16 /\ ReadsNamesBack
=============================================================================
