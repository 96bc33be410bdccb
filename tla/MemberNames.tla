---------------------------- MODULE MemberNames -----------------------------
(***************************************************************************)
(* The serializer of map keys, MemberName of src/encoder.rs: a key becomes *)
(* the name of a member, or is refused.                                    *)
(*                                                                         *)
(* The text of an integer is formatted into a buffer of fixed size, piece  *)
(* by piece as core::fmt hands it over: the sign, then the digits.  The    *)
(* width of the widest integers and the size of the buffer are parameters, *)
(* 128 and 40 in the code.  Other texts are tokens.                        *)
(***************************************************************************)
EXTENDS Integers, Sequences, SequencesExt

CONSTANTS
    Keys,           \* the keys that are serialized
    Capacity        \* bytes of DecimalText

VARIABLES
    key,        \* the key
    rest,       \* the key that is left of it, inside its newtypes
    pieces,     \* what core::fmt still writes
    bytes,      \* DecimalText::bytes
    length,     \* DecimalText::length
    outcome     \* the name, or the refusal

vars == <<key, rest, pieces, bytes, length, outcome>>

Text(token)   == [key |-> "text", text |-> <<token>>]     \* a string, a char or a unit variant
Integer(n)    == [key |-> "integer", value |-> n]
Newtype(k)    == [key |-> "newtype", of |-> k]
Other(found)  == [key |-> "other", found |-> found]

Waiting       == [is |-> "none", text |-> <<>>]
Name(text)    == [is |-> "name", text |-> text]
NonString(f)  == [is |-> "NonStringMemberName", text |-> <<f>>]
Internal      == [is |-> "Internal", text |-> <<>>]

Minus == "-"
Unset == "0 byte"
Figures == <<"0", "1", "2", "3", "4", "5", "6", "7", "8", "9">>

-----------------------------------------------------------------------------
(* Display of an integer. *)
Magnitude(n) == IF n < 0 THEN -n ELSE n
Width(m) == IF m = 0 THEN 1 ELSE CHOOSE p \in 1 .. 10 : 10 ^ (p - 1) <= m /\ m < 10 ^ p
Digits(m) == [i \in 1 .. Width(m) |-> Figures[((m \div 10 ^ (Width(m) - i)) % 10) + 1]]
Display(n) == (IF n < 0 THEN <<<<Minus>>>> ELSE <<>>) \o <<Digits(Magnitude(n))>>

-----------------------------------------------------------------------------
Busy == outcome = Waiting
Unwrapped == Busy /\ pieces = <<>> /\ length = 0

SerializeNewtype ==
    /\ Unwrapped /\ rest.key = "newtype"
    /\ rest' = rest.of
    /\ UNCHANGED <<key, pieces, bytes, length, outcome>>

SerializeText ==
    /\ Unwrapped /\ rest.key = "text"
    /\ outcome' = Name(rest.text)
    /\ UNCHANGED <<key, rest, pieces, bytes, length>>

RefuseOther ==
    /\ Unwrapped /\ rest.key = "other"
    /\ outcome' = NonString(rest.found)
    /\ UNCHANGED <<key, rest, pieces, bytes, length>>

BeginDecimal ==
    /\ Unwrapped /\ rest.key = "integer"
    /\ pieces' = Display(rest.value)
    /\ UNCHANGED <<key, rest, bytes, length, outcome>>

(* DecimalText::write_str. *)
EndBeforeLast(piece) == length + Len(piece) + 1
EndAfter(piece) == length + Len(piece)

StartOver(piece) == 0
StartAt(piece) == length

WriteStr ==
    /\ Busy /\ pieces # <<>>
    /\ LET piece == Head(pieces)
           end == EndAfter(piece)
           start == StartAt(piece)
       IN  IF end > Capacity
             THEN outcome' = Internal /\ UNCHANGED <<bytes, length, pieces>>
             ELSE /\ bytes' = [i \in 1 .. Capacity |->
                                 IF i \in start + 1 .. start + Len(piece) THEN piece[i - start]
                                 ELSE bytes[i]]
                  /\ length' = end
                  /\ pieces' = Tail(pieces)
                  /\ UNCHANGED outcome
    /\ UNCHANGED <<key, rest>>

NameDecimal ==
    /\ Busy /\ pieces = <<>> /\ length > 0
    /\ outcome' = Name(SubSeq(bytes, 1, length))
    /\ UNCHANGED <<key, rest, pieces, bytes, length>>

Init ==
    /\ key \in Keys /\ rest = key
    /\ pieces = <<>> /\ length = 0
    /\ bytes = [i \in 1 .. Capacity |-> Unset]
    /\ outcome = Waiting

Next ==
    \/ SerializeNewtype \/ SerializeText \/ RefuseOther
    \/ BeginDecimal \/ WriteStr \/ NameDecimal

Spec == Init /\ [][Next]_vars

-----------------------------------------------------------------------------
(* What a text of figures, with or without a sign, stands for. *)
ValueOf(text) ==
    LET figures == SelectSeq(text, LAMBDA c : c # Minus)
        figure(c) == (CHOOSE i \in 1 .. 10 : Figures[i] = c) - 1
        magnitude == FoldLeft(LAMBDA sum, c : 10 * sum + figure(c), 0, figures)
    IN  IF Head(text) = Minus THEN -magnitude ELSE magnitude

RECURSIVE Core(_)
Core(k) == IF k.key = "newtype" THEN Core(k.of) ELSE k

(* A map keyed by integers has the member names that spell them: each is   *)
(* the number's only decimal text, so that two keys never become one name. *)
(* "40 bytes holds any i128/u128 in decimal": a key is refused only for    *)
(* what it is, never because its text does not fit.                        *)
NamesSpellKeys ==
    /\ outcome # Internal
    /\ outcome.is = "NonStringMemberName" <=> outcome # Waiting /\ Core(key).key = "other"
    /\ outcome.is = "name" =>
        IF Core(key).key = "text" THEN outcome.text = Core(key).text
        ELSE /\ ToSet(outcome.text) \subseteq ToSet(Figures) \cup {Minus}
             /\ ValueOf(outcome.text) = Core(key).value
             /\ Head(outcome.text) = "0" => outcome.text = <<"0">>
=============================================================================
