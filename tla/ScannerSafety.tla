--------------------------- MODULE ScannerSafety ---------------------------
(***************************************************************************)
(* What the scanner promises, against RFC 8259 read literally: a string is *)
(* a sequence of UTF-16 code units, each spelled by a character or an      *)
(* escape of its own, and a number is a word of the grammar.               *)
(***************************************************************************)
EXTENDS Scanner

-----------------------------------------------------------------------------
(* What is spelled at p of a string: how many bytes spell it, which units, *)
(* and what is wrong with it.                                              *)
Item(p, size, units, fault) == [at |-> p, size |-> size, units |-> units, fault |-> fault]
Six(b, p) == b[p + 1] - 128
SizeAt(b, p) == IF b[p + 1] < 128 THEN 1 ELSE IF b[p + 1] < 224 THEN 2
                ELSE IF b[p + 1] < 240 THEN 3 ELSE 4
CharacterAt(b, p) ==
    CASE SizeAt(b, p) = 1 -> b[p + 1]
      [] SizeAt(b, p) = 2 -> (b[p + 1] - 192) * 64 + Six(b, p + 1)
      [] SizeAt(b, p) = 3 -> (b[p + 1] - 224) * 4096 + Six(b, p + 1) * 64 + Six(b, p + 2)
      [] SizeAt(b, p) = 4 -> (b[p + 1] - 240) * 262144 + Six(b, p + 1) * 4096
                               + Six(b, p + 2) * 64 + Six(b, p + 3)

RECURSIVE UnitsOfText(_, _, _)
UnitsOfText(b, p, end) ==
    IF p >= end THEN <<>>
    ELSE Utf16(CharacterAt(b, p)) \o UnitsOfText(b, p + SizeAt(b, p), end)

ItemAt(p) ==
    LET letter == ByteAt(p + 1)
    IN  IF ByteAt(p) # Backslash
          THEN IF ByteAt(p) < 32 THEN Item(p, 1, <<>>, "ControlCharacter")
               ELSE Item(p, SizeAt(input, p), Utf16(CharacterAt(input, p)), "none")
        ELSE IF letter = None THEN Item(p, 1, <<>>, "UnexpectedEnd")
        ELSE IF letter = 117 /\ IsHex4(p + 2) THEN Item(p, 6, <<Hex4(p + 2)>>, "none")
        ELSE IF letter \in DOMAIN Simple THEN Item(p, 2, <<Simple[letter]>>, "none")
        ELSE Item(p, 2, <<>>, "InvalidEscape")

RECURSIVE ItemsFrom(_)
ItemsFrom(p) ==
    IF ByteAt(p) \in {None, Quote} THEN <<>>
    ELSE IF ItemAt(p).fault # "none" THEN <<ItemAt(p)>>
    ELSE <<ItemAt(p)>> \o ItemsFrom(p + ItemAt(p).size)

UnitsOf(items) == FlattenSeq([i \in DOMAIN items |-> items[i].units])
EndOf(items, p) == IF items = <<>> THEN p ELSE Last(items).at + Last(items).size

(* The grammar of numbers. *)
AllDigits(s) == s # <<>> /\ \A i \in DOMAIN s : IsDigit(s[i])
IsInteger(s) == AllDigits(s) /\ (s[1] = 48 => Len(s) = 1)
IsFraction(s) == s = <<>> \/ (s[1] = 46 /\ AllDigits(Tail(s)))
IsExponent(s) ==
    s = <<>> \/ /\ s[1] \in {69, 101} /\ Len(s) > 1
                /\ AllDigits(SubSeq(s, IF s[2] \in {43, 45} THEN 3 ELSE 2, Len(s)))
IsUnsigned(s) ==
    \E i \in 1 .. Len(s) : \E f \in i .. Len(s) :
        IsInteger(SubSeq(s, 1, i)) /\ IsFraction(SubSeq(s, i + 1, f))
          /\ IsExponent(SubSeq(s, f + 1, Len(s)))
IsNumber(s) == s # <<>> /\ (IF s[1] = 45 THEN IsUnsigned(Tail(s)) ELSE IsUnsigned(s))

-----------------------------------------------------------------------------
(* read.rs, unicode_escape: a decoded string has exactly the UTF-16 code   *)
(* units that its characters and escapes spell one by one, whichever mix   *)
(* of them spells a surrogate pair, and holds no lone surrogate.           *)
DecodesCodeUnits ==
    \A i \in DOMAIN tokens :
        tokens[i].kind = "string" =>
          LET items == ItemsFrom(tokens[i].from + 1)
          IN  /\ WellFormed(UnitsOf(items))
              /\ UnitsOf(items) = UnitsOfText(text, tokens[i].start, tokens[i].end)
              /\ tokens[i].to = EndOf(items, tokens[i].from + 1) + 1

(* read.rs, "with the byte offset where the fault starts": a string is     *)
(* refused for the first thing in it that spells no code unit, at its own  *)
(* offset, or at an escape that is not half of a pair before that.         *)
RefusedAtItsFault ==
    LET items == ItemsFrom(from + 1)
        before == SelectSeq(items, LAMBDA item : item.at < answer.offset)
        units == UnitsOf(items)
        fault(kind) == \E i \in DOMAIN items :
                          items[i].fault = kind /\ items[i].at = answer.offset
        Alone(i) == ~WellFormed(<<items[i].units[1]>>)
                    /\ ~(i < Len(items) /\ WellFormed(items[i].units \o items[i + 1].units))
    IN  phase = "string" =>
          /\ answer.kind \in {"ControlCharacter", "InvalidEscape"} => fault(answer.kind)
          /\ answer.kind = "UnexpectedEnd" =>
                /\ answer.offset = Len(input)
                /\ fault("UnexpectedEnd") \/ EndOf(items, from + 1) = Len(input)
          /\ answer.kind = "LoneSurrogate" =>
                \E i \in DOMAIN items :
                   /\ items[i].at = answer.offset
                   /\ items[i].units # <<>> /\ Alone(i)
          /\ answer.kind # "reading" =>
                \/ WellFormed(UnitsOf(before))
                \/ answer.kind = "InvalidEscape" /\ WellFormed(Front(UnitsOf(before)))

(* read.rs, number: a number that is scanned is a word of the grammar, the *)
(* longest there, and its text is kept as it was written; what is refused  *)
(* as one is no number before a separator in any document.                 *)
ScansNumbers ==
    /\ \A i \in DOMAIN tokens :
        tokens[i].kind = "number" =>
          LET token == tokens[i]
          IN  /\ IsNumber(Slice(token.from, token.to))
              /\ \A longer \in token.to + 1 .. Len(input) : ~IsNumber(Slice(token.from, longer))
              /\ SubSeq(text, token.start + 1, token.end) = Slice(token.from, token.to)
    /\ answer.kind = "InvalidNumber" =>
        \A to \in answer.offset + 1 .. Len(input) :
            IsNumber(Slice(answer.offset, to)) => ByteAt(to) \notin {None, Comma}
=============================================================================
