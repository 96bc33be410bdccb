------------------------------ MODULE Scanner ------------------------------
(***************************************************************************)
(* The scanner inside the reader of src/read.rs: the strings, literals and *)
(* numbers that the Reader module takes as one token each, byte by byte.   *)
(* A string is decoded, and a number copied, into the text that all the    *)
(* document's tokens share.                                                *)
(*                                                                         *)
(* The input is UTF-8: items of an array, from the first on, without white *)
(* space, arrays and objects, for which the reader's loop calls value once *)
(* more after every comma (ResumeAfterComma).                              *)
(*                                                                         *)
(* An operator that stands directly before another one of the same         *)
(* parameters and that nothing uses is a mutant of it.                     *)
(***************************************************************************)
EXTENDS EscapedText

CONSTANTS
    Inputs,     \* sequences of bytes
    Infinite    \* the numbers among them that have no finite double

Byte == {byte \in Nat : byte < 256}
ASSUME InputsAssumption == Inputs \subseteq Seq(Byte)

VARIABLES
    input,
    position,       \* zero-based, as in the code
    phase,          \* the part of value() that comes next
    from, start,    \* where the token starts, in the input and in the text
    text,           \* the text of the tokens, UTF-8
    tokens,         \* what was scanned
    answer          \* "reading", or why the reader refuses

vars == <<input, position, phase, from, start, text, tokens, answer>>

-----------------------------------------------------------------------------
(* Bytes. *)
Comma == 44
Brackets == {91, 123}
None == -1
ByteAt(p) == IF p < Len(input) THEN input[p + 1] ELSE None
Slice(p, q) == SubSeq(input, p + 1, q)
IsDigit(byte) == byte \in 48 .. 57

(* Where a run of bytes that starts at p ends: at q, the end if need be.   *)
RunOf(Goes(_), p, q) == ~Goes(ByteAt(q)) /\ \A r \in p .. q - 1 : Goes(ByteAt(r))
IsPlain(byte) == byte \notin {Quote, Backslash} /\ byte >= 32

Literals == {<<116, 114, 117, 101>>, <<102, 97, 108, 115, 101>>, <<110, 117, 108, 108>>}

-----------------------------------------------------------------------------
Reading == answer.kind = "reading"

Refuse(kind, offset) ==
    /\ answer' = [kind |-> kind, offset |-> offset]
    /\ UNCHANGED <<input, position, phase, from, start, text, tokens>>

Unexpected(p) == Refuse(IF p = Len(input) THEN "UnexpectedEnd" ELSE "UnexpectedCharacter", p)

(* The token is complete at p, with the text as it is then. *)
Complete(kind, p) ==
    /\ position' = p
    /\ tokens' = Append(tokens, [kind |-> kind, from |-> from, to |-> p,
                                 start |-> start, end |-> Len(text')])
    /\ phase' = "separator"
    /\ UNCHANGED <<input, from, start, answer>>

GoOn(next, p) ==
    /\ phase' = next /\ position' = p
    /\ UNCHANGED <<input, from, start, tokens, answer>>

-----------------------------------------------------------------------------
(* value *)

BeginToken(next, p) ==
    /\ phase' = next /\ position' = p
    /\ from' = position /\ start' = Len(text)
    /\ UNCHANGED <<input, text, tokens, answer>>

Value ==
    /\ Reading /\ phase = "value"
    /\ LET byte == ByteAt(position)
       IN  \/ byte = Quote /\ BeginToken("string", position + 1)
           \/ (byte = 45 \/ IsDigit(byte)) /\ BeginToken("integer", position)
           \/ byte \in {116, 102, 110} /\ BeginToken("literal", position)
           \/ /\ byte \notin {Quote, 45, 116, 102, 110} \cup Brackets /\ ~IsDigit(byte)
              /\ Unexpected(position)

Literal ==
    /\ Reading /\ phase = "literal"
    /\ \/ \E word \in Literals :
            /\ IsPrefix(word, Slice(position, Len(input)))
            /\ UNCHANGED text
            /\ Complete("literal", position + Len(word))
       \/ /\ \A word \in Literals : ~IsPrefix(word, Slice(position, Len(input)))
          /\ Refuse("UnexpectedCharacter", position)

ResumeAfterComma ==
    /\ Reading /\ phase = "separator" /\ ByteAt(position) = Comma
    /\ UNCHANGED text
    /\ GoOn("value", position + 1)

-----------------------------------------------------------------------------
(* string *)

RunSinceTheQuote(end) == Slice(from + 1, end)
RunUpTo(end) == Slice(position, end)
Run ==
    /\ Reading /\ phase = "string" /\ IsPlain(ByteAt(position))
    /\ \E end \in position .. Len(input) :
         /\ RunOf(IsPlain, position, end)
         /\ text' = text \o RunUpTo(end)
         /\ GoOn("string", end)

CloseString ==
    /\ Reading /\ phase = "string" /\ ByteAt(position) = Quote
    /\ UNCHANGED text
    /\ Complete("string", position + 1)

EndRun ==
    /\ Reading /\ phase = "string"
    /\ \/ position = Len(input) /\ Refuse("UnexpectedEnd", position)
       \/ ByteAt(position) \in 0 .. 31 /\ Refuse("ControlCharacter", position)

(* escape *)
Simple ==
    [letter \in {34, 92, 47, 98, 102, 110, 114, 116} |->
        IF letter = 98 THEN 8 ELSE IF letter = 102 THEN 12 ELSE IF letter = 110 THEN 10
        ELSE IF letter = 114 THEN 13 ELSE IF letter = 116 THEN 9 ELSE letter]
HexDigits == 48 .. 57 \cup 65 .. 70 \cup 97 .. 102
HexValue(byte) == IF byte < 65 THEN byte - 48 ELSE (byte % 32) + 9

Push(c, p) ==
    /\ text' = text \o Utf8(c)
    /\ GoOn("string", p)

(* hex4, at p: four digits, and what they say. *)
IsHex4(p) == p + 4 <= Len(input) /\ \A i \in 0 .. 3 : ByteAt(p + i) \in HexDigits
Hex4(p) == 4096 * HexValue(ByteAt(p)) + 256 * HexValue(ByteAt(p + 1))
             + 16 * HexValue(ByteAt(p + 2)) + HexValue(ByteAt(p + 3))

AtEscape == Reading /\ phase = "string" /\ ByteAt(position) = Backslash
AtUnicode == AtEscape /\ ByteAt(position + 1) = 117
High == Hex4(position + 2)
StartsUnicode(p) == ByteAt(p) = Backslash /\ ByteAt(p + 1) = 117

SimpleEscape ==
    /\ AtEscape /\ ByteAt(position + 1) \in DOMAIN Simple
    /\ Push(Simple[ByteAt(position + 1)], position + 2)

BadEscape ==
    /\ AtEscape
    /\ LET kind == ByteAt(position + 1)
       IN  \/ kind = None /\ Refuse("UnexpectedEnd", Len(input))
           \/ /\ kind \notin DOMAIN Simple \cup {None, 117}
              /\ Refuse("InvalidEscape", position)
           \/ /\ kind = 117 /\ ~IsHex4(position + 2)
              /\ Refuse("InvalidEscape", position)

UnicodeEscape ==
    /\ AtUnicode /\ IsHex4(position + 2)
    /\ High \notin HighSurrogate \cup LowSurrogate
    /\ Push(High, position + 6)

PairedShifted(high, low) == 65536 + (high - 55296) * 256 + (low - 56320)
Paired(high, low) == 65536 + (high - 55296) * 1024 + (low - 56320)

LowOffsetOfPair(p) == p
LowOffset(p) == p + 6
IsLowHalf(unit) == unit \in LowSurrogate
SurrogatePair ==
    /\ AtUnicode /\ IsHex4(position + 2) /\ High \in HighSurrogate
    /\ StartsUnicode(position + 6)
    /\ \/ /\ ~IsHex4(position + 8)
          /\ Refuse("InvalidEscape", LowOffset(position))
       \/ /\ IsHex4(position + 8)
          /\ LET low == Hex4(position + 8)
             IN  \/ /\ ~IsLowHalf(low)
                    /\ Refuse("LoneSurrogate", position)
                 \/ /\ IsLowHalf(low)
                    /\ Push(Paired(High, low), position + 12)

LoneSurrogate ==
    /\ AtUnicode /\ IsHex4(position + 2)
    /\ \/ High \in HighSurrogate /\ ~StartsUnicode(position + 6)
       \/ High \in LowSurrogate
    /\ Refuse("LoneSurrogate", position)

-----------------------------------------------------------------------------
(* number *)
InvalidNumber == Refuse("InvalidNumber", from)

(* Digits must follow at p. *)
DigitsThen(next, p) ==
    \/ ~IsDigit(ByteAt(p)) /\ InvalidNumber
    \/ /\ IsDigit(ByteAt(p))
       /\ \E end \in p .. Len(input) : RunOf(IsDigit, p, end) /\ GoOn(next, end)
       /\ UNCHANGED text

IsZeroNever(byte) == FALSE
IsZero(byte) == byte = 48
Integer ==
    /\ Reading /\ phase = "integer"
    /\ LET first == IF ByteAt(position) = 45 THEN position + 1 ELSE position
       IN  \/ ~IsZero(ByteAt(first)) /\ DigitsThen("fraction", first)
           \/ IsZero(ByteAt(first)) /\ UNCHANGED text /\ GoOn("fraction", first + 1)

Fraction ==
    /\ Reading /\ phase = "fraction"
    /\ \/ ByteAt(position) = 46 /\ DigitsThen("exponent", position + 1)
       \/ ByteAt(position) # 46 /\ UNCHANGED text /\ GoOn("exponent", position)

Exponent ==
    /\ Reading /\ phase = "exponent"
    /\ \/ /\ ByteAt(position) \in {69, 101}
          /\ DigitsThen("convert",
                        IF ByteAt(position + 1) \in {43, 45} THEN position + 2 ELSE position + 1)
       \/ ByteAt(position) \notin {69, 101} /\ UNCHANGED text /\ GoOn("convert", position)

Convert ==
    /\ Reading /\ phase = "convert"
    /\ LET literal == Slice(from, position)
       IN  \/ literal \in Infinite /\ Refuse("NumberOutOfRange", from)
           \/ /\ literal \notin Infinite
              /\ text' = text \o literal
              /\ Complete("number", position)

-----------------------------------------------------------------------------
Init ==
    /\ input \in Inputs
    /\ position = 0 /\ phase = "value" /\ from = 0 /\ start = 0
    /\ text = <<>> /\ tokens = <<>>
    /\ answer = [kind |-> "reading", offset |-> 0]

Next ==
    \/ Value \/ Literal \/ ResumeAfterComma
    \/ Run \/ CloseString \/ EndRun
    \/ SimpleEscape \/ BadEscape \/ UnicodeEscape \/ SurrogatePair \/ LoneSurrogate
    \/ Integer \/ Fraction \/ Exponent \/ Convert

Spec == Init /\ [][Next]_vars

-----------------------------------------------------------------------------
TypeOK ==
    /\ position \in 0 .. Len(input)
    /\ phase \in {"value", "literal", "string", "integer", "fraction", "exponent",
                  "convert", "separator"}
    /\ from \in 0 .. position
    /\ text \in Seq(Byte)
    /\ start \in 0 .. Len(text)
    /\ tokens \in Seq([kind : {"string", "literal", "number"}, from : Nat, to : Nat,
                       start : Nat, end : Nat])
    /\ answer.kind \in {"reading", "UnexpectedEnd", "UnexpectedCharacter", "ControlCharacter",
                        "InvalidEscape", "LoneSurrogate", "InvalidNumber", "NumberOutOfRange"}
    /\ answer.offset \in 0 .. Len(input)

(* read.rs, "decoded text is never longer than its escaped source": the    *)
(* text fits in what was reserved for it before anything was read, and so  *)
(* push_str, which cannot refuse, never has to grow it.                    *)
TextFitsInput == Len(text) <= position
=============================================================================
