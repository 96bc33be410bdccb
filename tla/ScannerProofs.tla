--------------------------- MODULE ScannerProofs ---------------------------
(***************************************************************************)
(* What holds of the scanner for every input.                              *)
(***************************************************************************)
EXTENDS Scanner, TLAPS

(* read.rs, unicode_escape: the shifts undo UTF-16, for every pair of      *)
(* surrogates, so that char::from_u32 never fails on what they give.       *)
THEOREM PairsDecode ==
    ASSUME NEW high \in Nat, NEW low \in Nat,
           55296 <= high, high <= 56319, 56320 <= low, low <= 57343
    PROVE  /\ Paired(high, low) \in ScalarValue
           /\ Utf16(Paired(high, low)) = <<high, low>>
<1>1. Paired(high, low) \in ScalarValue /\ Paired(high, low) >= 65536
  BY SMT DEF Paired, ScalarValue
<1>2. (Paired(high, low) - 65536) \div 1024 = high - 55296
  BY SMT DEF Paired
<1>3. (Paired(high, low) - 65536) % 1024 = low - 56320
  BY SMT DEF Paired
<1> QED BY SMT, <1>1, <1>2, <1>3 DEF Utf16, ScalarValue

-----------------------------------------------------------------------------
(* A number's text is copied only when it is complete: until then the text *)
(* is as short as the input before the number.                             *)
InNumber == phase \in {"integer", "fraction", "exponent", "convert"}
IInv ==
    /\ TypeOK
    /\ TextFitsInput
    /\ input \in Seq(Byte)
    /\ InNumber => Len(text) <= from

(* The UTF-8 of a character is bytes, as many as it takes. *)
LEMMA Utf8Bytes ==
    ASSUME NEW c \in Nat, c <= 1114111
    PROVE  /\ Utf8(c) \in Seq(Byte)
           /\ c < 128 => Len(Utf8(c)) = 1
           /\ c < 65536 => Len(Utf8(c)) <= 3
           /\ Len(Utf8(c)) <= 4
<1>1. CASE c < 128
  <2>1. c \in Byte
    BY SMT, <1>1 DEF Byte
  <2> QED BY SMT, <1>1, <2>1 DEF Utf8
<1>2. CASE c >= 128 /\ c < 2048
  <2>1. 192 + c \div 64 \in Byte /\ 128 + (c % 64) \in Byte
    BY SMT, <1>2 DEF Byte
  <2> QED BY SMT, <1>2, <2>1 DEF Utf8
<1>3. CASE c >= 2048 /\ c < 65536
  <2>1. 224 + c \div 4096 \in Byte /\ 128 + ((c \div 64) % 64) \in Byte /\ 128 + (c % 64) \in Byte
    BY SMT, <1>3 DEF Byte
  <2> QED BY SMT, <1>3, <2>1 DEF Utf8
<1>4. CASE c >= 65536
  <2>1. /\ 240 + c \div 262144 \in Byte /\ 128 + ((c \div 4096) % 64) \in Byte
        /\ 128 + ((c \div 64) % 64) \in Byte /\ 128 + (c % 64) \in Byte
    BY SMT, <1>4 DEF Byte
  <2> QED BY SMT, <1>4, <2>1 DEF Utf8
<1> QED BY SMT, <1>1, <1>2, <1>3, <1>4

LEMMA ByteAtIsByte ==
    ASSUME NEW p \in Nat, input \in Seq(Byte), ByteAt(p) # None
    PROVE  p < Len(input) /\ ByteAt(p) \in Byte
BY SMT DEF ByteAt

LEMMA SliceIsBytes ==
    ASSUME NEW p \in Nat, NEW q \in Nat, input \in Seq(Byte), p <= q, q <= Len(input)
    PROVE  Slice(p, q) \in Seq(Byte) /\ Len(Slice(p, q)) = q - p
BY SMT DEF Slice

(* Four hex digits say a code unit. *)
LEMMA Hex4IsUnit ==
    ASSUME NEW p \in Nat, input \in Seq(Byte), IsHex4(p)
    PROVE  Hex4(p) \in Nat /\ Hex4(p) <= 65535
<1>1. \A byte \in HexDigits : HexValue(byte) \in Nat /\ HexValue(byte) <= 15
  BY SMT DEF HexDigits, HexValue
<1>2. /\ ByteAt(p) \in HexDigits /\ ByteAt(p + 1) \in HexDigits
      /\ ByteAt(p + 2) \in HexDigits /\ ByteAt(p + 3) \in HexDigits
  BY SMT DEF IsHex4
<1>3. /\ HexValue(ByteAt(p)) \in Nat /\ HexValue(ByteAt(p)) <= 15
      /\ HexValue(ByteAt(p + 1)) \in Nat /\ HexValue(ByteAt(p + 1)) <= 15
      /\ HexValue(ByteAt(p + 2)) \in Nat /\ HexValue(ByteAt(p + 2)) <= 15
      /\ HexValue(ByteAt(p + 3)) \in Nat /\ HexValue(ByteAt(p + 3)) <= 15
  BY <1>1, <1>2
<1> DEFINE v == HexValue(ByteAt(p))
           w == HexValue(ByteAt(p + 1))
           x == HexValue(ByteAt(p + 2))
           y == HexValue(ByteAt(p + 3))
<1>4. Hex4(p) = 4096 * v + 256 * w + 16 * x + y
  BY DEF Hex4
<1>5. \A a, b, c, d \in Nat : a <= 15 /\ b <= 15 /\ c <= 15 /\ d <= 15 =>
        4096 * a + 256 * b + 16 * c + d \in Nat /\ 4096 * a + 256 * b + 16 * c + d <= 65535
  BY SMT
<1>6. /\ v \in Nat /\ w \in Nat /\ x \in Nat /\ y \in Nat
      /\ v <= 15 /\ w <= 15 /\ x <= 15 /\ y <= 15
  BY <1>3
<1> HIDE DEF v, w, x, y
<1> QED BY <1>4, <1>5, <1>6

-----------------------------------------------------------------------------
(* The shapes of a step. *)
Kinds == {"UnexpectedEnd", "UnexpectedCharacter", "ControlCharacter",
          "InvalidEscape", "LoneSurrogate", "InvalidNumber", "NumberOutOfRange"}

LEMMA RefusalKeeps ==
    ASSUME IInv, NEW kind \in Kinds, NEW offset \in 0 .. Len(input), Refuse(kind, offset)
    PROVE  IInv'
<1>1. UNCHANGED <<input, position, phase, from, start, text, tokens>>
  BY DEF Refuse
<1>2. answer'.kind \in Kinds /\ answer'.offset \in 0 .. Len(input)
  BY DEF Refuse
<1> QED BY <1>1, <1>2 DEF IInv, TypeOK, TextFitsInput, InNumber, Kinds

LEMMA ProgressKeeps ==
    ASSUME IInv,
           NEW next \in {"value", "string", "fraction", "exponent", "convert"},
           NEW p \in position .. Len(input), GoOn(next, p),
           text' \in Seq(Byte), Len(text) <= Len(text'), Len(text') <= p,
           next \notin {"value", "string"} => InNumber /\ text' = text
    PROVE  IInv'
<1>1. UNCHANGED <<input, from, start, tokens, answer>> /\ phase' = next /\ position' = p
  BY DEF GoOn
<1>2. TypeOK'
  BY <1>1 DEF IInv, TypeOK
<1>3. (InNumber => Len(text) <= from)'
  BY <1>1 DEF IInv, InNumber
<1> QED BY <1>1, <1>2, <1>3 DEF IInv, TextFitsInput

LEMMA CompletionKeeps ==
    ASSUME IInv, NEW kind \in {"string", "literal", "number"},
           NEW p \in position .. Len(input), Complete(kind, p),
           text' \in Seq(Byte), Len(text) <= Len(text'), Len(text') <= p
    PROVE  IInv'
<1>1. UNCHANGED <<input, from, start, answer>> /\ phase' = "separator" /\ position' = p
  BY DEF Complete
<1> DEFINE token == [kind |-> kind, from |-> from, to |-> p, start |-> start, end |-> Len(text')]
<1>2. token \in [kind : {"string", "literal", "number"}, from : Nat, to : Nat,
                 start : Nat, end : Nat]
  BY DEF IInv, TypeOK
<1>3. tokens' = Append(tokens, token)
  BY DEF Complete
<1> HIDE DEF token
<1>4. tokens' \in Seq([kind : {"string", "literal", "number"}, from : Nat, to : Nat,
                       start : Nat, end : Nat])
  BY <1>2, <1>3 DEF IInv, TypeOK
<1>5. TypeOK'
  BY <1>1, <1>4 DEF IInv, TypeOK
<1> QED BY <1>1, <1>5 DEF IInv, TextFitsInput, InNumber

LEMMA PushKeeps ==
    ASSUME IInv, NEW c \in Nat, c <= 1114111, NEW p \in position .. Len(input),
           Push(c, p), Len(Utf8(c)) <= p - position
    PROVE  IInv'
<1>1. text' = text \o Utf8(c) /\ GoOn("string", p)
  BY SMT DEF Push
<1>2. Utf8(c) \in Seq(Byte) /\ text \in Seq(Byte) /\ Len(text) <= position
  BY SMT, Utf8Bytes DEF IInv, TypeOK, TextFitsInput
<1>3. /\ text' \in Seq(Byte) /\ Len(text) <= Len(text') /\ Len(text') <= p
  BY SMT, <1>1, <1>2 DEF IInv, TypeOK
<1> QED BY SMT, <1>1, <1>3, ProgressKeeps

-----------------------------------------------------------------------------
LEMMA ValueKeeps == ASSUME IInv, Value PROVE IInv'
<1>1. ASSUME Unexpected(position) PROVE IInv'
  <2>1. position \in 0 .. Len(input)
    BY DEF IInv, TypeOK
  <2> QED BY <1>1, <2>1, RefusalKeeps DEF Unexpected, Kinds
<1>2. ASSUME NEW next \in {"string", "integer", "literal"},
             NEW p \in position .. Len(input), BeginToken(next, p)
      PROVE  IInv'
  <2>1. /\ UNCHANGED <<input, text, tokens, answer>> /\ phase' = next /\ position' = p
        /\ from' = position /\ start' = Len(text)
    BY <1>2 DEF BeginToken
  <2>2. TypeOK'
    BY <2>1 DEF IInv, TypeOK
  <2> QED BY <2>1, <2>2 DEF IInv, TypeOK, TextFitsInput, InNumber
<1>3. position \in 0 .. Len(input) /\ Len(input) \in Nat
  BY DEF IInv, TypeOK
<1>4. ASSUME ByteAt(position) = Quote PROVE position + 1 \in position .. Len(input)
  BY <1>3, <1>4 DEF ByteAt, Quote, None
<1> QED BY <1>1, <1>2, <1>3, <1>4 DEF Value

LEMMA LiteralKeeps == ASSUME IInv, Literal PROVE IInv'
<1>1. position \in Nat /\ position <= Len(input) /\ Len(input) \in Nat /\ input \in Seq(Byte)
  BY DEF IInv, TypeOK
<1>2. ASSUME NEW word \in Literals, IsPrefix(word, Slice(position, Len(input))),
             UNCHANGED text, Complete("literal", position + Len(word))
      PROVE  IInv'
  <2>1. Len(word) \in Nat
    BY SMT DEF Literals
  <2>2. Len(Slice(position, Len(input))) = Len(input) - position
    BY SMT, <1>1 DEF Slice
  <2>3. Len(word) <= Len(Slice(position, Len(input)))
    BY <1>2 DEF IsPrefix
  <2>4. position + Len(word) \in position .. Len(input)
    BY <1>1, <2>1, <2>2, <2>3
  <2> QED BY <1>1, <1>2, <2>1, <2>4, CompletionKeeps DEF IInv, TypeOK, TextFitsInput
<1>3. ASSUME Refuse("UnexpectedCharacter", position) PROVE IInv'
  BY <1>1, <1>3, RefusalKeeps DEF Kinds
<1> QED BY <1>2, <1>3 DEF Literal

LEMMA ResumeKeeps == ASSUME IInv, ResumeAfterComma PROVE IInv'
<1>1. position + 1 \in position .. Len(input)
  BY DEF IInv, TypeOK, ResumeAfterComma, ByteAt, Comma, None
<1> QED BY <1>1, ProgressKeeps DEF ResumeAfterComma, IInv, TypeOK, TextFitsInput

LEMMA RunKeeps == ASSUME IInv, Run PROVE IInv'
<1>1. PICK end \in position .. Len(input) :
        text' = text \o RunUpTo(end) /\ GoOn("string", end)
  BY DEF Run
<1>2. position \in Nat /\ position <= Len(input) /\ input \in Seq(Byte) /\ Len(input) \in Nat
      /\ text \in Seq(Byte) /\ Len(text) <= position
  BY DEF IInv, TypeOK, TextFitsInput
<1>3. RunUpTo(end) \in Seq(Byte) /\ Len(RunUpTo(end)) = end - position
  BY SMT, <1>2 DEF RunUpTo, Slice
<1>4. text' \in Seq(Byte) /\ Len(text) <= Len(text') /\ Len(text') <= end
  BY <1>1, <1>2, <1>3
<1> QED BY <1>1, <1>4, ProgressKeeps

LEMMA CloseStringKeeps == ASSUME IInv, CloseString PROVE IInv'
<1>1. position + 1 \in position .. Len(input)
  BY DEF IInv, TypeOK, CloseString, ByteAt, Quote, None
<1> QED BY <1>1, CompletionKeeps DEF CloseString, IInv, TypeOK, TextFitsInput

LEMMA EndRunKeeps == ASSUME IInv, EndRun PROVE IInv'
<1>1. position \in 0 .. Len(input)
  BY DEF IInv, TypeOK
<1> QED BY <1>1, RefusalKeeps DEF EndRun, Kinds

(* Where an escape starts, and its digits, lie inside the input. *)
LEMMA EscapeInside ==
    ASSUME IInv, AtEscape
    PROVE  /\ position \in Nat /\ Len(input) \in Nat /\ input \in Seq(Byte)
           /\ position < Len(input)
           /\ ByteAt(position + 1) # None => position + 2 <= Len(input)
<1>1. position \in Nat /\ position <= Len(input) /\ Len(input) \in Nat /\ input \in Seq(Byte)
  BY DEF IInv, TypeOK
<1> QED BY <1>1 DEF AtEscape, ByteAt, None, Backslash

LEMMA SimpleEscapeKeeps == ASSUME IInv, SimpleEscape PROVE IInv'
<1> DEFINE letter == ByteAt(position + 1)
<1>1. letter \in DOMAIN Simple /\ Push(Simple[letter], position + 2) /\ AtEscape
  BY SMT DEF SimpleEscape
<1>2. letter # None /\ Simple[letter] \in Nat /\ Simple[letter] < 128
  BY SMT, <1>1 DEF Simple, None
<1>3. position + 2 \in position .. Len(input) /\ position \in Nat
  BY SMT, <1>1, <1>2, EscapeInside
<1>4. Len(Utf8(Simple[letter])) = 1
  BY SMT, <1>2, Utf8Bytes
<1>5. Simple[letter] <= 1114111 /\ Len(Utf8(Simple[letter])) <= position + 2 - position
  BY SMT, <1>2, <1>3, <1>4
<1> HIDE DEF letter
<1> QED BY SMT, <1>1, <1>2, <1>3, <1>5, PushKeeps

LEMMA BadEscapeKeeps == ASSUME IInv, BadEscape PROVE IInv'
<1>1. AtEscape
  BY DEF BadEscape
<1>2. position \in 0 .. Len(input) /\ Len(input) \in 0 .. Len(input)
  BY <1>1, EscapeInside
<1> QED BY <1>2, RefusalKeeps DEF BadEscape, Kinds

LEMMA UnicodeEscapeKeeps == ASSUME IInv, UnicodeEscape PROVE IInv'
<1>1. AtEscape /\ IsHex4(position + 2) /\ Push(High, position + 6)
  BY SMT DEF UnicodeEscape, AtUnicode
<1>2. position + 6 \in position .. Len(input) /\ position \in Nat
  BY SMT, <1>1, EscapeInside DEF IsHex4
<1>3. High \in Nat /\ High <= 65535
  BY SMT, <1>1, <1>2, EscapeInside, Hex4IsUnit DEF High
<1>4. Len(Utf8(High)) <= 3 /\ Utf8(High) \in Seq(Byte)
  BY SMT, <1>3, Utf8Bytes
<1> QED BY SMT, <1>1, <1>2, <1>3, <1>4, PushKeeps

LEMMA SurrogatePairKeeps == ASSUME IInv, SurrogatePair PROVE IInv'
<1> DEFINE low == Hex4(position + 8)
<1>1. AtEscape /\ IsHex4(position + 2) /\ High \in HighSurrogate /\ StartsUnicode(position + 6)
  BY SMT DEF SurrogatePair, AtUnicode
<1>2. position \in 0 .. Len(input) /\ position \in Nat /\ Len(input) \in Nat
  BY SMT, <1>1, EscapeInside
<1>3. LowOffset(position) \in 0 .. Len(input)
  BY SMT, <1>1, <1>2 DEF StartsUnicode, ByteAt, Backslash, None, LowOffset
<1>4. ASSUME Refuse("InvalidEscape", LowOffset(position)) PROVE IInv'
  BY SMT, <1>3, <1>4, RefusalKeeps DEF Kinds
<1>5. ASSUME Refuse("LoneSurrogate", position) PROVE IInv'
  BY SMT, <1>2, <1>5, RefusalKeeps DEF Kinds
<1>6. ASSUME IsHex4(position + 8), IsLowHalf(low), Push(Paired(High, low), position + 12)
      PROVE  IInv'
  <2>1. position + 12 \in position .. Len(input)
    BY SMT, <1>2, <1>6 DEF IsHex4
  <2>2. /\ High \in Nat /\ 55296 <= High /\ High <= 56319
        /\ low \in Nat /\ 56320 <= low /\ low <= 57343
    BY SMTT(30), <1>1, <1>6 DEF HighSurrogate, LowSurrogate, IsLowHalf
  <2> HIDE DEF low
  <2>3. Paired(High, low) \in Nat /\ Paired(High, low) <= 1114111
    BY SMT, <2>2 DEF Paired
  <2>4. Len(Utf8(Paired(High, low))) <= 4 /\ Utf8(Paired(High, low)) \in Seq(Byte)
    BY SMT, <2>3, Utf8Bytes
  <2>5. Len(Utf8(Paired(High, low))) \in Nat
    BY SMT, <2>4
  <2> QED BY SMT, <1>2, <1>6, <2>1, <2>3, <2>4, <2>5, PushKeeps
<1> QED BY SMT, <1>4, <1>5, <1>6 DEF SurrogatePair

LEMMA LoneSurrogateKeeps == ASSUME IInv, LoneSurrogate PROVE IInv'
<1>1. position \in 0 .. Len(input)
  BY DEF IInv, TypeOK
<1> QED BY <1>1, RefusalKeeps DEF LoneSurrogate, Kinds

(* The three parts of a number. *)
LEMMA DigitsKeep ==
    ASSUME IInv, InNumber, NEW next \in {"fraction", "exponent", "convert"},
           NEW p \in Nat, position <= p, DigitsThen(next, p)
    PROVE  IInv'
<1>1. position \in 0 .. Len(input) /\ Len(input) \in Nat /\ from \in 0 .. Len(input)
      /\ text \in Seq(Byte) /\ Len(text) <= from /\ from <= position
  BY DEF IInv, TypeOK
<1>2. ASSUME InvalidNumber PROVE IInv'
  BY <1>1, <1>2, RefusalKeeps DEF InvalidNumber, Kinds
<1>3. ASSUME NEW end \in p .. Len(input), GoOn(next, end), UNCHANGED text
      PROVE  IInv'
  BY <1>1, <1>3, ProgressKeeps
<1> QED BY <1>2, <1>3 DEF DigitsThen

LEMMA PartKeeps ==
    ASSUME IInv, InNumber, NEW next \in {"fraction", "exponent", "convert"},
           NEW p \in position .. Len(input), UNCHANGED text, GoOn(next, p)
    PROVE  IInv'
<1>1. position \in 0 .. Len(input) /\ from \in 0 .. position
      /\ text \in Seq(Byte) /\ Len(text) <= from /\ Len(input) \in Nat
  BY DEF IInv, TypeOK
<1> QED BY <1>1, ProgressKeeps

LEMMA IntegerKeeps == ASSUME IInv, Integer PROVE IInv'
<1> DEFINE first == IF ByteAt(position) = 45 THEN position + 1 ELSE position
<1>1. position \in 0 .. Len(input) /\ Len(input) \in Nat /\ InNumber
  BY DEF IInv, TypeOK, Integer, InNumber
<1>2. first \in Nat /\ position <= first
  BY <1>1
<1>3. \/ DigitsThen("fraction", first)
      \/ IsZero(ByteAt(first)) /\ UNCHANGED text /\ GoOn("fraction", first + 1)
  BY DEF Integer
<1> HIDE DEF first
<1>4. IsZero(ByteAt(first)) => first + 1 \in position .. Len(input)
  BY <1>1, <1>2 DEF IsZero, ByteAt, None
<1> QED BY <1>1, <1>2, <1>3, <1>4, DigitsKeep, PartKeeps

LEMMA FractionKeeps == ASSUME IInv, Fraction PROVE IInv'
<1>1. position \in position .. Len(input) /\ position + 1 \in Nat /\ position \in Nat /\ InNumber
  BY DEF IInv, TypeOK, Fraction, InNumber
<1>2. \/ DigitsThen("exponent", position + 1)
      \/ UNCHANGED text /\ GoOn("exponent", position)
  BY DEF Fraction
<1> QED BY <1>1, <1>2, DigitsKeep, PartKeeps

LEMMA ExponentKeeps == ASSUME IInv, Exponent PROVE IInv'
<1>1. position \in position .. Len(input) /\ position \in Nat /\ InNumber
  BY DEF IInv, TypeOK, Exponent, InNumber
<1>2. \/ DigitsThen("convert", position + 1)
      \/ DigitsThen("convert", position + 2)
      \/ UNCHANGED text /\ GoOn("convert", position)
  BY DEF Exponent
<1> QED BY <1>1, <1>2, DigitsKeep, PartKeeps

LEMMA ConvertKeeps == ASSUME IInv, Convert PROVE IInv'
<1>1. position \in 0 .. Len(input) /\ Len(input) \in Nat /\ from \in 0 .. position
      /\ input \in Seq(Byte) /\ text \in Seq(Byte) /\ Len(text) <= from
  BY DEF IInv, TypeOK, Convert, InNumber
<1>2. ASSUME Refuse("NumberOutOfRange", from) PROVE IInv'
  BY <1>1, <1>2, RefusalKeeps DEF Kinds
<1>3. ASSUME text' = text \o Slice(from, position), Complete("number", position)
      PROVE  IInv'
  <2>1. Slice(from, position) \in Seq(Byte) /\ Len(Slice(from, position)) = position - from
    BY <1>1, SliceIsBytes
  <2>2. text' \in Seq(Byte) /\ Len(text) <= Len(text') /\ Len(text') <= position
    BY <1>1, <1>3, <2>1
  <2> QED BY <1>1, <1>3, <2>2, CompletionKeeps
<1> QED BY <1>2, <1>3 DEF Convert

-----------------------------------------------------------------------------
(* For every input, the scanner's text never outgrows the part of the      *)
(* input it was decoded from, and its offsets lie inside the input.        *)
THEOREM ScannerFits == Spec => [](TypeOK /\ TextFitsInput)
<1>1. Init => IInv
  <2> SUFFICES ASSUME Init PROVE IInv
    OBVIOUS
  <2>1. input \in Seq(Byte)
    BY InputsAssumption DEF Init
  <2>2. Len(input) \in Nat /\ Len(text) = 0 /\ text \in Seq(Byte)
        /\ tokens \in Seq([kind : {"string", "literal", "number"}, from : Nat, to : Nat,
                           start : Nat, end : Nat])
    BY <2>1 DEF Init
  <2>3. TypeOK
    BY <2>2 DEF Init, TypeOK
  <2> QED BY <2>1, <2>2, <2>3 DEF Init, IInv, TextFitsInput, InNumber
<1>2. IInv /\ [Next]_vars => IInv'
  <2> SUFFICES ASSUME IInv, [Next]_vars PROVE IInv'
    OBVIOUS
  <2>1. CASE UNCHANGED vars
    BY <2>1 DEF vars, IInv, TypeOK, TextFitsInput, InNumber
  <2> QED BY <2>1, ValueKeeps, LiteralKeeps, ResumeKeeps, RunKeeps, CloseStringKeeps,
             EndRunKeeps, SimpleEscapeKeeps, BadEscapeKeeps, UnicodeEscapeKeeps,
             SurrogatePairKeeps, LoneSurrogateKeeps, IntegerKeeps, FractionKeeps,
             ExponentKeeps, ConvertKeeps DEF Next
<1>3. IInv => TypeOK /\ TextFitsInput
  BY DEF IInv
<1> QED BY <1>1, <1>2, <1>3, PTL DEF Spec
=============================================================================
