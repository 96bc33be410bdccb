--------------------------- MODULE IntegerNumbers ---------------------------
(***************************************************************************)
(* The integers of src/number.rs, Writer::signed and Writer::unsigned, and *)
(* the numbers of serde_json that src/value.rs sends to them.              *)
(*                                                                         *)
(* The widths are parameters: Precision is 53, Long 64 and Wide 128 in the *)
(* code.  A double is modelled by the integer it stands for; Infinite is   *)
(* what a literal too large for any double is parsed as.                   *)
(*                                                                         *)
(* An operator that stands directly before another one of the same         *)
(* parameters and that nothing uses is a mutant of it.                     *)
(***************************************************************************)
EXTENDS Integers

CONSTANTS
    Precision,      \* bits of a double's significand
    Long, Wide      \* bits of the two widths of machine integers, each above the last

VARIABLES
    asked,      \* the call and the number it was given
    answer      \* the double whose text is written, or the refusal

vars == <<asked, answer>>

Signed(bits)   == -(2 ^ (bits - 1)) .. 2 ^ (bits - 1) - 1
Unsigned(bits) == 0 .. 2 ^ bits - 1
Infinite == 2 ^ Wide

Text(double)   == [is |-> "text", value |-> double]
Refusal(e, n)  == [is |-> e, value |-> n]
Waiting        == [is |-> "none", value |-> 0]

-----------------------------------------------------------------------------
(* `magnitude as f64`: the nearest double, ties to even.                   *)
LeadingBit(n) == CHOOSE k \in 0 .. Wide : 2 ^ k <= n /\ n < 2 ^ (k + 1)
Unit(n) == IF n < 2 ^ Precision THEN 1 ELSE 2 ^ (LeadingBit(n) - Precision + 1)
Nearest(n) ==
    LET below == n \div Unit(n)
        twice == 2 * (n % Unit(n))
    IN  Unit(n) * (IF twice < Unit(n) \/ (twice = Unit(n) /\ below % 2 = 0)
                     THEN below ELSE below + 1)

MaxExactNextBit == 2 ^ (Precision + 1)
MaxExact == 2 ^ Precision

Abs(n) == IF n < 0 THEN -n ELSE n

WithinBelow(magnitude) == magnitude < MaxExact
Within(magnitude) == magnitude <= MaxExact

ExactIntegerDouble(negative, magnitude) ==
    IF negative THEN -Nearest(magnitude) ELSE Nearest(magnitude)

SignedAnswer(n) ==
    IF Within(Abs(n)) THEN Text(ExactIntegerDouble(n < 0, Abs(n)))
    ELSE Refusal("IntegerMagnitudeAboveMaximum", n)

UnsignedAnswer(n) ==
    IF Within(n) THEN Text(ExactIntegerDouble(FALSE, n))
    ELSE Refusal("UnsignedIntegerMagnitudeAboveMaximum", n)

DoubleAnswer(x) == IF x = Infinite THEN Refusal("NonFiniteNumber", x) ELSE Text(x)

-----------------------------------------------------------------------------
Ask(call, n, reply) ==
    /\ answer = Waiting
    /\ asked' = [call |-> call, value |-> n]
    /\ answer' = reply

Integer(n) == n \in Signed(Wide) /\ Ask("integer", n, SignedAnswer(n))
SerializeU128(n) == n \in Unsigned(Wide) /\ Ask("u128", n, UnsignedAnswer(n))

(* encode_number of an integer literal: as_i64, then as_u64; with          *)
(* arbitrary_precision a longer literal is left, and refused by its text.  *)
EncodeInteger(n) ==
    Ask("literal", n, IF n \in Signed(Long) \cup Unsigned(Long) THEN SignedAnswer(n)
                      ELSE Refusal("WideIntegerMagnitudeAboveMaximum", n))

(* encode_number of a literal with a fraction or an exponent. *)
EncodeFloat(x) ==
    /\ x = Infinite \/ x = Nearest(Abs(x)) \/ -x = Nearest(Abs(x))
    /\ Ask("float", x, DoubleAnswer(x))

Init == asked = [call |-> "none", value |-> 0] /\ answer = Waiting

Next ==
    \E n \in Signed(Wide) \cup Unsigned(Wide) \cup {Infinite} :
        Integer(n) \/ SerializeU128(n) \/ EncodeInteger(n) \/ EncodeFloat(n)

Spec == Init /\ [][Next]_vars

-----------------------------------------------------------------------------
(* "Every RFC 8785 number is an IEEE 754 double" and none is rounded: what *)
(* is written for a number, or named as refused, is exactly that number,   *)
(* whichever call asked.  Integers are refused from the first magnitude on *)
(* at which doubles can no longer count, at the same place for both signs, *)
(* every width and serde_json's literals; a literal with a fraction or an  *)
(* exponent only if no double is near it.                                  *)
NothingIsRounded ==
    answer # Waiting =>
        /\ answer.value = asked.value
        /\ (answer.is = "text") =
             IF asked.call = "float" THEN asked.value # Infinite
             ELSE \A m \in 1 .. Abs(asked.value) : Nearest(m) = m
=============================================================================
