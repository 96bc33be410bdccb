------------------------------ MODULE Unicode ------------------------------
(***************************************************************************)
(* Code points and the two encodings of src/order.rs and src/read.rs: the  *)
(* UTF-8 in which Rust keeps text, and the UTF-16 of which RFC 8785 orders *)
(* names and RFC 8259 spells escapes.                                      *)
(***************************************************************************)
EXTENDS Integers, Sequences

HighSurrogate == 55296 .. 56319     \* D800 .. DBFF
LowSurrogate  == 56320 .. 57343     \* DC00 .. DFFF
ScalarValue == {c \in Nat : c <= 1114111 /\ (c < 55296 \/ c > 57343)}

Utf16(c) ==
    IF c < 65536 THEN <<c>>
    ELSE <<55296 + (c - 65536) \div 1024, 56320 + ((c - 65536) % 1024)>>

Utf8(c) ==
    IF c < 128 THEN <<c>>
    ELSE IF c < 2048 THEN <<192 + c \div 64, 128 + (c % 64)>>
    ELSE IF c < 65536
      THEN <<224 + c \div 4096, 128 + ((c \div 64) % 64), 128 + (c % 64)>>
    ELSE <<240 + c \div 262144, 128 + ((c \div 4096) % 64),
           128 + ((c \div 64) % 64), 128 + (c % 64)>>

(* A sequence of units is the UTF-16 of some text if its surrogates pair.  *)
WellFormed(units) ==
    \A i \in DOMAIN units :
        /\ units[i] \in HighSurrogate => i < Len(units) /\ units[i + 1] \in LowSurrogate
        /\ units[i] \in LowSurrogate  => i > 1 /\ units[i - 1] \in HighSurrogate
=============================================================================
