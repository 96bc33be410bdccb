-------------------------- MODULE NameOrderProofs --------------------------
(***************************************************************************)
(* The argument of the head comment of src/order.rs, for every pair of     *)
(* characters: the bytes in which their UTF-8 differs first have the order *)
(* of their UTF-16, once the two ranges of lead bytes are exchanged.       *)
(***************************************************************************)
EXTENDS NameOrder, TLAPS

(* Two characters at the same place of two names, and the first byte in    *)
(* which their UTF-8 differs.                                              *)
FirstDifferAt(c, d, k) ==
    /\ k \in DOMAIN Utf8(c) \cap DOMAIN Utf8(d)
    /\ Utf8(c)[k] # Utf8(d)[k]
    /\ \A j \in 1 .. k - 1 : Utf8(c)[j] = Utf8(d)[j]

(* The order of their UTF-16, in arithmetic: surrogates lie below E000.    *)
UnitsBefore(c, d) ==
    IF c < 65536 /\ d >= 65536 THEN c < 55296
    ELSE IF c >= 65536 /\ d < 65536 THEN d > 57343
    ELSE c < d

(* Characters of different byte counts differ in their lead bytes. *)
LeadRange(c) ==
    /\ Utf8(c)[1] \in Int
    /\ c < 128 => Utf8(c)[1] = c
    /\ c >= 128 /\ c < 2048 => 194 <= Utf8(c)[1] /\ Utf8(c)[1] <= 223
    /\ c >= 2048 /\ c < 55296 => 224 <= Utf8(c)[1] /\ Utf8(c)[1] <= 237
    /\ c >= 57344 /\ c < 65536 => 238 <= Utf8(c)[1] /\ Utf8(c)[1] <= 239
    /\ c >= 65536 => 240 <= Utf8(c)[1] /\ Utf8(c)[1] <= 244

LEMMA LeadBytes ==
    ASSUME NEW c \in ScalarValue
    PROVE  LeadRange(c)
BY SMT DEF LeadRange, Utf8, ScalarValue

LEMMA DifferenceInLead ==
    ASSUME NEW c \in ScalarValue, NEW d \in ScalarValue, UnitsBefore(c, d),
           Utf8(c)[1] # Utf8(d)[1]
    PROVE  FirstDifference(Utf8(c)[1], Utf8(d)[1]) = "Less"
           /\ FirstDifference(Utf8(d)[1], Utf8(c)[1]) = "Greater"
<1>1. c \in Nat /\ d \in Nat /\ (c < 55296 \/ c > 57343) /\ (d < 55296 \/ d > 57343)
  BY DEF ScalarValue
<1>2. LeadRange(c) /\ LeadRange(d)
  BY LeadBytes
<1> DEFINE a == Utf8(c)[1]
           b == Utf8(d)[1]
<1>3. a < b \/ (a >= 240 /\ (b = 238 \/ b = 239))
  <2>1. CASE (c < 128 /\ d >= 128) \/ (c < 2048 /\ d >= 2048)
    BY SMT, <1>1, <2>1, <1>2 DEF LeadRange
  <2>2. CASE c < 128 /\ d < 128
    BY SMT, <1>1, <2>2, <1>2 DEF UnitsBefore, LeadRange
  <2>3. CASE c >= 128 /\ c < 2048 /\ d >= 128 /\ d < 2048
    BY SMT, <1>1, <2>3 DEF UnitsBefore, Utf8
  <2>4. CASE c >= 2048 /\ c < 65536 /\ d >= 2048 /\ d < 65536
    BY SMT, <1>1, <2>4 DEF UnitsBefore, Utf8
  <2>5. CASE c >= 65536 /\ d >= 65536
    BY SMT, <1>1, <2>5 DEF UnitsBefore, Utf8
  <2>6. CASE c >= 65536 /\ d < 65536
    BY SMT, <1>1, <2>6, <1>2 DEF UnitsBefore, LeadRange
  <2>7. CASE c >= 2048 /\ c < 65536 /\ d >= 65536
    BY SMT, <1>1, <2>7, <1>2 DEF UnitsBefore, LeadRange
  <2>8. CASE d < 2048 /\ c >= 2048 /\ c < 65536
    BY SMT, <1>1, <2>8 DEF UnitsBefore
  <2>9. CASE d < 128 /\ c >= 128 /\ c < 65536
    BY SMT, <1>1, <2>9 DEF UnitsBefore
  <2> QED BY <1>1, <2>1, <2>2, <2>3, <2>4, <2>5, <2>6, <2>7, <2>8, <2>9
<1>4. a \in Int /\ b \in Int /\ ~(b >= 240 /\ (a = 238 \/ a = 239))
  BY SMT, <1>1, <1>2 DEF UnitsBefore, LeadRange
<1> HIDE DEF a, b
<1>5. FirstDifference(a, b) = "Less"
  BY <1>3, <1>4 DEF FirstDifference, HighBmp, Supplementary, ByteOrder
<1>6. FirstDifference(b, a) = "Greater"
  BY <1>3, <1>4 DEF FirstDifference, HighBmp, Supplementary, ByteOrder
<1> QED BY <1>5, <1>6 DEF a, b

(* Where the lead bytes agree, both characters have as many bytes, and the *)
(* bytes that follow are those of what is left of them.                    *)
LEMMA DifferenceAfterLead ==
    ASSUME NEW c \in ScalarValue, NEW d \in ScalarValue, UnitsBefore(c, d),
           NEW k \in 2 .. 4, FirstDifferAt(c, d, k)
    PROVE  FirstDifference(Utf8(c)[k], Utf8(d)[k]) = "Less"
           /\ FirstDifference(Utf8(d)[k], Utf8(c)[k]) = "Greater"
<1>1. c \in Nat /\ d \in Nat /\ (c < 55296 \/ c > 57343) /\ (d < 55296 \/ d > 57343)
      /\ c <= 1114111 /\ d <= 1114111
  BY SMT DEF ScalarValue
<1>2. Utf8(c)[1] = Utf8(d)[1]
  BY SMT DEF FirstDifferAt
<1>3. LeadRange(c) /\ LeadRange(d)
  BY LeadBytes
<1> DEFINE a == Utf8(c)[k]
           b == Utf8(d)[k]
<1>4. a \in Int /\ b \in Int /\ a < b /\ b < 192
  <2>1. CASE c < 2048 /\ c >= 128
    <3>1. d < 2048 /\ d >= 128
      BY SMT, <1>1, <1>2, <2>1, <1>3 DEF LeadRange
    <3>2. k = 2
      BY SMT, <2>1, <3>1, <1>1 DEF FirstDifferAt, Utf8
    <3> QED BY SMT, <1>1, <1>2, <2>1, <3>1, <3>2 DEF UnitsBefore, Utf8
  <2>2. CASE c >= 2048 /\ c < 65536
    <3>1. d >= 2048 /\ d < 65536
      BY SMT, <1>1, <1>2, <2>2, <1>3 DEF LeadRange
    <3>2. CASE k = 2
      BY SMT, <1>1, <1>2, <2>2, <3>1, <3>2 DEF UnitsBefore, Utf8, FirstDifferAt
    <3>3. CASE k = 3
      <4>1. Utf8(c)[2] = Utf8(d)[2]
        BY SMT, <3>3 DEF FirstDifferAt
      <4> QED BY SMT, <1>1, <1>2, <2>2, <3>1, <3>3, <4>1 DEF UnitsBefore, Utf8
    <3>4. k # 4
      BY SMT, <2>2, <3>1, <1>1 DEF FirstDifferAt, Utf8
    <3> QED BY SMT, <3>2, <3>3, <3>4
  <2>3. CASE c >= 65536
    <3>1. d >= 65536
      BY SMT, <1>1, <1>2, <2>3, <1>3 DEF LeadRange
    <3>2. CASE k = 2
      BY SMT, <1>1, <1>2, <2>3, <3>1, <3>2 DEF UnitsBefore, Utf8, FirstDifferAt
    <3>3. CASE k = 3
      <4>1. Utf8(c)[2] = Utf8(d)[2]
        BY SMT, <3>3 DEF FirstDifferAt
      <4> QED BY SMT, <1>1, <1>2, <2>3, <3>1, <3>3, <4>1 DEF UnitsBefore, Utf8, FirstDifferAt
    <3>4. CASE k = 4
      <4>1. Utf8(c)[2] = Utf8(d)[2] /\ Utf8(c)[3] = Utf8(d)[3]
        BY SMT, <3>4 DEF FirstDifferAt
      <4> QED BY SMT, <1>1, <1>2, <2>3, <3>1, <3>4, <4>1 DEF UnitsBefore, Utf8
    <3> QED BY SMT, <3>2, <3>3, <3>4
  <2>4. c >= 128
    BY SMT, <1>1 DEF FirstDifferAt, Utf8
  <2> QED BY SMT, <1>1, <2>1, <2>2, <2>3, <2>4
<1> HIDE DEF a, b
<1>5. FirstDifference(a, b) = "Less"
  BY SMT, <1>4 DEF FirstDifference, HighBmp, Supplementary, ByteOrder
<1>6. FirstDifference(b, a) = "Greater"
  BY SMT, <1>4 DEF FirstDifference, HighBmp, Supplementary, ByteOrder
<1> QED BY <1>5, <1>6 DEF a, b

(* UnitsBefore is the order of two characters' UTF-16. *)
LEMMA UnitsDecide ==
    ASSUME NEW c \in ScalarValue, NEW d \in ScalarValue, UnitsBefore(c, d)
    PROVE  Before(Utf16(c), Utf16(d))
<1>1. c \in Nat /\ d \in Nat /\ (c < 55296 \/ c > 57343) /\ (d < 55296 \/ d > 57343)
      /\ c <= 1114111 /\ d <= 1114111
  BY SMT DEF ScalarValue
<1>2. /\ Utf16(c) \in Seq(Nat) /\ Utf16(d) \in Seq(Nat)
      /\ Len(Utf16(c)) \in {1, 2} /\ Len(Utf16(d)) \in {1, 2}
  BY SMT, <1>1 DEF Utf16
<1>3. CASE Utf16(c)[1] < Utf16(d)[1]
  <2>1. 1 \in DOMAIN Utf16(c) \cap DOMAIN Utf16(d)
    BY <1>2
  <2>2. SubSeq(Utf16(c), 1, 1 - 1) = SubSeq(Utf16(d), 1, 1 - 1)
    BY <1>2
  <2> QED BY <1>3, <2>1, <2>2 DEF Before
<1>4. CASE ~(Utf16(c)[1] < Utf16(d)[1])
  <2>1. c >= 65536 /\ d >= 65536
    BY SMT, <1>1, <1>4 DEF UnitsBefore, Utf16
  <2>2. /\ Utf16(c)[1] = Utf16(d)[1] /\ Utf16(c)[2] < Utf16(d)[2]
        /\ Len(Utf16(c)) = 2 /\ Len(Utf16(d)) = 2
    BY SMT, <1>1, <1>4, <2>1 DEF UnitsBefore, Utf16
  <2>3. SubSeq(Utf16(c), 1, 2 - 1) = SubSeq(Utf16(d), 1, 2 - 1)
    BY SMT, <1>2, <2>2
  <2>4. 2 \in DOMAIN Utf16(c) \cap DOMAIN Utf16(d)
    BY <1>2, <2>2
  <2> QED BY <2>2, <2>3, <2>4 DEF Before
<1> QED BY <1>3, <1>4

(* order.rs, utf16_order_of_first_difference: for any two characters at    *)
(* the first place where two names differ, the rule applied to the first   *)
(* byte in which their UTF-8 differs gives the order of their UTF-16.      *)
THEOREM FirstDifferenceIsUtf16 ==
    ASSUME NEW c \in ScalarValue, NEW d \in ScalarValue, NEW k, FirstDifferAt(c, d, k)
    PROVE  /\ FirstDifference(Utf8(c)[k], Utf8(d)[k]) = "Less"    => Before(Utf16(c), Utf16(d))
           /\ FirstDifference(Utf8(c)[k], Utf8(d)[k]) = "Greater" => Before(Utf16(d), Utf16(c))
           /\ FirstDifference(Utf8(c)[k], Utf8(d)[k]) \in {"Less", "Greater"}
<1>1. c \in Nat /\ d \in Nat /\ (c < 55296 \/ c > 57343) /\ (d < 55296 \/ d > 57343)
  BY SMT DEF ScalarValue
<1>2. k = 1 \/ k \in 2 .. 4
  BY SMT DEF FirstDifferAt, Utf8
<1>3. c # d
  BY DEF FirstDifferAt
<1>4. FirstDifferAt(d, c, k)
  BY SMT DEF FirstDifferAt
<1>5. CASE UnitsBefore(c, d)
  <2>1. FirstDifference(Utf8(c)[k], Utf8(d)[k]) = "Less"
    BY <1>2, <1>5, DifferenceInLead, DifferenceAfterLead DEF FirstDifferAt
  <2> QED BY <1>5, <2>1, UnitsDecide
<1>6. CASE UnitsBefore(d, c)
  <2>1. FirstDifference(Utf8(c)[k], Utf8(d)[k]) = "Greater"
    BY <1>2, <1>4, <1>6, DifferenceInLead, DifferenceAfterLead DEF FirstDifferAt
  <2> QED BY <1>6, <2>1, UnitsDecide
<1>7. UnitsBefore(c, d) \/ UnitsBefore(d, c)
  BY SMT, <1>1, <1>3 DEF UnitsBefore
<1> QED BY <1>5, <1>6, <1>7

(* The bytes always differ somewhere: UTF-8 tells two characters apart. *)
THEOREM Utf8TellsApart ==
    ASSUME NEW c \in ScalarValue, NEW d \in ScalarValue, c # d
    PROVE  \E k : FirstDifferAt(c, d, k)
<1>1. c \in Nat /\ d \in Nat /\ c <= 1114111 /\ d <= 1114111
  BY SMT DEF ScalarValue
<1> DEFINE Differ(k) == k \in DOMAIN Utf8(c) \cap DOMAIN Utf8(d) /\ Utf8(c)[k] # Utf8(d)[k]
<1>2. Differ(1) \/ Differ(2) \/ Differ(3) \/ Differ(4)
  BY SMT, <1>1 DEF Utf8
<1>3. CASE Differ(1)
  BY <1>3 DEF FirstDifferAt
<1>4. CASE ~Differ(1) /\ Differ(2)
  <2>1. FirstDifferAt(c, d, 2)
    BY SMT, <1>1, <1>4 DEF FirstDifferAt, Utf8
  <2> QED BY <2>1
<1>5. CASE ~Differ(1) /\ ~Differ(2) /\ Differ(3)
  <2>1. FirstDifferAt(c, d, 3)
    BY SMT, <1>1, <1>5 DEF FirstDifferAt, Utf8
  <2> QED BY <2>1
<1>6. CASE ~Differ(1) /\ ~Differ(2) /\ ~Differ(3) /\ Differ(4)
  <2>1. FirstDifferAt(c, d, 4)
    BY SMT, <1>1, <1>6 DEF FirstDifferAt, Utf8
  <2> QED BY <2>1
<1> HIDE DEF Differ
<1> QED BY <1>2, <1>3, <1>4, <1>5, <1>6

=============================================================================
