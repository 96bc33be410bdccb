---------------------------- MODULE SequenceFacts ----------------------------
(***************************************************************************)
(* Lemmas about sequences and sets of numbers that the proofs about the    *)
(* writer and the reader share.                                            *)
(***************************************************************************)
EXTENDS Integers, Sequences, SequencesExt, SequenceTheorems, FiniteSetTheorems, TLAPS

(* A piece of a sequence, whatever its bounds, if it ends inside. *)
LEMMA PieceType ==
    ASSUME NEW S, NEW s \in Seq(S), NEW m \in Nat \ {0}, NEW n \in Nat, n <= Len(s)
    PROVE  /\ SubSeq(s, m, n) \in Seq(S)
           /\ Len(SubSeq(s, m, n)) = IF m <= n THEN n - m + 1 ELSE 0
<1>1. SubSeq(s, m, n) \in Seq(S)
  BY LenProperties
<1>2. Len(SubSeq(s, m, n)) = IF m <= n THEN n - m + 1 ELSE 0
  BY LenProperties
<1>3. QED
  BY <1>1, <1>2

(* The elements of a piece are elements of the whole. *)
LEMMA PieceElements ==
    ASSUME NEW S, NEW s \in Seq(S), NEW m \in Nat \ {0}, NEW n \in Nat, n <= Len(s),
           NEW i \in DOMAIN SubSeq(s, m, n)
    PROVE  /\ m + i - 1 \in DOMAIN s /\ SubSeq(s, m, n)[i] = s[m + i - 1]
           /\ i \in Nat \ {0} /\ m + i - 1 <= n
<1>1. Len(s) \in Nat /\ DOMAIN s = 1 .. Len(s)
  BY LenProperties
<1>2. i \in 1 .. Len(SubSeq(s, m, n))
  BY PieceType, LenProperties
<1>3. m <= n /\ i \in 1 .. n - m + 1
  BY <1>2, PieceType
<1>4. SubSeq(s, m, n)[i] = s[m + i - 1]
  BY <1>1, <1>3, SubSeqProperties
<1>5. QED
  BY <1>1, <1>3, <1>4

(* The last element of a nonempty sequence, and what is left without it. *)
LEMMA FrontLast ==
    ASSUME NEW S, NEW s \in Seq(S), s # <<>>
    PROVE  /\ Last(s) \in S
           /\ Front(s) \in Seq(S)
           /\ Len(Front(s)) = Len(s) - 1
           /\ Len(s) \in Nat \ {0}
           /\ \A i \in 1 .. Len(s) - 1 : Front(s)[i] = s[i]
<1>1. Len(s) \in Nat \ {0}
  BY EmptySeq
<1>2. Last(s) \in S
  BY <1>1, ElementOfSeq DEF Last
<1>3. /\ SubSeq(s, 1, Len(s) - 1) \in Seq(S)
      /\ Len(SubSeq(s, 1, Len(s) - 1)) = Len(s) - 1
  <2> DEFINE k == Len(s) - 1
  <2>1. k \in Nat /\ k <= Len(s)
    BY <1>1
  <2> HIDE DEF k
  <2>2. SubSeq(s, 1, k) \in Seq(S) /\ Len(SubSeq(s, 1, k)) = IF 1 <= k THEN k - 1 + 1 ELSE 0
    BY <2>1, PieceType
  <2>3. Len(SubSeq(s, 1, k)) = k
    BY <2>1, <2>2
  <2>4. QED
    BY <2>2, <2>3 DEF k
<1>4. \A i \in 1 .. Len(s) - 1 : SubSeq(s, 1, Len(s) - 1)[i] = s[i]
  BY <1>1, LenProperties
<1>5. QED
  BY <1>1, <1>2, <1>3, <1>4 DEF Front

(* What is left of a sequence after its first k elements. *)
LEMMA SuffixType ==
    ASSUME NEW S, NEW s \in Seq(S), NEW k \in Nat
    PROVE  /\ SubSeq(s, k + 1, Len(s)) \in Seq(S)
           /\ Len(SubSeq(s, k + 1, Len(s))) \in Nat
           /\ Len(SubSeq(s, k + 1, Len(s))) = IF k <= Len(s) THEN Len(s) - k ELSE 0
<1> DEFINE m == k + 1
           n == Len(s)
<1>1. m \in Nat \ {0} /\ n \in Nat /\ n <= Len(s)
  BY LenProperties
<1>2. n >= m <=> k + 1 <= n
  BY <1>1
<1> HIDE DEF m, n
<1>3. SubSeq(s, m, n) \in Seq(S) /\ Len(SubSeq(s, m, n)) = IF m <= n THEN n - m + 1 ELSE 0
  BY <1>1, PieceType
<1>4. QED
  BY <1>1, <1>3 DEF m, n

(* Its elements, in their places in the sequence. *)
LEMMA SuffixElements ==
    ASSUME NEW S, NEW s \in Seq(S), NEW k \in Nat,
           NEW i \in 1 .. Len(SubSeq(s, k + 1, Len(s)))
    PROVE  k + i \in 1 .. Len(s) /\ SubSeq(s, k + 1, Len(s))[i] = s[k + i]
<1>1. Len(s) \in Nat
  BY LenProperties
<1>2. k < Len(s) /\ i <= Len(s) - k
  BY <1>1, SuffixType
<1>3. SubSeq(s, k + 1, Len(s))[i] = s[k + 1 + i - 1]
  BY <1>1, <1>2, SubSeqProperties
<1>4. k + 1 + i - 1 = k + i
  BY <1>1
<1>5. QED
  BY <1>1, <1>2, <1>3, <1>4

(* Its first k elements. *)
LEMMA PrefixType ==
    ASSUME NEW S, NEW s \in Seq(S), NEW k \in Nat, k <= Len(s)
    PROVE  SubSeq(s, 1, k) \in Seq(S) /\ Len(SubSeq(s, 1, k)) = k
<1>1. SubSeq(s, 1, k) \in Seq(S) /\ Len(SubSeq(s, 1, k)) = IF 1 <= k THEN k - 1 + 1 ELSE 0
  BY PieceType
<1>2. QED
  BY <1>1

LEMMA FrontType ==
    ASSUME NEW S, NEW s \in Seq(S)
    PROVE  Front(s) \in Seq(S)
<1>1. CASE s = <<>>
  <2>1. Len(s) - 1 < 1 /\ Len(s) - 1 \in Int
    BY <1>1, EmptySeq
  <2>2. Front(s) = <<>>
    BY <2>1, SubSeqEmpty DEF Front
  <2>3. QED
    BY <2>2, EmptySeq
<1>2. CASE s # <<>>
  BY <1>2, FrontLast
<1>3. QED
  BY <1>1, <1>2

(* A function on 1 .. n is a sequence of length n. *)
LEMMA FunctionIsSeq ==
    ASSUME NEW S, NEW n \in Nat, NEW f \in [1 .. n -> S]
    PROVE  f \in Seq(S) /\ Len(f) = n
<1>1. f \in Seq(S)
  BY SeqDef
<1>2. DOMAIN f = 1 .. Len(f) /\ Len(f) \in Nat
  BY <1>1, LenProperties
<1>3. QED
  BY <1>1, <1>2

(* Short tuples are sequences. *)
LEMMA TupleType ==
    ASSUME NEW S, NEW a \in S, NEW b \in S, NEW c \in S, NEW d \in S
    PROVE  /\ <<>> \in Seq(S) /\ <<a>> \in Seq(S) /\ <<a, b>> \in Seq(S)
           /\ <<a, b, c>> \in Seq(S) /\ <<a, b, c, d>> \in Seq(S)
  OBVIOUS

-----------------------------------------------------------------------------
(* A set of naturals that is not empty has a least element. *)
LEMMA LeastNatural ==
    ASSUME NEW S \in SUBSET Nat, S # {}
    PROVE  \E m \in S : \A k \in S : m <= k
<1>1. PICK n \in S : n \in Nat
  OBVIOUS
<1> DEFINE B == 0 .. n
           T == {0 .. k : k \in {j \in S : j <= n}}
<1>2. IsWellFoundedOn(StrictSubsetOrdering(B), FiniteSubsetsOf(B))
  BY FS_StrictSubsetOrderingWellFounded
<1>3. T \subseteq FiniteSubsetsOf(B)
  <2> SUFFICES ASSUME NEW k \in S, k <= n PROVE 0 .. k \in FiniteSubsetsOf(B)
    OBVIOUS
  <2>1. IsFiniteSet(0 .. k)
    BY FS_Interval
  <2>2. 0 .. k \in SUBSET B
    BY <1>1
  <2>3. QED
    BY <2>1, <2>2 DEF FiniteSubsetsOf
<1>4. T # {}
  BY <1>1
<1>5. \E x \in T : \A y \in T : <<y, x>> \notin StrictSubsetOrdering(B)
  <2> HIDE DEF T, B
  <2>1. QED
    BY <1>2, <1>3, <1>4, WFMin
<1>6. PICK m \in S : m <= n /\ \A y \in T : <<y, 0 .. m>> \notin StrictSubsetOrdering(B)
  BY <1>5
<1>7. ASSUME NEW k \in S PROVE m <= k
  <2> SUFFICES ASSUME k < m PROVE FALSE
    OBVIOUS
  <2>1. k <= n /\ 0 .. k \in T
    BY <1>1, <1>6
  <2>2. 0 .. k \subseteq 0 .. m /\ 0 .. k # 0 .. m /\ 0 .. m \in SUBSET B /\ 0 .. k \in SUBSET B
    BY <1>1, <1>6, <2>1
  <2>3. <<0 .. k, 0 .. m>> \in StrictSubsetOrdering(B)
    BY <2>2 DEF StrictSubsetOrdering
  <2>4. QED
    BY <1>6, <2>1, <2>3
<1>8. QED
  BY <1>7
=============================================================================
