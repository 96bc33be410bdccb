---------------------------- MODULE SinksProofs -----------------------------
(***************************************************************************)
(* Proofs about the sinks: the sinks of a row stay in step, only the whole *)
(* text is returned of them, and a label is told from the text after it.   *)
(***************************************************************************)
EXTENDS Sinks, SequenceFacts

-----------------------------------------------------------------------------
(* Sequences. *)

(* A beginning of a sequence and what follows it in the same sequence. *)
LEMMA BeginningExtended ==
    ASSUME NEW S, NEW s \in Seq(S), NEW p \in Nat, NEW n \in Nat, p + n <= Len(s)
    PROVE  SubSeq(s, 1, p) \o SubSeq(s, p + 1, p + n) = SubSeq(s, 1, p + n)
<1>1. Len(s) \in Nat
  BY LenProperties
<1>2. 1 \in 1 .. Len(s) + 1 /\ p \in 1 - 1 .. Len(s) /\ p + n \in p .. Len(s)
  BY <1>1
<1>3. QED
  BY <1>2, ConcatAdjacentSubSeq

(* What follows a beginning that is known. *)
LEMMA AfterBeginning ==
    ASSUME NEW S, NEW s \in Seq(S), NEW t \in Seq(S)
    PROVE  SubSeq(s \o t, Len(s) + 1, Len(s \o t)) = t
<1>1. /\ Len(s) \in Nat /\ Len(t) \in Nat
      /\ s \o t \in Seq(S) /\ Len(s \o t) = Len(s) + Len(t)
      /\ \A i \in 1 .. Len(s) + Len(t) : (s \o t)[i] = IF i <= Len(s) THEN s[i] ELSE t[i - Len(s)]
  BY LenProperties, ConcatProperties
<1> DEFINE rest == SubSeq(s \o t, Len(s) + 1, Len(s \o t))
<1>2. rest \in Seq(S) /\ Len(rest) = Len(t)
  <2>1. /\ rest \in Seq(S)
        /\ Len(rest) = IF Len(s) <= Len(s \o t) THEN Len(s \o t) - Len(s) ELSE 0
    BY <1>1, SuffixType
  <2>2. QED
    BY <2>1, <1>1
<1>3. \A i \in 1 .. Len(rest) : rest[i] = t[i]
  <2> SUFFICES ASSUME NEW i \in 1 .. Len(rest) PROVE rest[i] = t[i]
    OBVIOUS
  <2>1. Len(s) + i \in 1 .. Len(s \o t) /\ rest[i] = (s \o t)[Len(s) + i]
    BY <1>1, SuffixElements
  <2>2. i \in Nat /\ i >= 1
    BY <1>1, <1>2
  <2>3. (s \o t)[Len(s) + i] = t[Len(s) + i - Len(s)]
    BY <1>1, <2>1, <2>2
  <2>4. Len(s) + i - Len(s) = i
    BY <1>1, <2>2
  <2>5. QED
    BY <2>1, <2>3, <2>4
<1> HIDE DEF rest
<1>4. rest = t
  BY <1>2, <1>3, SeqEqual
<1>5. QED
  BY <1>4 DEF rest

(* A known beginning stays one when the same is put in front. *)
LEMMA BeginningAfter ==
    ASSUME NEW S, NEW s \in Seq(S), NEW t \in Seq(S), NEW u \in Seq(S), IsStartOf(t, u)
    PROVE  IsStartOf(s \o t, s \o u)
<1>1. /\ Len(s) \in Nat /\ Len(t) \in Nat /\ Len(u) \in Nat /\ Len(t) <= Len(u)
      /\ t = SubSeq(u, 1, Len(t))
  BY LenProperties DEF IsStartOf
<1>2. /\ s \o t \in Seq(S) /\ Len(s \o t) = Len(s) + Len(t)
      /\ \A i \in 1 .. Len(s) + Len(t) : (s \o t)[i] = IF i <= Len(s) THEN s[i] ELSE t[i - Len(s)]
  BY ConcatProperties
<1>3. /\ s \o u \in Seq(S) /\ Len(s \o u) = Len(s) + Len(u)
      /\ \A i \in 1 .. Len(s) + Len(u) : (s \o u)[i] = IF i <= Len(s) THEN s[i] ELSE u[i - Len(s)]
  BY ConcatProperties
<1>4. \A i \in 1 .. Len(t) : t[i] = u[i]
  <2>1. \A i \in 1 .. Len(t) : u[i] \in S
    BY <1>1, ElementOfSeq
  <2>2. \A i \in 1 .. Len(t) - 1 + 1 : SubSeq(u, 1, Len(t))[i] = u[1 + i - 1]
    BY <1>1, <2>1, SubSeqProperties
  <2>3. QED
    BY <1>1, <2>2
<1> DEFINE a == s \o t
           b == s \o u
           c == SubSeq(b, 1, Len(a))
<1>5. Len(a) \in Nat /\ Len(a) <= Len(b)
  BY <1>1, <1>2, <1>3
<1>6. c \in Seq(S) /\ Len(c) = Len(a)
  BY <1>3, <1>5, PrefixType
<1>7. \A i \in 1 .. Len(a) : b[i] \in S
  BY <1>3, <1>5, <1>1, ElementOfSeq
<1>8. \A i \in 1 .. Len(a) : c[i] = b[i]
  <2>1. \A i \in 1 .. Len(a) - 1 + 1 : c[i] = b[1 + i - 1]
    BY <1>5, <1>7, SubSeqProperties
  <2>2. QED
    BY <1>5, <2>1
<1>9. \A i \in 1 .. Len(a) : a[i] = c[i]
  <2> SUFFICES ASSUME NEW i \in 1 .. Len(a) PROVE a[i] = b[i]
    BY <1>8
  <2>1. i \in 1 .. Len(s) + Len(t) /\ i \in 1 .. Len(s) + Len(u)
    BY <1>1, <1>2
  <2>2. CASE i <= Len(s)
    BY <2>1, <2>2, <1>2, <1>3
  <2>3. CASE ~(i <= Len(s))
    <3>1. i - Len(s) \in 1 .. Len(t)
      BY <1>1, <2>1, <2>3
    <3>2. t[i - Len(s)] = u[i - Len(s)]
      BY <3>1, <1>4
    <3>3. QED
      BY <2>1, <2>3, <3>2, <1>2, <1>3
  <2>4. QED
    BY <2>2, <2>3
<1>10. a \in Seq(S)
  BY <1>2
<1> HIDE DEF a, b, c
<1>11. a = c
  BY <1>6, <1>9, <1>10, SeqEqual
<1>12. QED
  BY <1>5, <1>11 DEF IsStartOf, a, b, c

-----------------------------------------------------------------------------
(* The invariant: what a sink holds is what it was seeded with, then every *)
(* write that the whole row has taken, then what it has taken of the one   *)
(* under way; only an io::Write takes part of one.                         *)
Taken(i) == IF i < turn THEN write ELSE IF i = turn THEN SubSeq(write, 1, part) ELSE <<>>

HeldIsTaken == \A i \in Row : held[i] = (Seed(i) \o fed) \o Taken(i)
PartsOfWriteSinks == part # 0 => turn \in Row /\ Kind[turn] = "WriteSink"
ReturnedWhole == returned # NoSinks => result = "Ok" /\ returned = {held} /\ turn = Count + 1
RunningReturnsNothing == result = "running" => returned = NoSinks

IInv ==
    /\ TypeOK
    /\ HeldIsTaken
    /\ PartsOfWriteSinks
    /\ ReturnedWhole
    /\ RunningReturnsNothing

LEMMA SeedType ==
    ASSUME label \in Labels, NEW i \in Row
    PROVE  Seed(i) \in Seq(Bytes)
<1>1. label \in Seq(Bytes) /\ Len(label) \in Bytes
  BY BytesAssumption
<1>2. <<Len(label)>> \in Seq(Bytes)
  BY <1>1
<1>3. <<Len(label)>> \o label \in Seq(Bytes)
  BY <1>1, <1>2, ConcatProperties
<1>4. <<>> \in Seq(Bytes)
  BY EmptySeq
<1>5. QED
  BY <1>3, <1>4 DEF Seed, DomainPrefix

LEMMA TakenType ==
    ASSUME TypeOK, NEW i \in Row
    PROVE  Taken(i) \in Seq(Bytes)
<1>1. write \in Seq(Bytes) /\ part \in Nat /\ part <= Len(write)
  <2>1. write \in Seq(Bytes) /\ part \in 0 .. Len(write)
    BY DEF TypeOK
  <2>2. Len(write) \in Nat
    BY <2>1, LenProperties
  <2>3. QED
    BY <2>1, <2>2
<1>2. SubSeq(write, 1, part) \in Seq(Bytes)
  BY <1>1, PrefixType
<1>3. <<>> \in Seq(Bytes)
  BY EmptySeq
<1>4. QED
  BY <1>1, <1>2, <1>3 DEF Taken

-----------------------------------------------------------------------------
LEMMA InitInv ==
    ASSUME SinkInit
    PROVE  IInv
<1>1. /\ label \in Labels /\ fed = <<>> /\ write = <<>> /\ turn = Count + 1 /\ part = 0
      /\ held = [i \in Row |-> Seed(i)] /\ result = "running" /\ returned = NoSinks
  BY DEF SinkInit
<1>2. <<>> \in Seq(Bytes) /\ Len(<<>>) = 0
  BY EmptySeq
<1>3. Count \in Nat /\ Row = 1 .. Count
  BY SinksAssumption DEF Row
<1>4. held \in [Row -> Seq(Bytes)]
  BY <1>1, SeedType
<1>5. TypeOK
  <2>1. turn \in 1 .. Count + 1 /\ part \in 0 .. Len(write)
    BY <1>1, <1>2, <1>3
  <2>2. returned \subseteq [Row -> Seq(Bytes)]
    BY <1>1 DEF NoSinks
  <2>3. QED
    BY <1>1, <1>2, <1>4, <2>1, <2>2 DEF TypeOK
<1>6. HeldIsTaken
  <2> SUFFICES ASSUME NEW i \in Row PROVE held[i] = (Seed(i) \o fed) \o Taken(i)
    BY DEF HeldIsTaken
  <2>1. Taken(i) = <<>>
    BY <1>1, <1>3 DEF Taken
  <2>2. Seed(i) \in Seq(Bytes)
    BY <1>1, SeedType
  <2>3. Seed(i) \o <<>> = Seed(i)
    BY <2>2, ConcatEmptySeq
  <2>4. held[i] = Seed(i)
    BY <1>1
  <2>5. QED
    BY <1>1, <2>1, <2>3, <2>4
<1>7. QED
  BY <1>1, <1>5, <1>6 DEF IInv, PartsOfWriteSinks, ReturnedWhole, RunningReturnsNothing, NoSinks

(* A sink takes bytes, and the sink at turn is the only one that changes.  *)
LEMMA TakeType ==
    ASSUME TypeOK, turn \in Row, NEW bytes \in Seq(Bytes), Take(bytes)
    PROVE  /\ held' \in [Row -> Seq(Bytes)]
           /\ held'[turn] = held[turn] \o bytes
           /\ \A i \in Row : i # turn => held'[i] = held[i]
<1>1. held \in [Row -> Seq(Bytes)] /\ held[turn] \in Seq(Bytes)
  BY DEF TypeOK
<1>2. held[turn] \o bytes \in Seq(Bytes)
  BY <1>1, ConcatProperties
<1>3. held' = [held EXCEPT ![turn] = held[turn] \o bytes]
  BY DEF Take
<1>4. QED
  BY <1>1, <1>2, <1>3

LEMMA HandWriteKeeps ==
    ASSUME IInv, NEW bytes \in Writes, HandWrite(bytes)
    PROVE  IInv'
<1>1. /\ result = "running" /\ turn = Count + 1 /\ fed' = fed \o write /\ write' = bytes
      /\ turn' = 1 /\ part' = 0
      /\ label' = label /\ held' = held /\ result' = result /\ returned' = returned
  BY DEF HandWrite, Between, Reaches
<1>2. TypeOK /\ HeldIsTaken /\ RunningReturnsNothing
  BY DEF IInv
<1>3. /\ label \in Labels /\ fed \in Seq(Bytes) /\ write \in Seq(Bytes)
      /\ held \in [Row -> Seq(Bytes)] /\ returned \subseteq [Row -> Seq(Bytes)]
  BY <1>2 DEF TypeOK
<1>4. bytes \in Seq(Bytes) /\ Count \in Nat /\ Row = 1 .. Count
  BY BytesAssumption, SinksAssumption DEF Row
<1>5. fed' \in Seq(Bytes)
  BY <1>1, <1>3, ConcatProperties
<1>6. TypeOK'
  <2>1. Len(bytes) \in Nat
    BY <1>4, LenProperties
  <2>2. turn' \in 1 .. Count + 1 /\ part' \in 0 .. Len(write')
    BY <1>1, <1>4, <2>1
  <2>3. result' \in {"running", "Ok", "Sink", "Allocation", "refused"}
    BY <1>1
  <2>4. returned' \subseteq [Row -> Seq(Bytes)] /\ held' \in [Row -> Seq(Bytes)]
    BY <1>1, <1>3
  <2>5. QED
    BY <1>1, <1>3, <1>4, <1>5, <2>2, <2>3, <2>4 DEF TypeOK
<1>7. HeldIsTaken'
  <2> SUFFICES ASSUME NEW i \in Row PROVE held'[i] = (Seed(i)' \o fed') \o Taken(i)'
    BY DEF HeldIsTaken, Row
  <2>1. Seed(i)' = Seed(i) /\ Seed(i) \in Seq(Bytes)
    BY <1>1, <1>3, SeedType DEF Seed
  <2>2. Taken(i) = write
    BY <1>1, <1>4 DEF Taken
  <2>3. Taken(i)' = <<>>
    <3>1. SubSeq(bytes, 1, 0) = <<>>
      BY SubSeqEmpty
    <3>2. i >= 1
      BY <1>4
    <3>3. QED
      BY <1>1, <3>1, <3>2, <1>4 DEF Taken
  <2>4. held[i] = (Seed(i) \o fed) \o write
    BY <1>2, <2>2 DEF HeldIsTaken
  <2>5. (Seed(i) \o fed) \o write = Seed(i) \o (fed \o write)
    BY SMTT(30), <2>1, <1>3, ConcatAssociative
  <2>6. Seed(i) \o (fed \o write) \in Seq(Bytes)
    BY <2>1, <1>1, <1>5, ConcatProperties
  <2>7. (Seed(i) \o (fed \o write)) \o <<>> = Seed(i) \o (fed \o write)
    BY <2>6, ConcatEmptySeq
  <2>8. QED
    BY <1>1, <2>1, <2>3, <2>4, <2>5, <2>7
<1>8. QED
  BY <1>1, <1>2, <1>6, <1>7
     DEF IInv, PartsOfWriteSinks, ReturnedWhole, RunningReturnsNothing, NoSinks

(* The sink at turn goes on, and perhaps is done. *)
LEMMA SinkGoesOn ==
    ASSUME IInv, result = "running", turn \in Row,
           turn' \in turn .. turn + 1, part' \in 0 .. Len(write),
           turn' # turn => part' = 0,
           part' # 0 => Kind[turn] = "WriteSink",
           held' \in [Row -> Seq(Bytes)],
           \A i \in Row : i # turn => held'[i] = held[i],
           held'[turn] = (Seed(turn) \o fed) \o (IF turn' = turn THEN SubSeq(write, 1, part') ELSE write),
           label' = label, fed' = fed, write' = write, result' = result, returned' = returned
    PROVE  IInv'
<1>1. TypeOK /\ HeldIsTaken /\ RunningReturnsNothing
  BY DEF IInv
<1>2. Count \in Nat /\ Row = 1 .. Count /\ turn \in Nat
  BY SinksAssumption DEF Row
<1>3. TypeOK'
  <2>1. turn' \in 1 .. Count + 1 /\ part' \in 0 .. Len(write')
    BY <1>2
  <2>2. result' \in {"running", "Ok", "Sink", "Allocation", "refused"}
    OBVIOUS
  <2>3. /\ label' \in Labels /\ fed' \in Seq(Bytes) /\ write' \in Seq(Bytes)
        /\ returned' \subseteq [Row -> Seq(Bytes)]
    BY <1>1 DEF TypeOK
  <2>4. QED
    BY <2>1, <2>2, <2>3 DEF TypeOK
<1>4. HeldIsTaken'
  <2> SUFFICES ASSUME NEW i \in Row PROVE held'[i] = (Seed(i)' \o fed') \o Taken(i)'
    BY DEF HeldIsTaken, Row
  <2>1. Seed(i)' = Seed(i)
    BY DEF Seed
  <2>2. held[i] = (Seed(i) \o fed) \o Taken(i)
    BY <1>1 DEF HeldIsTaken
  <2>3. CASE i = turn
    <3>1. Taken(i)' = IF turn' = turn THEN SubSeq(write, 1, part') ELSE write
      BY <2>3, <1>2 DEF Taken
    <3>2. QED
      BY <2>1, <2>3, <3>1
  <2>4. CASE i # turn
    <3>1. Taken(i)' = Taken(i)
      <4>1. CASE i < turn
        BY <4>1, <1>2 DEF Taken
      <4>2. CASE ~(i < turn)
        <5>1. i > turn /\ Taken(i) = <<>>
          BY <2>4, <4>2, <1>2 DEF Taken
        <5>2. i # turn' => Taken(i)' = <<>>
          BY <5>1, <1>2 DEF Taken
        <5>3. i = turn' => Taken(i)' = <<>>
          <6>1. SubSeq(write, 1, 0) = <<>>
            BY SubSeqEmpty
          <6>2. ASSUME i = turn' PROVE part' = 0 /\ ~(i < turn')
            BY <5>1, <6>2, <1>2
          <6>3. ASSUME i = turn' PROVE Taken(i)' = SubSeq(write', 1, part')
            BY <6>2, <6>3 DEF Taken
          <6>4. QED
            BY <6>1, <6>2, <6>3
        <5>4. QED
          BY <5>1, <5>2, <5>3
      <4>3. QED
        BY <4>1, <4>2
    <3>2. QED
      BY <2>1, <2>2, <2>4, <3>1
  <2>5. QED
    BY <2>3, <2>4
<1>5. PartsOfWriteSinks'
  <2>1. ASSUME part' # 0 PROVE turn' = turn
    BY <2>1
  <2>2. part' # 0 => turn' \in Row /\ Kind[turn'] = "WriteSink"
    BY <2>1
  <2>3. QED
    BY <2>2 DEF PartsOfWriteSinks, Row
<1>6. QED
  BY <1>1, <1>3, <1>4, <1>5 DEF IInv, ReturnedWhole, RunningReturnsNothing, NoSinks

(* A Vec or a hasher takes the write whole. *)
LEMMA WholeTaken ==
    ASSUME IInv, result = "running", turn \in Row, Kind[turn] # "WriteSink",
           Take(write), Reaches(turn + 1), UNCHANGED <<label, fed, write, result, returned>>
    PROVE  IInv'
<1>1. TypeOK /\ HeldIsTaken /\ part = 0
  BY DEF IInv, PartsOfWriteSinks
<1>2. write \in Seq(Bytes) /\ fed \in Seq(Bytes) /\ label \in Labels
  BY <1>1 DEF TypeOK
<1>3. turn \in Nat /\ turn' = turn + 1 /\ part' = 0 /\ Len(write) \in Nat
  BY <1>2, SinksAssumption, LenProperties DEF Row, Reaches
<1>4. /\ held' \in [Row -> Seq(Bytes)] /\ held'[turn] = held[turn] \o write
      /\ \A i \in Row : i # turn => held'[i] = held[i]
  BY <1>1, <1>2, TakeType
<1>5. held[turn] = Seed(turn) \o fed
  <2>1. SubSeq(write, 1, 0) = <<>>
    BY SubSeqEmpty
  <2>2. Taken(turn) = <<>>
    BY <1>1, <1>3, <2>1 DEF Taken
  <2>3. Seed(turn) \in Seq(Bytes)
    BY <1>2, SeedType
  <2>4. (Seed(turn) \o fed) \o <<>> = Seed(turn) \o fed
    BY <1>2, <2>3, ConcatProperties, ConcatEmptySeq
  <2>5. QED
    BY <1>1, <2>2, <2>4 DEF HeldIsTaken
<1>6. /\ turn' \in turn .. turn + 1 /\ part' \in 0 .. Len(write)
      /\ turn' # turn /\ part' = 0
  BY <1>3
<1>7. held'[turn] = (Seed(turn) \o fed) \o (IF turn' = turn THEN SubSeq(write, 1, part') ELSE write)
  BY <1>4, <1>5, <1>6
<1>8. label' = label /\ fed' = fed /\ write' = write /\ result' = result /\ returned' = returned
  OBVIOUS
<1>9. QED
  BY <1>4, <1>6, <1>7, <1>8, SinkGoesOn

LEMMA UpdateKeeps ==
    ASSUME IInv, Update
    PROVE  IInv'
<1>1. /\ result = "running" /\ turn \in Row /\ Kind[turn] # "WriteSink"
      /\ Take(write) /\ Reaches(turn + 1) /\ UNCHANGED <<label, fed, write, result, returned>>
  BY DEF Update, AtSink
<1>2. QED
  BY <1>1, WholeTaken

LEMMA ReturnKeeps ==
    ASSUME IInv, NEW outcome \in {"Ok", "Sink", "Allocation", "refused"},
           EncodeReturns(outcome), outcome = "Ok" => turn = Count + 1
    PROVE  IInv'
<1>1. /\ result' = outcome /\ returned' = ReturnedOf(outcome)
      /\ label' = label /\ fed' = fed /\ write' = write /\ turn' = turn
      /\ part' = part /\ held' = held
  BY DEF EncodeReturns
<1>2. TypeOK /\ HeldIsTaken /\ PartsOfWriteSinks
  BY DEF IInv
<1>3. returned' = IF outcome = "Ok" THEN {held} ELSE {}
  BY <1>1 DEF ReturnedOf, NoSinks
<1>4. TypeOK'
  <2>1. held \in [Row -> Seq(Bytes)]
    BY <1>2 DEF TypeOK
  <2>2. returned' \subseteq [Row -> Seq(Bytes)]
    BY <1>3, <2>1
  <2>3. QED
    BY <1>1, <1>2, <2>2 DEF TypeOK
<1>5. HeldIsTaken'
  BY <1>1, <1>2 DEF HeldIsTaken, Taken, Seed
<1>6. PartsOfWriteSinks'
  BY <1>1, <1>2 DEF PartsOfWriteSinks
<1>7. ReturnedWhole' /\ RunningReturnsNothing'
  BY <1>1, <1>3 DEF ReturnedWhole, RunningReturnsNothing, NoSinks
<1>8. QED
  BY <1>4, <1>5, <1>6, <1>7 DEF IInv

LEMMA TryExtendKeeps ==
    ASSUME IInv, TryExtend
    PROVE  IInv'
<1>1. result = "running" /\ turn \in Row /\ Kind[turn] # "WriteSink"
  BY DEF TryExtend, AtSink
<1>2. CASE Take(write) /\ Reaches(turn + 1) /\ UNCHANGED <<label, fed, write, result, returned>>
  BY <1>1, <1>2, WholeTaken
<1>3. CASE EncodeReturns("Allocation")
  BY <1>3, ReturnKeeps
<1>4. QED
  BY <1>2, <1>3 DEF TryExtend

LEMMA WriteAllKeeps ==
    ASSUME IInv, WriteAll
    PROVE  IInv'
<1>1. result = "running" /\ turn \in Row /\ Kind[turn] = "WriteSink"
  BY DEF WriteAll, AtSink
<1>2. TypeOK /\ HeldIsTaken
  BY DEF IInv
<1>3. /\ write \in Seq(Bytes) /\ fed \in Seq(Bytes) /\ label \in Labels
      /\ part \in 0 .. Len(write) /\ held \in [Row -> Seq(Bytes)]
  BY <1>2 DEF TypeOK
<1>4. Len(write) \in Nat /\ turn \in Nat
  BY <1>1, <1>3, LenProperties, SinksAssumption DEF Row
<1>5. Seed(turn) \o fed \in Seq(Bytes)
  BY <1>1, <1>3, SeedType, ConcatProperties
<1>6. held[turn] = (Seed(turn) \o fed) \o SubSeq(write, 1, part)
  <2>1. Taken(turn) = SubSeq(write, 1, part)
    <3>1. ~(turn < turn)
      BY <1>4
    <3>2. QED
      BY <3>1, Zenon DEF Taken
  <2>2. QED
    BY <1>1, <1>2, <2>1 DEF HeldIsTaken
<1>7. SubSeq(write, 1, part) \in Seq(Bytes)
  BY <1>3, <1>4, PrefixType
<1>8. ASSUME NEW n \in 1 .. Len(write) - part, Take(LeftOver(n)),
             turn' = turn /\ part' = part + n, UNCHANGED <<label, fed, write, result, returned>>
      PROVE  IInv'
  <2>1. n \in Nat /\ part \in Nat /\ part + n <= Len(write) /\ part + n \in 0 .. Len(write)
    BY <1>3, <1>4, <1>8
  <2>2. LeftOver(n) \in Seq(Bytes)
    BY <2>1, <1>3, PieceType DEF LeftOver
  <2>3. /\ held' \in [Row -> Seq(Bytes)] /\ held'[turn] = held[turn] \o LeftOver(n)
        /\ \A i \in Row : i # turn => held'[i] = held[i]
    BY <1>1, <1>2, <1>8, <2>2, TakeType
  <2>4. ((Seed(turn) \o fed) \o SubSeq(write, 1, part)) \o LeftOver(n)
          = (Seed(turn) \o fed) \o (SubSeq(write, 1, part) \o LeftOver(n))
    <3> DEFINE a == Seed(turn) \o fed
               b == SubSeq(write, 1, part)
               c == LeftOver(n)
    <3>1. a \in Seq(Bytes) /\ b \in Seq(Bytes) /\ c \in Seq(Bytes)
      BY <1>5, <1>7, <2>2
    <3> HIDE DEF a, b, c
    <3>2. (a \o b) \o c = a \o (b \o c)
      BY <3>1, ConcatAssociative
    <3>3. QED
      BY <3>2 DEF a, b, c
  <2>5. SubSeq(write, 1, part) \o LeftOver(n) = SubSeq(write, 1, part + n)
    BY <2>1, <1>3, BeginningExtended DEF LeftOver
  <2>6. held'[turn] = (Seed(turn) \o fed) \o SubSeq(write, 1, part')
    BY <1>6, <1>8, <2>3, <2>4, <2>5
  <2>7. turn' \in turn .. turn + 1 /\ part' \in 0 .. Len(write) /\ turn' = turn
    BY <1>4, <1>8, <2>1
  <2>8. held'[turn] = (Seed(turn) \o fed) \o (IF turn' = turn THEN SubSeq(write, 1, part') ELSE write)
    BY <2>6, <2>7
  <2>9. label' = label /\ fed' = fed /\ write' = write /\ result' = result /\ returned' = returned
    BY <1>8
  <2>10. QED
    BY <1>1, <2>3, <2>7, <2>8, <2>9, SinkGoesOn
<1>9. CASE part < Len(write) /\ EncodeReturns("Sink")
  BY <1>9, ReturnKeeps
<1>10. CASE /\ part = Len(write) /\ Reaches(turn + 1)
            /\ UNCHANGED <<label, fed, write, held, result, returned>>
  <2>1. SubSeq(write, 1, part) = write
    BY <1>3, <1>10, SubSeqFull
  <2>2. turn' = turn + 1 /\ part' = 0 /\ held' = held
    BY <1>10 DEF Reaches
  <2>3. held'[turn] = (Seed(turn) \o fed) \o write
    BY <1>6, <2>1, <2>2
  <2>4. /\ turn' \in turn .. turn + 1 /\ part' \in 0 .. Len(write) /\ turn' # turn
        /\ held' \in [Row -> Seq(Bytes)] /\ \A i \in Row : i # turn => held'[i] = held[i]
    BY <1>3, <1>4, <2>2
  <2>5. held'[turn] = (Seed(turn) \o fed) \o (IF turn' = turn THEN SubSeq(write, 1, part') ELSE write)
    BY <2>3, <2>4
  <2>6. label' = label /\ fed' = fed /\ write' = write /\ result' = result /\ returned' = returned
    BY <1>10
  <2>7. QED
    BY <1>1, <2>2, <2>4, <2>5, <2>6, SinkGoesOn
<1>11. QED
  BY <1>8, <1>9, <1>10 DEF WriteAll

LEMMA NextKeeps ==
    ASSUME IInv, [SinkNext]_sinkVars
    PROVE  IInv'
<1>1. ASSUME NEW bytes \in Writes, HandWrite(bytes) PROVE IInv'
  BY <1>1, HandWriteKeeps
<1>2. CASE Update
  BY <1>2, UpdateKeeps
<1>3. CASE TryExtend
  BY <1>3, TryExtendKeeps
<1>4. CASE WriteAll
  BY <1>4, WriteAllKeeps
<1>5. CASE EncodingDone
  BY <1>5, ReturnKeeps DEF EncodingDone, Between
<1>6. CASE EncodingRefused
  BY <1>6, ReturnKeeps DEF EncodingRefused
<1>7. CASE UNCHANGED sinkVars
  BY <1>7 DEF sinkVars, IInv, TypeOK, HeldIsTaken, Taken, Seed, PartsOfWriteSinks, ReturnedWhole,
              RunningReturnsNothing, NoSinks
<1>8. QED
  BY <1>1, <1>2, <1>3, <1>4, <1>5, <1>6, <1>7 DEF SinkNext

-----------------------------------------------------------------------------
(* The invariant holds in every behaviour. *)
LEMMA Invariant == SinkSpec => []IInv
<1>1. SinkInit => IInv
  BY InitInv
<1>2. IInv /\ [SinkNext]_sinkVars => IInv'
  BY NextKeeps
<1>3. QED
  BY <1>1, <1>2, PTL DEF SinkSpec

(* What a sink holds after its seed. *)
LEMMA TextInIs ==
    ASSUME IInv, NEW i \in Row
    PROVE  TextIn(i) = fed \o Taken(i) /\ Taken(i) \in Seq(Bytes) /\ fed \in Seq(Bytes)
<1>1. TypeOK /\ HeldIsTaken
  BY DEF IInv
<1>2. label \in Labels /\ fed \in Seq(Bytes) /\ Taken(i) \in Seq(Bytes) /\ Seed(i) \in Seq(Bytes)
  BY <1>1, SeedType, TakenType DEF TypeOK
<1>3. fed \o Taken(i) \in Seq(Bytes)
  BY <1>2, ConcatProperties
<1>4. held[i] = (Seed(i) \o fed) \o Taken(i)
  BY <1>1 DEF HeldIsTaken
<1>5. (Seed(i) \o fed) \o Taken(i) = Seed(i) \o (fed \o Taken(i))
  BY <1>2, ConcatAssociative
<1>6. SubSeq(Seed(i) \o (fed \o Taken(i)), Len(Seed(i)) + 1,
             Len(Seed(i) \o (fed \o Taken(i)))) = fed \o Taken(i)
  BY <1>2, <1>3, AfterBeginning
<1>7. QED
  BY <1>2, <1>4, <1>5, <1>6 DEF TextIn

(* Of two sinks, the one to the right has taken a beginning of what the    *)
(* other has, and both a beginning of the write.                           *)
LEMMA TakenInStep ==
    ASSUME TypeOK, NEW i \in Row, NEW j \in Row, i <= j
    PROVE  /\ IsStartOf(Taken(j), Taken(i))
           /\ IsStartOf(Taken(i), write)
           /\ Len(Taken(i)) <= Len(write)
<1>1. /\ write \in Seq(Bytes) /\ part \in 0 .. Len(write) /\ turn \in Nat
      /\ i \in Nat /\ j \in Nat
  BY SinksAssumption DEF TypeOK, Row
<1>2. Len(write) \in Nat
  BY <1>1, LenProperties
<1> DEFINE some == SubSeq(write, 1, part)
<1>3. some \in Seq(Bytes) /\ Len(some) = part /\ part \in Nat
  BY <1>1, <1>2, PrefixType
<1>4. \A s \in Seq(Bytes) : Len(s) \in Nat /\ IsStartOf(s, s)
  BY LenProperties, SubSeqFull DEF IsStartOf
<1>5. \A s \in Seq(Bytes) : IsStartOf(<<>>, s)
  <2> SUFFICES ASSUME NEW s \in Seq(Bytes) PROVE IsStartOf(<<>>, s)
    OBVIOUS
  <2>1. Len(<<>>) = 0 /\ SubSeq(s, 1, 0) = <<>> /\ Len(s) \in Nat
    BY EmptySeq, SubSeqEmpty, LenProperties
  <2>2. QED
    BY <2>1 DEF IsStartOf
<1>6. IsStartOf(some, write)
  BY <1>1, <1>2, <1>3 DEF IsStartOf
<1>7. Taken(i) \in {write, some, <<>>} /\ Taken(j) \in {write, some, <<>>}
  BY DEF Taken
<1>8. <<>> \in Seq(Bytes) /\ Len(<<>>) = 0
  BY EmptySeq
<1>9. /\ IsStartOf(write, write) /\ IsStartOf(some, some) /\ IsStartOf(<<>>, write)
      /\ IsStartOf(<<>>, some) /\ IsStartOf(<<>>, <<>>)
  BY <1>1, <1>3, <1>4, <1>5, <1>8
<1>10. CASE i < turn
  <2>1. Taken(i) = write
    BY <1>10 DEF Taken
  <2>2. Taken(j) = write \/ Taken(j) = some \/ Taken(j) = <<>>
    BY <1>7
  <2>3. IsStartOf(Taken(j), write)
    BY <2>2, <1>6, <1>9
  <2>4. Len(write) <= Len(write)
    BY <1>2
  <2>5. QED
    BY <2>1, <2>3, <2>4, <1>9
<1>11. CASE i = turn
  <2>1. Taken(i) = some
    <3>1. ~(i < turn)
      BY <1>1, <1>11
    <3>2. QED
      BY <3>1, <1>11, Zenon DEF Taken, some
  <2>2. Taken(j) \in {some, <<>>}
    <3>1. ~(j < turn)
      BY <1>1, <1>11
    <3>2. QED
      BY <3>1, Zenon DEF Taken, some
  <2>3. part <= Len(write)
    BY <1>1, <1>2
  <2>4. QED
    BY <2>1, <2>2, <2>3, <1>3, <1>6, <1>9
<1>12. CASE i > turn
  <2>1. ~(i < turn) /\ i # turn /\ ~(j < turn) /\ j # turn
    BY <1>1, <1>12
  <2>2. Taken(i) = <<>> /\ Taken(j) = <<>>
    BY <2>1, Zenon DEF Taken
  <2>3. QED
    BY <2>2, <1>2, <1>8, <1>9
<1>13. QED
  BY <1>1, <1>10, <1>11, <1>12

-----------------------------------------------------------------------------
LEMMA InvGivesRowInStep ==
    ASSUME IInv
    PROVE  RowInStep
<1> SUFFICES ASSUME NEW i \in Row, NEW j \in Row, i <= j
             PROVE  /\ IsStartOf(TextIn(j), TextIn(i))
                    /\ IsStartOf(TextIn(i), fed \o write)
                    /\ Len(TextIn(i)) <= Len(TextIn(j)) + Len(write)
  BY DEF RowInStep
<1>1. TypeOK /\ write \in Seq(Bytes)
  BY DEF IInv, TypeOK
<1>2. /\ TextIn(i) = fed \o Taken(i) /\ Taken(i) \in Seq(Bytes)
      /\ TextIn(j) = fed \o Taken(j) /\ Taken(j) \in Seq(Bytes)
      /\ fed \in Seq(Bytes)
  BY TextInIs
<1>3. /\ IsStartOf(Taken(j), Taken(i)) /\ IsStartOf(Taken(i), write)
      /\ Len(Taken(i)) <= Len(write)
  BY <1>1, TakenInStep
<1>4. IsStartOf(TextIn(j), TextIn(i)) /\ IsStartOf(TextIn(i), fed \o write)
  BY <1>1, <1>2, <1>3, BeginningAfter
<1>5. Len(TextIn(i)) <= Len(TextIn(j)) + Len(write)
  <2>1. /\ Len(fed \o Taken(i)) = Len(fed) + Len(Taken(i))
        /\ Len(fed \o Taken(j)) = Len(fed) + Len(Taken(j))
    BY <1>2, ConcatProperties
  <2>2. Len(fed) \in Nat /\ Len(Taken(i)) \in Nat /\ Len(Taken(j)) \in Nat /\ Len(write) \in Nat
    BY <1>1, <1>2, LenProperties
  <2>3. QED
    BY <1>2, <1>3, <2>1, <2>2
<1>6. QED
  BY <1>4, <1>5

(* Whatever the sinks of a row are and wherever one of them fails, they    *)
(* hold beginnings of one text, the left ones at most one write ahead.     *)
THEOREM RowStaysInStep == SinkSpec => []RowInStep
<1>1. IInv => RowInStep
  BY InvGivesRowInStep
<1>2. QED
  BY <1>1, Invariant, PTL

LEMMA InvGivesWhole ==
    ASSUME IInv
    PROVE  OnlyTheWholeIsReturned
<1> SUFFICES ASSUME returned # NoSinks
             PROVE  result = "Ok" /\ returned = {[i \in Row |-> Seed(i) \o fed \o write]}
  BY DEF OnlyTheWholeIsReturned
<1>1. result = "Ok" /\ returned = {held} /\ turn = Count + 1
  BY DEF IInv, ReturnedWhole
<1>2. HeldIsTaken /\ held \in [Row -> Seq(Bytes)]
  BY DEF IInv, TypeOK
<1>3. \A i \in Row : Taken(i) = write
  BY <1>1, SinksAssumption DEF Taken, Row
<1>4. \A i \in Row : held[i] = (Seed(i) \o fed) \o write
  BY <1>2, <1>3 DEF HeldIsTaken
<1>5. held = [i \in Row |-> (Seed(i) \o fed) \o write]
  BY <1>2, <1>4
<1>6. QED
  BY <1>1, <1>5

(* to_vec, sha256 and sha256_with_domain return only what was fed the      *)
(* whole text, once.                                                       *)
THEOREM WholeReturned == SinkSpec => []OnlyTheWholeIsReturned
<1>1. IInv => OnlyTheWholeIsReturned
  BY InvGivesWhole
<1>2. QED
  BY <1>1, Invariant, PTL

-----------------------------------------------------------------------------
LEMMA SameLengthTellsApart ==
    ASSUME NEW S, NEW l \in Seq(S), NEW m \in Seq(S), NEW s \in Seq(S), NEW t \in Seq(S),
           Len(l) = Len(m), l \o s = m \o t
    PROVE  l = m /\ s = t
<1>1. Len(l) \in Nat /\ Len(m) \in Nat /\ Len(s) \in Nat /\ Len(t) \in Nat
  BY LenProperties
<1>2. \A i \in 1 .. Len(l) : l[i] = m[i]
  <2> SUFFICES ASSUME NEW i \in 1 .. Len(l) PROVE l[i] = m[i]
    OBVIOUS
  <2>1. /\ i \in 1 .. Len(l) + Len(s) /\ i \in 1 .. Len(m) + Len(t)
        /\ i <= Len(l) /\ i <= Len(m)
    BY <1>1
  <2>2. (l \o s)[i] = l[i] /\ (m \o t)[i] = m[i]
    BY <2>1, ConcatProperties
  <2>3. QED
    BY <2>2
<1>3. l = m
  BY <1>2, SeqEqual
<1>4. s = t
  BY <1>3, ConcatSimplifications
<1>5. QED
  BY <1>3, <1>4

(* Two labels, each with any text after it, are hashed as the same bytes   *)
(* only if they are the same label, and the texts the same text.           *)
THEOREM LabelsTellApart ==
    ASSUME NEW l \in Labels, NEW m \in Labels, NEW s \in Seq(Bytes), NEW t \in Seq(Bytes),
           DomainPrefix(l) \o s = DomainPrefix(m) \o t
    PROVE  l = m /\ s = t
<1>1. /\ l \in Seq(Bytes) /\ Len(l) \in Bytes
      /\ m \in Seq(Bytes) /\ Len(m) \in Bytes
  BY BytesAssumption
<1> DEFINE a == <<Len(l)>>
           b == <<Len(m)>>
<1>2. a \in Seq(Bytes) /\ b \in Seq(Bytes) /\ Len(a) = Len(b)
  <2>1. a \in Seq(Bytes)
    BY <1>1
  <2>2. b \in Seq(Bytes)
    BY <1>1
  <2>3. Len(a) = 1 /\ Len(b) = 1
    OBVIOUS
  <2>4. QED
    BY <2>1, <2>2, <2>3
<1>3. a[1] = Len(l) /\ b[1] = Len(m)
  OBVIOUS
<1>4. (a \o l) \o s = (b \o m) \o t
  BY Zenon DEF DomainPrefix, a, b
<1> HIDE DEF a, b
<1>5. l \o s \in Seq(Bytes) /\ m \o t \in Seq(Bytes)
  BY <1>1, ConcatProperties
<1>6. (a \o l) \o s = a \o (l \o s)
  <2>1. a \in Seq(Bytes) /\ l \in Seq(Bytes) /\ s \in Seq(Bytes)
    BY <1>1, <1>2
  <2>2. QED
    BY ONLY SMTT(30), <2>1, ConcatAssociative
<1>7. (b \o m) \o t = b \o (m \o t)
  <2>1. b \in Seq(Bytes) /\ m \in Seq(Bytes) /\ t \in Seq(Bytes)
    BY <1>1, <1>2
  <2>2. QED
    BY ONLY <2>1, ConcatAssociative
<1>8. a \o (l \o s) = b \o (m \o t)
  BY <1>4, <1>6, <1>7
<1>9. a = b /\ l \o s = m \o t
  <2> DEFINE u == l \o s
             v == m \o t
  <2>1. u \in Seq(Bytes) /\ v \in Seq(Bytes) /\ a \o u = b \o v
    BY <1>5, <1>8
  <2> HIDE DEF u, v
  <2>2. a = b /\ u = v
    BY <2>1, <1>2, SameLengthTellsApart
  <2>3. QED
    BY <2>2 DEF u, v
<1>10. QED
  BY <1>1, <1>3, <1>9, SameLengthTellsApart

(* A beginning and what follows it make up the whole. *)
LEMMA BeginningAndRest ==
    ASSUME NEW S, NEW s \in Seq(S), NEW n \in 0 .. Len(s)
    PROVE  /\ SubSeq(s, n + 1, Len(s)) \in Seq(S)
           /\ SubSeq(s, 1, n) \o SubSeq(s, n + 1, Len(s)) = s
<1>1. Len(s) \in Nat /\ n \in Nat /\ n <= Len(s)
  BY LenProperties
<1>2. Len(s) - n \in Nat /\ n + (Len(s) - n) = Len(s)
  BY <1>1
<1>3. SubSeq(s, 1, n) \o SubSeq(s, n + 1, n + (Len(s) - n)) = SubSeq(s, 1, n + (Len(s) - n))
  <2> DEFINE k == Len(s) - n
  <2>1. k \in Nat /\ n + k <= Len(s)
    BY <1>1, <1>2
  <2> HIDE DEF k
  <2>2. SubSeq(s, 1, n) \o SubSeq(s, n + 1, n + k) = SubSeq(s, 1, n + k)
    BY <1>1, <2>1, BeginningExtended
  <2>3. QED
    BY <2>2 DEF k
<1>4. SubSeq(s, 1, Len(s)) = s
  <2>1. /\ SubSeq(s, 1, Len(s)) \in Seq(S) /\ Len(SubSeq(s, 1, Len(s))) = Len(s)
    BY <1>1, PrefixType
  <2>2. \A i \in 1 .. Len(s) : SubSeq(s, 1, Len(s))[i] = s[i]
    BY <1>1, SubSeqProperties
  <2>3. QED
    BY <1>1, <2>1, <2>2, SeqEqual
<1>5. SubSeq(s, n + 1, Len(s)) \in Seq(S)
  BY <1>1, SuffixType
<1>6. QED
  BY <1>2, <1>3, <1>4, <1>5

LEMMA InvGivesSplit ==
    ASSUME IInv
    PROVE  SplitIsUnambiguous
<1> SUFFICES ASSUME NEW i \in Row, Kind[i] = "Sha256",
                    NEW l \in Labels, NEW n \in 0 .. Len(held[i]),
                    SubSeq(held[i], 1, n) = DomainPrefix(l)
             PROVE  l = label
  BY DEF SplitIsUnambiguous, Beginnings
<1>1. TypeOK /\ HeldIsTaken /\ label \in Labels
  BY DEF IInv, TypeOK
<1>2. /\ fed \in Seq(Bytes) /\ Taken(i) \in Seq(Bytes) /\ Seed(i) \in Seq(Bytes)
      /\ held[i] \in Seq(Bytes)
  BY <1>1, SeedType, TakenType DEF TypeOK
<1> DEFINE h == held[i]
           text == fed \o Taken(i)
           rest == SubSeq(h, n + 1, Len(h))
<1>3. h = Seed(i) \o text /\ text \in Seq(Bytes)
  <2>1. fed \o Taken(i) \in Seq(Bytes)
    BY <1>2, ConcatProperties
  <2>2. held[i] = (Seed(i) \o fed) \o Taken(i)
    BY <1>1 DEF HeldIsTaken
  <2>3. (Seed(i) \o fed) \o Taken(i) = Seed(i) \o (fed \o Taken(i))
    BY <1>2, ConcatAssociative
  <2>4. QED
    BY <2>1, <2>2, <2>3
<1>4. Seed(i) = DomainPrefix(label)
  BY DEF Seed
<1> HIDE DEF h, text
<1>5. h \in Seq(Bytes) /\ n \in 0 .. Len(h) /\ SubSeq(h, 1, n) = DomainPrefix(l)
  BY <1>2 DEF h
<1>6. rest \in Seq(Bytes) /\ SubSeq(h, 1, n) \o rest = h
  BY <1>5, BeginningAndRest
<1> HIDE DEF rest
<1>7. DomainPrefix(l) \o rest = DomainPrefix(label) \o text
  BY <1>3, <1>4, <1>5, <1>6
<1>8. QED
  BY ZenonT(30), <1>1, <1>3, <1>6, <1>7, LabelsTellApart

(* "The length prefix makes the split between label and text unambiguous": *)
(* whatever a hasher seeded for one label has been fed, at the end or      *)
(* before it, no other label's prefix begins it.                           *)
THEOREM SplitUnambiguous == SinkSpec => []SplitIsUnambiguous
<1>1. IInv => SplitIsUnambiguous
  BY InvGivesSplit
<1>2. QED
  BY <1>1, Invariant, PTL

=============================================================================
