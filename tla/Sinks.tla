------------------------------- MODULE Sinks --------------------------------
(***************************************************************************)
(* The sinks of src/sink.rs under one encoding, and what the entry points  *)
(* of src/lib.rs return of them.                                           *)
(*                                                                         *)
(* A pair, of pairs, is the row of the sinks it is made of: each write of  *)
(* the encoder reaches them from left to right and stops at the first that *)
(* fails.  A Vec takes a write whole or fails to grow; a hasher takes it,  *)
(* after what it was seeded with; an io::Write takes it in as many parts   *)
(* as it likes, and may fail after any of them.                            *)
(***************************************************************************)
EXTENDS Integers, Sequences

CONSTANTS
    Count, Kind,    \* the sinks of the row, and what each one is
    Bytes,          \* bytes, as numbers
    Writes,         \* what the encoder may write at once
    Labels,         \* labels of digest domains
    MaxText         \* bound of this model on the text, in bytes

ASSUME SinksAssumption ==
    /\ Count \in Nat
    /\ Kind \in [1 .. Count -> {"Vec", "Sha256", "WriteSink"}]
    /\ MaxText \in Nat
ASSUME BytesAssumption ==
    /\ Bytes \subseteq Nat
    /\ Writes \subseteq Seq(Bytes)
    /\ Labels \subseteq Seq(Bytes)
    /\ \A label \in Labels : Len(label) \in Bytes

VARIABLES
    label,      \* the label of sha256_with_domain
    fed,        \* the writes every sink has taken
    write,      \* the write under way, if any
    turn,       \* the sink it has reached
    part,       \* how much of it that sink has taken
    held,       \* what each sink holds
    result,     \* what encode returned
    returned    \* what the entry point returned of the sinks, if anything

sinkVars == <<label, fed, write, turn, part, held, result, returned>>

Row == 1 .. Count
NoSinks == {}

-----------------------------------------------------------------------------
(* The label's length, which has a fixed width, then the label. *)
DomainPrefixUnmeasured(l) == l
DomainPrefix(l) == <<Len(l)>> \o l

Seed(i) == IF Kind[i] = "Sha256" THEN DomainPrefix(label) ELSE <<>>

TypeOK ==
    /\ label \in Labels
    /\ fed \in Seq(Bytes) /\ write \in Seq(Bytes)
    /\ turn \in 1 .. Count + 1 /\ part \in 0 .. Len(write)
    /\ held \in [Row -> Seq(Bytes)]
    /\ result \in {"running", "Ok", "Sink", "Allocation", "refused"}
    /\ returned \subseteq [Row -> Seq(Bytes)]

Between == result = "running" /\ turn = Count + 1
AtSink(kind) == result = "running" /\ turn \in Row /\ Kind[turn] = kind

Take(bytes) == held' = [held EXCEPT ![turn] = @ \o bytes]

Reaches(i) ==
    /\ turn' = i
    /\ part' = 0

(* encode returns; to_vec, sha256 and sha256_with_domain return what their *)
(* sink holds only if it succeeded.                                        *)
ReturnedOnErrorToo(outcome) == {held}
ReturnedOf(outcome) == IF outcome = "Ok" THEN {held} ELSE NoSinks

EncodeReturns(outcome) ==
    /\ result' = outcome
    /\ returned' = ReturnedOf(outcome)
    /\ UNCHANGED <<label, fed, write, turn, part, held>>

-----------------------------------------------------------------------------
(* The encoder hands the row its next write, which begins at the left. *)
HandWrite(bytes) ==
    /\ Between
    /\ Len(fed) + Len(write) + Len(bytes) <= MaxText
    /\ fed' = fed \o write
    /\ write' = bytes
    /\ Reaches(1)
    /\ UNCHANGED <<label, held, result, returned>>

Update ==
    /\ AtSink("Sha256")
    /\ Take(write)
    /\ Reaches(turn + 1)
    /\ UNCHANGED <<label, fed, write, result, returned>>

TryExtend ==
    /\ AtSink("Vec")
    /\ \/ /\ Take(write)
          /\ Reaches(turn + 1)
          /\ UNCHANGED <<label, fed, write, result, returned>>
       \/ EncodeReturns("Allocation")

(* write_all: a write of the io::Write takes some of what is left. *)
LeftOverFromTheStart(n) == SubSeq(write, 1, n)
LeftOver(n) == SubSeq(write, part + 1, part + n)

WriteAll ==
    /\ AtSink("WriteSink")
    /\ \/ \E n \in 1 .. Len(write) - part :
            /\ Take(LeftOver(n))
            /\ turn' = turn /\ part' = part + n
            /\ UNCHANGED <<label, fed, write, result, returned>>
       \/ part < Len(write) /\ EncodeReturns("Sink")
       \/ /\ part = Len(write)
          /\ Reaches(turn + 1)
          /\ UNCHANGED <<label, fed, write, held, result, returned>>

-----------------------------------------------------------------------------
(* The encoding is done, or the encoder refuses the value. *)
EncodingDone == Between /\ EncodeReturns("Ok")
EncodingRefused == Between /\ EncodeReturns("refused")

SinkInit ==
    /\ label \in Labels
    /\ fed = <<>> /\ write = <<>> /\ turn = Count + 1 /\ part = 0
    /\ held = [i \in Row |-> Seed(i)]
    /\ result = "running" /\ returned = NoSinks

SinkNext ==
    \/ \E bytes \in Writes : HandWrite(bytes)
    \/ Update \/ TryExtend \/ WriteAll
    \/ EncodingDone \/ EncodingRefused

SinkSpec == SinkInit /\ [][SinkNext]_sinkVars

-----------------------------------------------------------------------------
(* What a sink holds, without what it was seeded with. *)
TextIn(i) == SubSeq(held[i], Len(Seed(i)) + 1, Len(held[i]))
IsStartOf(s, t) == Len(s) <= Len(t) /\ s = SubSeq(t, 1, Len(s))

(* Every sink of a row holds a beginning of the same text, whatever failed *)
(* and wherever: one further to the right never more than one to its left, *)
(* and no two further apart than the write under way.                      *)
RowInStep ==
    \A i, j \in Row : i <= j =>
        /\ IsStartOf(TextIn(j), TextIn(i))
        /\ IsStartOf(TextIn(i), fed \o write)
        /\ Len(TextIn(i)) <= Len(TextIn(j)) + Len(write)

(* "No bytes are returned on error", and no digest: what is returned was   *)
(* fed every write of the encoding, each one once.                         *)
OnlyTheWholeIsReturned ==
    returned # NoSinks =>
        /\ result = "Ok"
        /\ returned = {[i \in Row |-> Seed(i) \o fed \o write]}

(* "The length prefix makes the split between label and text unambiguous": *)
(* no other label and text would have fed a hasher what it was fed.        *)
Beginnings(s) == {SubSeq(s, 1, n) : n \in 0 .. Len(s)}
SplitIsUnambiguous ==
    \A i \in Row : Kind[i] = "Sha256" /\ result = "Ok" =>
        \A l \in Labels : \A s \in Beginnings(held[i]) :
            s = DomainPrefix(l) => l = label
=============================================================================
