------------------------------- MODULE MCTree -------------------------------
(* What src/value.rs, src/number.rs, src/sink.rs and the tree encoder of   *)
(* src/read.rs do: four components, one of them, `subject`, in each        *)
(* behaviour.                                                              *)
EXTENDS TreeSafety, Sinks

VARIABLES
    subject,                        \* the component whose behaviour this is
    asked, reply,                   \* of IntegerNumbers
    kind, parent, pending, dropped  \* of DropValue

Numbers == INSTANCE IntegerNumbers WITH Precision <- 4, Long <- 6, Wide <- 8, answer <- reply
Drops   == INSTANCE DropValue WITH Count <- 5

-----------------------------------------------------------------------------
(* All trees of two levels of containers with at most two children each.   *)
MCRank == [n \in Names |-> IF n = "a" THEN 2 ELSE 1]

UpToTwo(S) == {<<>>} \cup {<<x>> : x \in S} \cup {<<x, y>> : x, y \in S}
Distinct(pairs) == \A i, j \in DOMAIN pairs : pairs[i].name = pairs[j].name => i = j
Grow(trees) ==
    trees \cup {ArrayOf(items) : items \in UpToTwo(trees)}
      \cup {ObjectOf(pairs) : pairs \in
              {p \in UpToTwo({Pair(n, t) : n \in Names, t \in trees}) : Distinct(p)}}

MCDocuments == Grow(Grow({Leaf(s) : s \in Scalars}))
MCValues == MCDocuments \cup Grow({Leaf(s) : s \in Scalars} \cup {Textless})

(* A hasher between an io::Write and a Vec; labels and texts over the same *)
(* two bytes, so that one may be taken for the other.                      *)
MCKind == <<"WriteSink", "Sha256", "Vec">>
MCWrites == {<<1>>, <<2>>, <<1, 2>>, <<2, 2, 1>>}
MCLabels == {<<>>, <<1>>, <<1, 1>>, <<1, 2>>}

-----------------------------------------------------------------------------
numbers == <<asked, reply>>
drops   == <<kind, parent, pending, dropped>>
everything == <<allVars, sinkVars, numbers, drops, subject>>

(* A component that is not the subject stays in one of its initial states. *)
MCInit ==
    /\ subject \in {"trees", "sinks", "numbers", "drops"}
    /\ EncodeInit
    /\ subject # "trees" => encoder = "NodeRef" /\ tree = Leaf("0")
    /\ SinkInit
    /\ subject # "sinks" => label = <<>>
    /\ Numbers!Init
    /\ IF subject = "drops" THEN Drops!Init
       ELSE /\ kind = [n \in Drops!Nodes |-> "Array"]
            /\ parent = [n \in Drops!Nodes |-> n - 1]
            /\ pending = <<1>> /\ dropped = <<>>

MCNext ==
    /\ UNCHANGED subject
    /\ \/ subject = "trees" /\ EncodeNext /\ UNCHANGED <<sinkVars, numbers, drops>>
       \/ subject = "sinks" /\ SinkNext /\ UNCHANGED <<allVars, numbers, drops>>
       \/ subject = "numbers" /\ Numbers!Next /\ UNCHANGED <<allVars, sinkVars, drops>>
       \/ subject = "drops" /\ Drops!Next /\ UNCHANGED <<allVars, sinkVars, numbers>>

MCSpec == MCInit /\ [][MCNext]_everything

-----------------------------------------------------------------------------
(* The properties of IntegerNumbers and DropValue, stated there: no number *)
(* is rounded, and no node of a value is dropped twice, early or never.    *)
NothingIsRounded == Numbers!NothingIsRounded
EveryNodeOnce == Drops!EveryNodeOnce
=============================================================================
