----------------------------- MODULE TreeSafety -----------------------------
(***************************************************************************)
(* What the encoders of a tree promise: its canonical text, whole, from an *)
(* explicit stack of bounded size.                                         *)
(***************************************************************************)
EXTENDS TreeTurns

Text == INSTANCE CanonicalText

(* The canonical text of a tree all of whose leaves have one. *)
RECURSIVE TextOf(_)
TextOf(t) ==
    CASE t.node = "Leaf"  -> <<t.token>>
      [] t.node = "Array" ->
            <<"[">> \o Text!Joined([k \in DOMAIN t.items |-> TextOf(t.items[k])]) \o <<"]">>
      [] t.node = "Object" ->
            <<"{">> \o Text!ObjectTail([k \in DOMAIN t.members |->
                          <<t.members[k].name, ":">> \o TextOf(t.members[k].value)])

RECURSIVE NodeCount(_)
NodeCount(t) ==
    CASE t.node = "Array"  -> FoldSeq(LAMBDA c, n : n + NodeCount(c), 1, t.items)
      [] t.node = "Object" -> FoldSeq(LAMBDA m, n : n + NodeCount(m.value), 1, t.members)
      [] OTHER -> 1

(* What an encoding reports as a success is the canonical text of the tree *)
(* in the sink, whole and in order, whichever encoder wrote it.            *)
EncodesTheTree == finished # "no" => finished = "Ok" /\ sink = TextOf(tree)

(* The documentation of NodeRef's encoder: at most two entries per node of *)
(* the document.  That of Value's: one entry per open container, each      *)
(* standing for a `[` or `{` produced.                                     *)
StackBounded ==
    /\ encoder = "NodeRef" => Len(work) <= 2 * NodeCount(tree)
    /\ encoder = "Value" => /\ Len(work) <= Len(stack)
                            /\ Len(work) <= produced
=============================================================================
