-------------------------- MODULE WriterRefinement --------------------------
(***************************************************************************)
(* The writer implements CanonicalWriter.  Its buffer and records stand    *)
(* for the texts that the abstract writer keeps: the text of a span is its *)
(* bytes with each object closed inside it replaced by its sorted text,    *)
(* and what the walk still has on its task stack is the part of the text   *)
(* that has not reached the sink.                                          *)
(***************************************************************************)
EXTENDS WriterSafety

(* The children that start inside a span, after its first byte. *)
Within(span, children) ==
    SelectSeq(children, LAMBDA c : span.start < ClosedAt(c).start
                                     /\ ClosedAt(c).start <= span.end)

(* The bytes of a span with each child c inside it replaced by texts[c]. *)
Expanded(span, children, texts) ==
    LET Upto(before, c) ==
            [text |-> before.text \o SubSeq(buffer, before.cursor + 1, ClosedAt(c).start)
                        \o texts[c],
             cursor |-> ClosedAt(c).end]
        all == FoldLeft(Upto, [text |-> <<>>, cursor |-> span.start],
                        Within(span, children))
    IN  all.text \o SubSeq(buffer, all.cursor + 1, span.end)

(* The rest of an object after its opening brace: `members` are sorted.    *)
Body(members, children, texts) ==
    Text!Joined([i \in DOMAIN members |-> Expanded(members[i], children, texts)])
        \o <<"}">>

(* The canonical text of every closed object, its opening brace left out.  *)
ClosedTexts ==
    LET texts[id \in 0 .. Len(closed) - 1] ==
            Body(OwnMembers(id), OwnChildren(id), texts)
    IN  texts

(* What one task will write. *)
TaskText(t) ==
    CASE t.task = "Bytes" -> SubSeq(buffer, t.start + 1, t.end)
      [] t.task = "Member" -> Expanded(t.span, OwnChildren(t.owner), ClosedTexts)
      [] t.task = "Body" ->
            LET members == OwnMembers(t.owner)
                rest == SubSeq(members, t.next + 1, Len(members))
            IN  (IF t.next > 0 /\ rest # <<>> THEN <<",">> ELSE <<>>)
                  \o Body(rest, OwnChildren(t.owner), ClosedTexts)

Unwritten == FoldLeft(LAMBDA after, t : TaskText(t) \o after, <<>>, tasks)

(* The k-th open object: its entries on the shared stacks end where those  *)
(* of the next one start.                                                  *)
FrameLevel(k) ==
    LET f == frames[k]
        innermost == k = Len(frames)
        lastMember == IF innermost THEN Len(open_members) ELSE frames[k + 1].members
        lastChild == IF innermost THEN Len(open_children) ELSE frames[k + 1].children
        end == IF innermost THEN Len(buffer) ELSE frames[k + 1].start
        children == SubSeq(open_children, f.children + 1, lastChild)
        TextOf(span) == Expanded(span, children, ClosedTexts)
    IN  [members |-> [i \in 1 .. lastMember - f.members |->
                         TextOf(open_members[f.members + i])],
         text |-> IF f.pending = NoOffset THEN <<>>
                  ELSE TextOf([start |-> f.pending, end |-> end])]

Levels ==
    IF refused THEN <<>>
    ELSE <<[members |-> <<>>, text |-> sink \o Unwritten]>>
           \o [k \in DOMAIN frames |-> FrameLevel(k)]

Canonical == INSTANCE CanonicalWriter
    WITH levels <- Levels, sent <- sink, stopped <- refused,
         accepted <- finished = "Ok"

(* Every step of the writer is a step of the abstract writer or changes    *)
(* nothing it can see: the sink receives exactly the text of the pushed    *)
(* value with every object sorted, in order, and nothing after a refusal.  *)
ImplementsCanonicalWriter == Canonical!Spec
=============================================================================
