----------------------------- MODULE Serializer -----------------------------
(***************************************************************************)
(* The serde path of src/encoder.rs, driving the writer: a value's         *)
(* Serialize implementation makes calls, each call pushes events, and an   *)
(* error goes back through the implementations that are still running.     *)
(* `encode` of src/lib.rs starts it and finishes the writer.               *)
(*                                                                         *)
(* A value is the tree of serde calls it makes.  An implementation is      *)
(* handed the error of the element, key, field or value it serialized, and *)
(* a Display that of its write_str.  A derived implementation returns it;  *)
(* the types leave one free to go on instead, which is the manner of all   *)
(* of a value's implementations here.                                      *)
(*                                                                         *)
(* Some calls of this path reach the writer past `guard`, which is what    *)
(* refuses a call after a refusal and remembers one.                       *)
(***************************************************************************)
EXTENDS Writer

CONSTANTS
    SerdeValues,    \* for each manner, the values that may be encoded
    Quote           \* `"` around the text of a Display implementation

VARIABLES
    value,      \* what is encoded
    manner,     \* "returns" errors, "swallows" those of parts, "ignores" those of write_str
    calls,      \* the compound serializers in use, innermost last
    script,     \* what the running serde call still has to do
    sticks,     \* whether the writer is refused if its latest call fails
    failure,    \* the error being returned
    result      \* what encode returned

serde == <<value, manner, calls, script, sticks, failure, result>>
serdeVars == <<vars, serde>>

-----------------------------------------------------------------------------
(* Values.  A leaf is one call: the text it produces, and whether it is    *)
(* all of it (a number above 2^53 or a NaN has none).  A Display writes    *)
(* pieces, one to a write_str, and may fail after some; a piece is the     *)
(* slices that escape_fragment makes of it, each the bytes of a run or of  *)
(* an escape.  A compound value has parts, each an element, a key, a value *)
(* or a field.                                                             *)
Unnamed == "unnamed"
NotAString == "not a string"
Nothing == [node |-> "None"]
NoVariant == "none"

Leaf(guard, tokens, whole) ==
    [node |-> "Leaf", guarded |-> guard, text |-> tokens, whole |-> whole]
DisplayOf(pieces, whole) == [node |-> "Display", pieces |-> pieces, whole |-> whole]
Broken(error)        == [node |-> "Broken", error |-> error]
BytesOf(texts)       == [node |-> "Bytes", texts |-> texts]
ArrayOf(v, parts)    == [node |-> "Array", variant |-> v, parts |-> parts]
ObjectOf(v, parts)   == [node |-> "Object", variant |-> v, parts |-> parts]
NewtypeOf(v, part)   == [node |-> "Newtype", variant |-> v, parts |-> <<part>>]
Part(n, content)     == [name |-> n, value |-> content]
Element(content)     == Part(Unnamed, content)
Key(n)               == Part(n, Nothing)

(* What a serde call does: calls of the writer, then perhaps an error of   *)
(* its own or the serializer it returns for the parts.                     *)
LeafCall(v)     == [op |-> "leaf", leaf |-> v]
CollectStrCall(v)   == [op |-> "collect_str", display |-> v]
BeginArrayCall      == [op |-> "begin_array"]
EndArrayCall        == [op |-> "end_array"]
BeginObjectCall     == [op |-> "begin_object"]
EndObjectCall       == [op |-> "end_object"]
NameCall(n)     == [op |-> "name", name |-> n]
BeginWrapperCall(v) == [op |-> "begin_wrapper", variant |-> v]
EndWrapperCall      == [op |-> "end_wrapper"]
Fail(error)     == [op |-> "fail", error |-> error]
Enter(v)        == [op |-> "enter", value |-> v]

When(condition, steps) == IF condition THEN steps ELSE <<>>
Wrapped(v) == v.variant # NoVariant

Opening(v) ==
    CASE v.node = "Leaf"   -> <<LeafCall(v)>>
      [] v.node = "Display" -> <<CollectStrCall(v)>>
      [] v.node = "Broken" -> <<Fail(v.error)>>
      [] v.node = "Bytes"  ->
            <<BeginArrayCall>>
              \o [i \in DOMAIN v.texts |-> LeafCall(Leaf(TRUE, <<v.texts[i]>>, TRUE))]
              \o <<EndArrayCall>>
      [] OTHER ->
            When(Wrapped(v), <<BeginWrapperCall(v.variant)>>)
              \o When(v.node = "Array", <<BeginArrayCall>>)
              \o When(v.node = "Object", <<BeginObjectCall>>)
              \o <<Enter(v)>>

ClosingKeepsWrapper(v) ==
    When(v.node = "Array", <<EndArrayCall>>) \o When(v.node = "Object", <<EndObjectCall>>)
      \o When(v.node = "Newtype", <<EndWrapperCall>>)
Closing(v) ==
    When(v.node = "Array", <<EndArrayCall>>) \o When(v.node = "Object", <<EndObjectCall>>)
      \o When(Wrapped(v), <<EndWrapperCall>>)

(* An element, a key, a value or a field. *)
PartScript(p) ==
    When(p.name \in Names, <<NameCall(p.name)>>)
      \o When(p.name = NotAString, <<Fail("NonStringMemberName")>>)
      \o IF p.value = Nothing THEN <<>> ELSE Opening(p.value)

-----------------------------------------------------------------------------
(* Calls of the writer. *)

(* The calls that reach the writer past guard: serialize_u128, collect_str *)
(* and those of the wrappers.                                              *)
GuardedNever(c) == FALSE
Guarded(c) ==
    /\ c.op \notin {"collect_str", "begin_wrapper", "end_wrapper"}
    /\ c.op = "leaf" => c.leaf.guarded

LeafSteps(leaf) ==
    [i \in DOMAIN leaf.text |-> Produce(leaf.text[i])]
      \o <<IF leaf.whole THEN AfterValue ELSE NoText>>

WriteStr(slices) == [op |-> "write_str", slices |-> slices]
DisplayStepsUnquoted(d) ==
    <<Produce(Quote)>> \o [i \in DOMAIN d.pieces |-> WriteStr(d.pieces[i])]
      \o IF d.whole THEN <<AfterValue>> ELSE <<NoText>>
DisplaySteps(d) ==
    <<Produce(Quote)>> \o [i \in DOMAIN d.pieces |-> WriteStr(d.pieces[i])]
      \o IF d.whole THEN <<Produce(Quote), AfterValue>> ELSE <<NoText>>

EndWrapperEvent ==
    LET filled == Top("Wrapper") /\ Last(stack).filled
    IN  \/ filled /\ EndContainer(TRUE, "}")
        \/ /\ ~filled
           /\ Refuse("Internal")
           /\ UNCHANGED <<output, text, opened, records, walk, stack,
                          started, finished>>

Issue(c) ==
    CASE c.op = "leaf"          -> ValueEvent(LeafSteps(c.leaf))
      [] c.op = "collect_str"   -> ValueEvent(DisplaySteps(c.display))
      [] c.op = "begin_array"   -> ValueEvent(<<Produce("["), PushOpen(Array(TRUE))>>)
      [] c.op = "end_array"     -> EndContainer(Top("Array"), "]")
      [] c.op = "begin_object"  -> ValueEvent(<<Produce("{"), PushFrame>>)
      [] c.op = "end_object"    -> EndObjectEvent
      [] c.op = "name"          -> NameEvent(c.name)
      [] c.op = "begin_wrapper" ->
            ValueEvent(<<Produce("{"), PushOpen(Wrapper(FALSE)),
                           Produce(c.variant), Produce(":")>>)
      [] c.op = "end_wrapper"   -> EndWrapperEvent

Encoding == result = "running" /\ Idle
Failed == answer \in Errors
Working == Encoding /\ ~Failed /\ failure = "none"
CallsWriter == script # <<>> /\ Head(script).op \notin {"enter", "fail"}

IssueCall ==
    /\ Working /\ CallsWriter
    /\ ~(refused /\ Guarded(Head(script)))
    /\ Issue(Head(script))
    /\ script' = Tail(script)
    /\ sticks' = (refused \/ Guarded(Head(script)))
    /\ UNCHANGED <<value, manner, calls, failure, result>>

(* guard, once the writer has refused a call that went through it. *)
CallAfterRefusal ==
    /\ Working /\ CallsWriter
    /\ refused /\ Guarded(Head(script))
    /\ failure' = "AfterRefusal"
    /\ script' = <<>>
    /\ UNCHANGED <<vars, value, manner, calls, sticks, result>>

(* The writer's call returns an error, and `?` hands it on. *)
CallFailed ==
    /\ Encoding /\ Failed
    /\ refused' = sticks
    /\ failure' = answer
    /\ answer' = "none"
    /\ script' = <<>>
    /\ UNCHANGED <<output, text, opened, records, walk, todo, stack, started, finished,
                   value, manner, calls, sticks, result>>

(* write_str of collect_str's Escaper hands a piece on slice by slice.     *)
SliceDue == Head(Head(todo).slices)

NextSlice ==
    LET left == Tail(Head(todo).slices)
    IN  IF left = <<>> THEN Proceed ELSE Run(<<WriteStr(left)>> \o Tail(todo))

SliceTaken ==
    /\ At("write_str") /\ ~OverCeiling(Len(SliceDue))
    /\ produced' = produced + Len(SliceDue)
    /\ IF frames = <<>> THEN sink' = sink \o SliceDue /\ UNCHANGED buffer
       ELSE buffer' = buffer \o SliceDue /\ UNCHANGED sink
    /\ NextSlice
    /\ UNCHANGED <<frames, opened, records, walk, stack, started, finished, serde>>

(* A refused slice ends its piece.  Its error goes to the Display, and a   *)
(* Display that does not return it goes on with its next piece: the error  *)
(* stays behind in Escaper::failure.                                       *)
PieceRefusedSliceOnly(error) ==
    \/ Refuse(error)
    \/ manner = "ignores" /\ NextSlice
PieceRefused(error) ==
    \/ Refuse(error)
    \/ manner = "ignores" /\ Proceed

(* A sink may fail with a part of the slice taken, the buffer takes none.  *)
SliceRefused ==
    /\ At("write_str")
    /\ \/ /\ OverCeiling(Len(SliceDue))
          /\ PieceRefused("CanonicalBytes")
          /\ UNCHANGED output
       \/ /\ ~OverCeiling(Len(SliceDue))
          /\ produced' = produced + Len(SliceDue)
          /\ \/ /\ frames = <<>>
                /\ PieceRefused("Sink")
                /\ \E taken \in 0 .. Len(SliceDue) : sink' = sink \o SubSeq(SliceDue, 1, taken)
             \/ /\ frames # <<>>
                /\ PieceRefused("Allocation")
                /\ UNCHANGED sink
    /\ UNCHANGED <<text, opened, records, walk, stack, started, finished, serde>>

-----------------------------------------------------------------------------
(* The implementations. *)

(* An error without a call of the writer: a name that is not a string, a   *)
(* struct with a private name of serde_json, or the implementation's own.  *)
FailCall ==
    /\ Working /\ script # <<>> /\ Head(script).op = "fail"
    /\ failure' = Head(script).error
    /\ script' = <<>>
    /\ UNCHANGED <<vars, value, manner, calls, sticks, result>>

EnterCompound ==
    /\ Working /\ script # <<>> /\ Head(script).op = "enter"
    /\ calls' = Append(calls, [of |-> Head(script).value, left |-> Head(script).value.parts])
    /\ script' = Tail(script)
    /\ UNCHANGED <<vars, value, manner, sticks, failure, result>>

Innermost == Last(calls)
WithLeft(left) == Append(Front(calls), [Innermost EXCEPT !.left = left])

SerializePart ==
    /\ Working /\ script = <<>> /\ calls # <<>> /\ Innermost.left # <<>>
    /\ script' = PartScript(Head(Innermost.left))
    /\ calls' = WithLeft(Tail(Innermost.left))
    /\ UNCHANGED <<vars, value, manner, sticks, failure, result>>

End ==
    /\ Working /\ script = <<>> /\ calls # <<>> /\ Innermost.left = <<>>
    /\ script' = Closing(Innermost.of)
    /\ calls' = Front(calls)
    /\ UNCHANGED <<vars, value, manner, sticks, failure, result>>

Failing == Encoding /\ ~Failed /\ failure # "none"

ReturnError ==
    /\ Failing /\ calls # <<>>
    /\ calls' = Front(calls)
    /\ UNCHANGED <<vars, value, manner, script, sticks, failure, result>>

(* serialize_newtype_variant returns the error of its content itself.  The *)
(* value of a refused key may be left out with it.                         *)
Swallow ==
    /\ Failing /\ calls # <<>> /\ manner = "swallows" /\ Innermost.of.node # "Newtype"
    /\ failure' = "none"
    /\ \/ UNCHANGED calls
       \/ /\ Innermost.of.node = "Object" /\ Innermost.left # <<>>
          /\ Head(Innermost.left).name = Unnamed
          /\ calls' = WithLeft(Tail(Innermost.left))
    /\ UNCHANGED <<vars, value, manner, script, sticks, result>>

-----------------------------------------------------------------------------
(* encode: Writer::serialize, itself under guard, then finish. *)

EncodeFails ==
    /\ Failing /\ calls = <<>>
    /\ result' = failure
    /\ refused' = TRUE
    /\ UNCHANGED <<output, text, opened, records, walk, todo, answer, stack, started,
                   finished, value, manner, calls, script, sticks, failure>>

EncodeFinishes ==
    /\ Working /\ script = <<>> /\ calls = <<>>
    /\ Finish
    /\ result' = finished'
    /\ UNCHANGED <<value, manner, calls, script, sticks, failure>>

Begun ==
    /\ calls = <<>> /\ script = Opening(value)
    /\ sticks = FALSE /\ failure = "none" /\ result = "running"

SerdeInit ==
    /\ Init
    /\ manner \in DOMAIN SerdeValues /\ value \in SerdeValues[manner]
    /\ Begun

SerdeNext ==
    \/ RunEvent /\ UNCHANGED serde
    \/ SliceTaken \/ SliceRefused
    \/ IssueCall \/ CallAfterRefusal \/ CallFailed
    \/ FailCall \/ EnterCompound \/ SerializePart \/ End
    \/ ReturnError \/ Swallow
    \/ EncodeFails \/ EncodeFinishes

SerdeSpec == SerdeInit /\ [][SerdeNext]_serdeVars
=============================================================================
