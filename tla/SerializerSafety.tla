-------------------------- MODULE SerializerSafety --------------------------
(***************************************************************************)
(* What the serde path promises of the values it encodes.                  *)
(***************************************************************************)
EXTENDS Serializer

Text == INSTANCE CanonicalText

IsKey(p) == p.name # Unnamed /\ p.value = Nothing

(* What in a value itself is a reason to refuse it. *)
DuplicateNames(parts) ==
    \E i, j \in DOMAIN parts :
        i # j /\ parts[i].name \in Names /\ parts[i].name = parts[j].name
OutOfOrder(parts) ==
    When(\E i \in DOMAIN parts : parts[i].name # Unnamed /\ i > 1 /\ IsKey(parts[i - 1]),
         <<"NameWithoutValue">>)
    \o When(\E i \in DOMAIN parts :
                parts[i].name = Unnamed /\ ~(i > 1 /\ IsKey(parts[i - 1])),
            <<"ValueWithoutName">>)
    \o When(parts # <<>> /\ IsKey(Last(parts)), <<"ObjectEndedAfterName">>)

RECURSIVE Causes(_)
Causes(v) ==
    CASE v.node = "None"   -> {}
      [] v.node \in {"Leaf", "Display"} -> IF v.whole THEN {} ELSE {"Unrepresentable"}
      [] v.node = "Broken" -> {v.error}
      [] v.node = "Bytes"  -> {}
      [] OTHER ->
            UNION {Causes(v.parts[i].value) : i \in DOMAIN v.parts}
              \cup IF v.node # "Object" THEN {}
                   ELSE ToSet(OutOfOrder(v.parts))
                          \cup ToSet(When(DuplicateNames(v.parts), <<"DuplicateMemberName">>))
                          \cup ToSet(When(\E i \in DOMAIN v.parts :
                                              v.parts[i].name = NotAString,
                                          <<"NonStringMemberName">>))
Encodable(v) == Causes(v) = {}

(* The canonical text of a value that has one. *)
RECURSIVE TextOf(_), MembersOf(_)
MembersOf(parts) ==
    IF parts = <<>> THEN <<>>
    ELSE IF IsKey(Head(parts))
      THEN <<<<parts[1].name, ":">> \o TextOf(parts[2].value)>> \o MembersOf(Tail(Tail(parts)))
      ELSE <<<<parts[1].name, ":">> \o TextOf(parts[1].value)>> \o MembersOf(Tail(parts))
TextOf(v) ==
    LET Inner ==
            CASE v.node = "Array"   ->
                   <<"[">> \o Text!Joined([i \in DOMAIN v.parts |-> TextOf(v.parts[i].value)])
                     \o <<"]">>
              [] v.node = "Object"  -> <<"{">> \o Text!ObjectTail(MembersOf(v.parts))
              [] v.node = "Newtype" -> TextOf(v.parts[1].value)
    IN  CASE v.node = "Leaf"  -> v.text
          [] v.node = "Display" ->
                <<Quote>> \o FlattenSeq(FlattenSeq(v.pieces)) \o <<Quote>>
          [] v.node = "Bytes" ->
                <<"[">> \o Text!Joined([i \in DOMAIN v.texts |-> <<v.texts[i]>>]) \o <<"]">>
          [] OTHER -> IF Wrapped(v) THEN <<"{", v.variant, ":">> \o Inner \o <<"}">> ELSE Inner

(* What implementations that go on after errors may have encoded: the      *)
(* value without some of its parts, or with the pieces of its Displays cut *)
(* short.                                                                  *)
CutShort(piece) ==
    LET bytes == FlattenSeq(piece)
    IN  {<<SubSeq(bytes, 1, n)>> : n \in 0 .. Len(bytes)}

RECURSIVE Remains(_), RemainsOfParts(_)
RemainsOfParts(parts) ==
    IF parts = <<>> THEN {<<>>}
    ELSE LET rest == RemainsOfParts(Tail(parts))
         IN  {r \in rest : manner = "swallows"}
               \cup {<<Part(Head(parts).name, v)>> \o r :
                        v \in Remains(Head(parts).value), r \in rest}
Remains(v) ==
    CASE v.node = "Display" /\ manner = "ignores" ->
            LET cuts == [i \in DOMAIN v.pieces |-> CutShort(v.pieces[i])]
            IN  {[v EXCEPT !.pieces = pieces] :
                    pieces \in {p \in [DOMAIN cuts -> UNION ToSet(cuts)] :
                                  \A i \in DOMAIN cuts : p[i] \in cuts[i]}}
      [] v.node = "Newtype" ->
            {[v EXCEPT !.parts = <<Part(Unnamed, c)>>] : c \in Remains(v.parts[1].value)}
      [] v.node \in {"Array", "Object"} ->
            {[v EXCEPT !.parts = parts] : parts \in RemainsOfParts(v.parts)}
      [] OTHER -> {v}

-----------------------------------------------------------------------------
(* error.rs, lines 5-8: "The encoder never returns a shortened or partial  *)
(* result as success".  What encode reports as a success is the canonical  *)
(* text of the whole value, in the sink and nothing else, whatever its     *)
(* implementations do about errors.                                        *)
SuccessIsWhole == result = "Ok" => Encodable(value) /\ sink = TextOf(value)

(* The same of values whose implementations return errors, whichever serde *)
(* calls they are made of and whatever fails.                              *)
EncodesTheValue == manner = "returns" => SuccessIsWhole

(* An encoding that no implementation interferes with is refused only for  *)
(* a limit, memory or the sink, or for what the value itself holds: a      *)
(* derived Serialize never breaks the writer's protocol, however variants, *)
(* arrays and objects nest, and never meets Error::Internal.               *)
RefusedForCause ==
    manner = "returns" =>
        result \in {"running", "Ok", "CanonicalBytes", "ObjectBytes", "Sink", "Allocation"}
                     \cup Causes(value)

(* Where implementations go on after errors, what a part lost does not     *)
(* show outside of it.  A success of those that swallow the errors of      *)
(* guarded calls is the canonical text of the value without some parts,    *)
(* each whole or absent.  One of Displays that ignore a refused write_str  *)
(* may be short of the end of any piece, cut inside an escape or character *)
(* too, but between the quotes only: quotes, commas, names and the order   *)
(* of the members are those of the canonical text.                         *)
DamageIsContained ==
    result = "Ok" => \E v \in Remains(value) : Encodable(v) /\ sink = TextOf(v)
=============================================================================
