------------------------------- MODULE Shapes -------------------------------
(***************************************************************************)
(* FixedShape of src/shape.rs and its derive: the DEPTH of a type, and the *)
(* serde path encoding the values of types that have one.                  *)
(*                                                                         *)
(* A type is a scalar, an option, a sequence or set, a map, a tuple, or a  *)
(* struct or enum of fields that are none, unnamed or named.  References,  *)
(* Box and Cow are the type they hold.  Its values are the trees of serde  *)
(* calls that serde's implementations and its derive make of them.         *)
(***************************************************************************)
EXTENDS SerializerSafety

CONSTANTS Types, Null, Text0       \* the types; the texts of null and of a scalar

VARIABLE type                      \* the type of what is encoded

NoShape      == [is |-> "none"]
ScalarType   == [is |-> "scalar"]
OptionOf(t)  == [is |-> "option", of |-> t]
ListOf(t)    == [is |-> "list", of |-> t]
MapOf(t)     == [is |-> "map", of |-> t]
Tuple(ts)    == [is |-> "tuple", all |-> ts]
Struct(f)    == [is |-> "struct", fields |-> f]
Enum(fs)     == [is |-> "enum", variants |-> fs]
UnitFields        == [style |-> "unit", of |-> <<>>]
UnnamedFields(ts) == [style |-> "unnamed", of |-> ts]
NamedFields(ts)   == [style |-> "named", of |-> ts]

-----------------------------------------------------------------------------
(* DEPTH. *)
Deepest(depths) ==
    IF depths = <<>> THEN 0
    ELSE CHOOSE d \in ToSet(depths) : \A e \in ToSet(depths) : e <= d

Nest(depths) == Deepest(depths) + 1

Transparent(f) == f.style = "unnamed" /\ Len(f.of) = 1

RECURSIVE Depth(_)
StructDepth(f) ==
    LET depths == [i \in DOMAIN f.of |-> Depth(f.of[i])]
    IN  IF f.style = "unit" THEN 0
        ELSE IF Transparent(f) THEN depths[1]
        ELSE Nest(depths)
VariantDepthUnwrapped(f) == StructDepth(f)
VariantDepth(f) == IF f.style = "unit" THEN 0 ELSE Nest(<<StructDepth(f)>>)
Depth(t) ==
    CASE t.is = "scalar" -> 0
      [] t.is = "option" -> Depth(t.of)
      [] t.is \in {"list", "map"} -> Nest(<<Depth(t.of)>>)
      [] t.is = "tuple"  -> Nest([i \in DOMAIN t.all |-> Depth(t.all[i])])
      [] t.is = "struct" -> StructDepth(t.fields)
      [] t.is = "enum"   -> Deepest([i \in DOMAIN t.variants |-> VariantDepth(t.variants[i])])

-----------------------------------------------------------------------------
(* Values, as serde's implementations and its derive serialize them.       *)
NullLeaf == Leaf(TRUE, <<Null>>, TRUE)
ScalarLeaf == Leaf(TRUE, <<Text0>>, TRUE)
Word(n)  == Leaf(TRUE, <<n>>, TRUE)

InEach(sets) == {s \in [DOMAIN sets -> UNION ToSet(sets)] : \A i \in DOMAIN sets : s[i] \in sets[i]}
Listed(s) == [i \in DOMAIN s |-> Element(s[i])]

(* Fields and variants are named in the order of their declaration. *)
NameAt(i) == CHOOSE n \in Names : Rank[n] = i
Named(s) == [i \in DOMAIN s |-> Part(NameAt(i), s[i])]

RECURSIVE ValuesOf(_)
ValuesOfAll(ts) == InEach([i \in DOMAIN ts |-> ValuesOf(ts[i])])
ValuesOfFields(v, f) ==
    CASE f.style = "unit"  -> {IF v = NoVariant THEN NullLeaf ELSE Word(v)}
      [] Transparent(f)    -> {IF v = NoVariant THEN x ELSE NewtypeOf(v, Element(x)) :
                                   x \in ValuesOf(f.of[1])}
      [] f.style = "named" -> {ObjectOf(v, Named(s)) : s \in ValuesOfAll(f.of)}
      [] OTHER             -> {ArrayOf(v, Listed(s)) : s \in ValuesOfAll(f.of)}
ValuesOf(t) ==
    CASE t.is = "scalar" -> {ScalarLeaf}
      [] t.is = "option" -> {NullLeaf} \cup ValuesOf(t.of)
      [] t.is = "list"   -> {ArrayOf(NoVariant, Listed(s)) :
                                s \in {<<>>} \cup {<<x, y>> : x, y \in ValuesOf(t.of)}}
      [] t.is = "map"    -> {ObjectOf(NoVariant, s) :
                                s \in {<<>>} \cup {<<Key(NameAt(1)), Element(x)>> : x \in ValuesOf(t.of)}}
      [] t.is = "tuple"  -> {ArrayOf(NoVariant, Listed(s)) : s \in ValuesOfAll(t.all)}
      [] t.is = "struct" -> ValuesOfFields(NoVariant, t.fields)
      [] t.is = "enum"   -> UNION {ValuesOfFields(NameAt(i), t.variants[i]) : i \in DOMAIN t.variants}

(* A value of one of the types, or one whose type has no fixed shape.      *)
ShapeInit ==
    \/ /\ type \in Types
       /\ Init
       /\ manner = "returns" /\ value \in ValuesOf(type)
       /\ Begun
    \/ type = NoShape /\ SerdeInit

ShapeNext == SerdeNext /\ UNCHANGED type
ShapeSpec == ShapeInit /\ [][ShapeNext]_<<serdeVars, type>>

-----------------------------------------------------------------------------
(* "A type whose canonical JSON nests to a depth fixed by the type         *)
(* itself": no value of a type ever makes the writer hold more open        *)
(* containers, nor the implementations recurse through more serializers,   *)
(* than the DEPTH computed without looking at any value.                   *)
DepthBounds ==
    type # NoShape => /\ Len(stack) <= Depth(type)
                      /\ Len(calls) <= Depth(type)
=============================================================================
