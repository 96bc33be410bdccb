---------------------------- MODULE MCSerializer ----------------------------
(* What serde makes of values, src/encoder.rs, src/shape.rs and the types  *)
(* of src/identity.rs: three components, one of them, `subject`, in each   *)
(* behaviour.                                                              *)
EXTENDS Shapes, TLC

CONSTANT Subjects       \* the components to check

VARIABLES
    subject,                                    \* the component whose behaviour this is
    key, rest, pieces, bytes, length, named,    \* of MemberNames
    parts, set, arrived, verdict                \* of Identity

-----------------------------------------------------------------------------
(* Values of up to two levels of serde compounds with up to two parts.     *)
MCRank == [n \in Names |-> IF n = "a" THEN 2 ELSE 1]

Number   == Leaf(TRUE, <<"0">>, TRUE)
NotFinite == Leaf(TRUE, <<>>, FALSE)
Unsigned == Leaf(FALSE, <<"0">>, TRUE)      \* serialize_u128
TooWide  == Leaf(FALSE, <<>>, FALSE)
(* Two pieces: an escape and a run, then a character of four bytes.        *)
Newline  == <<"escape", "n">>
Clef     == <<"f0", "9d", "84", "9e">>
Display  == DisplayOf(<<<<Newline, <<"run">>>>, <<Clef>>>>, TRUE)
FailingDisplay == DisplayOf(<<<<<<"run">>>>>>, FALSE)
Private  == Broken("SerdeJsonPrivateToken")
Custom   == Broken("Serialize")

UpToTwo(S) == {<<>>} \cup {<<x>> : x \in S} \cup {<<x, y>> : x, y \in S}
Variants == {NoVariant, "a"}

Elements(S) == {Element(v) : v \in S}
Fields(S) == {Part(n, v) : n \in Names, v \in S}
Entries(S) == {<<Key(n), Element(v)>> : n \in Names \cup {NotAString}, v \in S}
Disorder == {<<Key("a")>>, <<Element(Number)>>, <<Key("b"), Key("a"), Element(Number)>>,
             <<Key("a"), Element(Number), Element(Number)>>}

Arrays(S) == {ArrayOf(v, elements) : v \in Variants, elements \in UpToTwo(Elements(S))}
Structs(S) == {ObjectOf(v, fields) : v \in Variants, fields \in UpToTwo(Fields(S))}
Maps(S) == {ObjectOf(NoVariant, FlattenSeq(entries)) : entries \in UpToTwo(Entries(S))}
Newtypes(S) == {NewtypeOf("b", Element(v)) : v \in S}
Compounds(S, T) == Arrays(S) \cup Newtypes(S) \cup Structs(T) \cup Maps(T)

Leaves == {Number, NotFinite, Unsigned, TooWide, Display, FailingDisplay, Private, Custom}
Inner == Compounds({Number}, {Number}) \cup Newtypes(Leaves)
           \cup {BytesOf(<<"0", "0">>)} \cup {ObjectOf(NoVariant, entries) : entries \in Disorder}
Outer(S) == Newtypes(S) \cup {ArrayOf(v, <<Element(x)>>) : v \in Variants, x \in S}
              \cup {ArrayOf(NoVariant, <<Element(x), Element(Number)>>) : x \in S}
              \cup {ObjectOf(v, <<Part("b", Number), Part("a", x)>>) : v \in Variants, x \in S}
AllValues == Leaves \cup Compounds(Leaves, {Number, NotFinite, Display}) \cup Outer(Inner)

(* Those whose calls all go through guard: no variants with content, no    *)
(* Display and no u128.                                                    *)
GuardedLeaves == {Number, NotFinite, Private, Custom}
Plain(S) == {v \in S : v.node # "Newtype" /\ ("variant" \in DOMAIN v => ~Wrapped(v))}
GuardedInner == Plain(Compounds({Number, Custom}, {Number, Custom}))
GuardedValues == Plain(Compounds(GuardedLeaves, GuardedLeaves) \cup Outer(GuardedInner)
                         \cup {ObjectOf(NoVariant, entries) : entries \in Disorder})

DisplayValues == {Display} \cup Compounds({Number, Display}, {Number, Display})

MCSerdeValues ==
    "returns" :> AllValues @@ "swallows" :> GuardedValues @@ "ignores" :> DisplayValues
Unguarded == "swallows" :> AllValues
Ignoring == "ignores" :> DisplayValues

(* Every constructor of types around scalars and around each other, with   *)
(* deep parts first, last and alone.                                       *)
FieldsOver(S) ==
    {UnitFields, UnnamedFields(<<>>), NamedFields(<<>>)}
      \cup {UnnamedFields(<<t>>) : t \in S} \cup {NamedFields(<<t>>) : t \in S}
      \cup {UnnamedFields(<<t, ScalarType>>) : t \in S} \cup {NamedFields(<<t, ScalarType>>) : t \in S}
Over(S) ==
    {OptionOf(t) : t \in S} \cup {ListOf(t) : t \in S} \cup {MapOf(t) : t \in S}
      \cup {Tuple(<<t>>) : t \in S} \cup {Tuple(<<t, ScalarType>>) : t \in S}
      \cup {Struct(f) : f \in FieldsOver(S)}
      \cup {Enum(<<f, UnitFields>>) : f \in FieldsOver(S)}
Level1 == Over({ScalarType})
MCTypes == {ScalarType} \cup Level1 \cup Over(Level1)

-----------------------------------------------------------------------------
(* Keys: every 8-bit integer, signed and unsigned, for which four bytes    *)
(* are just enough, as 40 are for the 128-bit ones.                        *)
KeyForms == INSTANCE MemberNames WITH Keys <- {}, Capacity <- 0, outcome <- named
PlainKeys == {KeyForms!Integer(n) : n \in -128 .. 255}
               \cup {KeyForms!Text("a"), KeyForms!Text("-1"), KeyForms!Other("bool"), KeyForms!Other("sequence")}
MCKeys == PlainKeys \cup {KeyForms!Newtype(k) : k \in PlainKeys}
            \cup {KeyForms!Newtype(KeyForms!Newtype(KeyForms!Integer(-128)))}

MemberNames == INSTANCE MemberNames WITH Keys <- MCKeys, Capacity <- 4, outcome <- named

(* Subjects: two values of four components; two of them may come out empty. *)
MCOffered ==
    "AuthorityIdentity" :> {<<"x">>}
      @@ "Revision" :> {<<"x", "">>, <<"x", "x">>}
      @@ "AuthorityDigest" :> {<<"x", "x">>, <<"x", "y">>}
      @@ "SubjectKind" :> {<<"x">>, <<"y">>}
      @@ "ObjectIdentity" :> {<<"">>, <<"x">>}

Identities == INSTANCE Identity WITH
    Texts <- {"", "x", "y"}, Order <- "" :> 0 @@ "x" :> 1 @@ "y" :> 2, Empty <- "",
    Offered <- MCOffered, Deserializes <- TRUE, MaxKept <- 3, outcome <- verdict

-----------------------------------------------------------------------------
values     == <<serdeVars, type>>
names      == <<key, rest, pieces, bytes, length, named>>
identities == <<parts, set, arrived, verdict>>

(* A component that is not the subject stays in one of its initial states. *)
MCInit ==
    /\ subject \in Subjects
    /\ IF subject = "values" THEN ShapeInit
       ELSE Init /\ type = NoShape /\ manner = "returns" /\ value = Number /\ Begun
    /\ MemberNames!Init
    /\ subject # "names" => key = KeyForms!Integer(0)
    /\ Identities!Init

MCNext ==
    /\ UNCHANGED subject
    /\ \/ subject = "values" /\ ShapeNext /\ UNCHANGED <<names, identities>>
       \/ subject = "names" /\ MemberNames!Next /\ UNCHANGED <<values, identities>>
       \/ subject = "identities" /\ Identities!Next /\ UNCHANGED <<values, names>>

MCSpec == MCInit /\ [][MCNext]_<<values, names, identities, subject>>

-----------------------------------------------------------------------------
(* The properties of MemberNames and Identity, stated there: integer keys  *)
(* are spelled whole; references are told apart by their whole key, and    *)
(* are made of components that are not empty.                              *)
NamesSpellKeys == MemberNames!NamesSpellKeys
ComparedByWholeKey == Identities!ComparedByWholeKey
NoComponentEmpty == Identities!NoComponentEmpty
=============================================================================
