------------------------------ MODULE Identity ------------------------------
(***************************************************************************)
(* The authority-qualified subject references of src/identity.rs: their    *)
(* components made one by one, references made of them, kept in an ordered *)
(* set and compared as objects.                                            *)
(*                                                                         *)
(* A component is the sequence of the texts it holds, <<>> while there is  *)
(* none; a reference is the seven texts of its five components in the      *)
(* order of their declaration, which derived comparisons go through.       *)
(***************************************************************************)
EXTENDS Integers, Sequences, FiniteSets, SequencesExt

CONSTANTS
    Texts, Order,   \* texts, and the order of their bytes, a number of each its own
    Empty,          \* the empty text
    Offered,        \* for each component, what it may be made of
    Deserializes,   \* whether components are read through serde as well
    MaxKept         \* bound of this model on the references kept

Components == <<"AuthorityIdentity", "Revision", "AuthorityDigest", "SubjectKind", "ObjectIdentity">>
Places == 1 .. 7        \* identity, namespace, value, domain, digest, kind, object
AuthorityPlaces == 1 .. 5
KindPlace == 6

VARIABLES
    parts,      \* the component of each kind that the program holds
    set,        \* the references it keeps in a BTreeSet, in iteration order
    arrived,    \* those it has inserted
    outcome     \* what the latest call returned

vars == <<parts, set, arrived, outcome>>

Unit == [is |-> "unit"]

-----------------------------------------------------------------------------
(* The constructors refuse an empty text, a revision its namespace first.  *)
(* An AuthorityDigest is made of a DigestDomain and of 32 digest bytes,    *)
(* which are never empty.                                                  *)
New(c, given) ==
    /\ given \in Offered[c]
    /\ IF \A i \in DOMAIN given : given[i] # Empty
         THEN parts' = [parts EXCEPT ![c] = given] /\ outcome' = Unit
         ELSE parts' = parts
              /\ \E i \in DOMAIN given :
                    /\ given[i] = Empty /\ \A j \in 1 .. i - 1 : given[j] # Empty
                    /\ outcome' = [is |-> "empty", of |-> c, place |-> i]
    /\ UNCHANGED <<set, arrived>>

(* #[derive(Deserialize)] fills the fields directly. *)
Deserialize(c, given) ==
    /\ Deserializes
    /\ given \in Offered[c]
    /\ parts' = [parts EXCEPT ![c] = given]
    /\ outcome' = Unit
    /\ UNCHANGED <<set, arrived>>

(* AuthorityQualifiedSubjectReference::new. *)
Complete == \A c \in ToSet(Components) : parts[c] # <<>>
ReferenceMade ==
    parts["AuthorityIdentity"] \o parts["Revision"] \o parts["AuthorityDigest"]
      \o parts["SubjectKind"] \o parts["ObjectIdentity"]

-----------------------------------------------------------------------------
(* The derived comparisons. *)
LessInAllButKind(a, b) ==
    \E i \in Places \ {KindPlace} :
        Order[a[i]] < Order[b[i]] /\ \A j \in (1 .. i - 1) \ {KindPlace} : a[j] = b[j]
Less(a, b) ==
    \E i \in Places : Order[a[i]] < Order[b[i]] /\ \A j \in 1 .. i - 1 : a[j] = b[j]

Same(a, b) == ~Less(a, b) /\ ~Less(b, a)

(* A BTreeSet keeps the first of those that compare equal. *)
InsertReference ==
    /\ Complete
    /\ Cardinality(arrived) < MaxKept
    /\ LET r == ReferenceMade
           before == Cardinality({k \in DOMAIN set : Less(set[k], r)})
       IN  /\ set' = IF \E k \in DOMAIN set : Same(set[k], r) THEN set
                     ELSE InsertAt(set, before + 1, r)
           /\ arrived' = arrived \cup {r}
    /\ outcome' = Unit
    /\ UNCHANGED parts

(* semantic_eq. *)
SameAuthorityButDigest(a, b) == \A i \in AuthorityPlaces \ {5} : a[i] = b[i]
SameAuthority(a, b) == \A i \in AuthorityPlaces : a[i] = b[i]
SemanticEq(a, b) ==
    IF ~SameAuthority(a, b) THEN "ForeignAuthority"
    ELSE IF a[KindPlace] # b[KindPlace] THEN "ForeignKind"
    ELSE IF a[7] = b[7] THEN "same" ELSE "different"

Compare ==
    \E a, b \in ToSet(set) :
        /\ outcome' = [is |-> "verdict", left |-> a, right |-> b, verdict |-> SemanticEq(a, b)]
        /\ UNCHANGED <<parts, set, arrived>>

Init ==
    /\ parts = [c \in ToSet(Components) |-> <<>>]
    /\ set = <<>> /\ arrived = {} /\ outcome = Unit

Next ==
    \/ \E c \in ToSet(Components) : \E given \in Offered[c] :
            New(c, given) \/ Deserialize(c, given)
    \/ InsertReference
    \/ Compare

Spec == Init /\ [][Next]_vars

-----------------------------------------------------------------------------
(* "Eq, Ord ... are componentwise over exactly these five members", for    *)
(* deterministic collections: no reference is lost to one that differs     *)
(* from it in any member, and those kept come in an order that does not    *)
(* depend on the one they arrived in.                                      *)
FirstDifference(a, b) == CHOOSE i \in Places : a[i] # b[i] /\ \A j \in 1 .. i - 1 : a[j] = b[j]
KeptByKey ==
    /\ ToSet(set) = arrived /\ Len(set) = Cardinality(arrived)
    /\ \A k \in 1 .. Len(set) - 1 :
            LET i == FirstDifference(set[k], set[k + 1])
            IN  Order[set[k][i]] < Order[set[k + 1][i]]

(* An object is compared only within one authority and kind: a Boolean     *)
(* answer means that both references agree on them, and is that of the     *)
(* whole keys; a refusal names what differs first, from either side.       *)
ComparedWithinAuthorityAndKind ==
    outcome.is = "verdict" =>
        LET a == outcome.left
            b == outcome.right
        IN  /\ outcome.verdict = "same" <=> a = b
            /\ outcome.verdict = "different" <=>
                 a # b /\ FirstDifference(a, b) = 7
            /\ outcome.verdict = "ForeignKind" <=>
                 a # b /\ FirstDifference(a, b) = 6
            /\ outcome.verdict = SemanticEq(b, a)

(* Both at once: what references are kept and compared by is all of them.  *)
ComparedByWholeKey == KeptByKey /\ ComparedWithinAuthorityAndKind

(* AuthorityQualifiedSubjectReference::new: "by the time a caller holds    *)
(* one of each", no component of a reference is missing or empty.          *)
NoComponentEmpty == \A r \in arrived : \A i \in Places : r[i] # Empty
=============================================================================
