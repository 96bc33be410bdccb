------------------------------ MODULE MCTexts -------------------------------
(* Texts read, written and ordered, byte by byte: the scanner of           *)
(* src/read.rs, src/escape.rs and src/order.rs, three components, one of   *)
(* them, `subject`, in each behaviour.                                     *)
EXTENDS ScannerSafety

VARIABLES
    subject,        \* the component whose behaviour this is, "canonical" also the scanner
    source, bytes, index, run_start, slices, outcome,           \* of Escaping
    left_name, right_name, left, right, left_index, right_index, read, verdict  \* of NameOrder

-----------------------------------------------------------------------------
(* Strings of up to three pieces, whole or cut off by the end.             *)
Hexed(a, b, c, d) == <<92, 117, a, b, c, d>>
Pieces == {
    <<97>>, <<195, 169>>, <<240, 144, 128, 128>>, <<1>>,    \* a, e acute, U+10000, a control
    <<92, 110>>, <<92, 47>>, <<92, 120>>, <<92>>,           \* \n \/ \x and a lone backslash
    Hexed(48, 48, 52, 49),      \* 0041
    Hexed(68, 55, 102, 70),     \* D7fF, the last before the surrogates
    Hexed(100, 56, 48, 48),     \* d800
    Hexed(68, 66, 70, 70),      \* DBFF
    Hexed(100, 67, 48, 48),     \* dC00
    Hexed(68, 70, 70, 70),      \* DFFF
    Hexed(69, 48, 48, 48),      \* E000, the first after them
    <<92, 117, 100, 56>>,       \* cut off after two digits
    Hexed(48, 48, 103, 48)}     \* a digit that is none
Quoted(content) == <<Quote>> \o content \o <<Quote>>

Pairs == {p \o q : p, q \in Pieces}
Contents == {<<>>} \cup Pieces \cup Pairs \cup {p \o q : p \in Pairs, q \in Pieces}
MCStrings ==
    {Quoted(content) : content \in Contents}
      \cup {<<Quote>> \o content : content \in Pairs}
      \cup {Quoted(p) \o <<Comma>> \o Quoted(q) : p, q \in Pieces}

(* Numbers of up to five bytes, and literals. *)
Samples == {45, 48, 49, 46, 101, 69, 43, 44}
MCNumbers ==
    UNION {[1 .. n -> Samples] : n \in 0 .. 5}
      \cup {<<49, 101, 57, 57, 57>>, <<116, 114, 117, 101>>, <<116, 114, 117>>,
            <<110, 117, 108, 108, 120>>, <<102, 97, 108, 115, 101, 44, 49>>, <<120>>}
MCInfinite == {<<49, 101, 57, 57, 57>>}

(* Canonical strings, of the characters on both sides of every boundary.   *)
Characters == {0, 8, 31, 32, 34, 47, 92, 97, 127, 128, 233, 55295, 57344, 65535, 65536, 1114111}
MCCanonical == {Quoted(Escaped(Bytes(t))) : t \in UNION {[1 .. n -> Characters] : n \in 0 .. 3}}

MCInputs == MCStrings \cup MCNumbers

(* Texts to escape, of up to three characters, and names, of up to two.    *)
Escapable == {0, 8, 10, 31, 32, 34, 92, 97, 127, 128, 233, 55295, 65535, 65536}
Nameable == {0, 10, 31, 34, 92, 97, 127, 128, 2047, 2048, 55295, 57344, 65535, 65536, 1114111}
UpTo(n, S) == UNION {[1 .. k -> S] : k \in 0 .. n}

Canonical == INSTANCE Scanner WITH Inputs <- MCCanonical
Escape == INSTANCE Escaping WITH Texts <- UpTo(3, Escapable), text <- source
Order  == INSTANCE NameOrder WITH MemberNames <- UpTo(2, Nameable)

IdleScanner == INSTANCE Scanner WITH Inputs <- {Quoted(<<>>)}
IdleEscape == INSTANCE Escaping WITH Texts <- {<<>>}, text <- source
IdleOrder  == INSTANCE NameOrder WITH MemberNames <- {<<>>}

-----------------------------------------------------------------------------
escaping == <<source, bytes, index, run_start, slices, outcome>>
ordering == <<left_name, right_name, left, right, left_index, right_index, read, verdict>>

(* A component that is not the subject stays in one of its initial states. *)
MCInit ==
    /\ subject \in {"scanned", "canonical", "escaped", "ordered"}
    /\ CASE subject = "scanned"   -> Init
         [] subject = "canonical" -> Canonical!Init
         [] OTHER                 -> IdleScanner!Init
    /\ IF subject = "escaped" THEN Escape!Init ELSE IdleEscape!Init
    /\ IF subject = "ordered" THEN Order!Init ELSE IdleOrder!Init

MCNext ==
    /\ UNCHANGED subject
    /\ \/ subject \in {"scanned", "canonical"} /\ Next /\ UNCHANGED <<escaping, ordering>>
       \/ subject = "escaped" /\ Escape!Next /\ UNCHANGED <<vars, ordering>>
       \/ subject = "ordered" /\ Order!Next /\ UNCHANGED <<vars, escaping>>

MCSpec == MCInit /\ [][MCNext]_<<vars, escaping, ordering, subject>>

-----------------------------------------------------------------------------
(* escape.rs and read.rs together: a canonical string is read without      *)
(* refusal, as the text it stands for, which is encoded to it again.       *)
ReadsCanonicalText ==
    subject = "canonical" =>
        /\ answer.kind = "reading"
        /\ tokens # <<>> => /\ position = Len(input)
                            /\ input = Quoted(Escaped(text))

(* The properties of Escaping and NameOrder, stated there: the slices      *)
(* written spell the text and split no character; names come in the order  *)
(* of their UTF-16.                                                        *)
SlicesSpellTheText == Escape!SlicesSpellTheText
SlicesKeepCharacters == Escape!SlicesKeepCharacters
ComparesNames == Order!ComparesNames
=============================================================================
