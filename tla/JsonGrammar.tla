---------------------------- MODULE JsonGrammar ----------------------------
(***************************************************************************)
(* What the reader promises (src/read.rs, "What it accepts"): the grammar  *)
(* of JSON texts as productions, and a leftmost derivation that reads a    *)
(* text from left to right.  It ends in acceptance only when nothing is    *)
(* left to derive, and calls a token unexpected only when no derivation of *)
(* what was read goes on with it.                                          *)
(***************************************************************************)
EXTENDS Sequences

CONSTANTS
    Names, Scalars,
    Blanks,     \* white space
    Others      \* tokens of no text, and the end of the input

VARIABLES
    read,       \* the tokens read
    rest,       \* what is still to be derived
    verdict,    \* "reading", "accepted", "unexpected" or "stopped"
    culprit     \* the token called unexpected

vars == <<read, rest, verdict, culprit>>

Punctuation == {"{", "}", "[", "]", ",", ":"}
Symbols == {"value", "items", "more items", "members", "more members", "member"}
Productions(symbol) ==
    CASE symbol = "value" ->
            {<<s>> : s \in Scalars} \cup {<<"[", "items", "]">>, <<"{", "members", "}">>}
      [] symbol = "items"        -> {<<>>, <<"value", "more items">>}
      [] symbol = "more items"   -> {<<>>, <<",", "value", "more items">>}
      [] symbol = "members"      -> {<<>>, <<"member", "more members">>}
      [] symbol = "more members" -> {<<>>, <<",", "member", "more members">>}
      [] symbol = "member"       -> {<<n, ":", "value">> : n \in Names}

(* A leftmost step, unless a token comes first.                            *)
Expanded(symbols) ==
    IF symbols = <<>> \/ Head(symbols) \notin Symbols THEN {symbols}
    ELSE {body \o Tail(symbols) : body \in Productions(Head(symbols))}

(* Two steps bring a token to the front, since one always follows what may *)
(* be empty.  What may be left to derive after t.                          *)
Leftmost(symbols) == UNION {Expanded(s) : s \in Expanded(symbols)}
TokensFirst(symbols) == \A s \in Leftmost(symbols) : s = <<>> \/ Head(s) \notin Symbols
After(symbols, t) == {Tail(s) : s \in {s \in Leftmost(symbols) : s # <<>> /\ Head(s) = t}}

Init == read = <<>> /\ rest = <<"value">> /\ verdict = "reading" /\ culprit = "none"

Read(t) ==
    /\ verdict = "reading"
    /\ read' = Append(read, t)
    /\ rest' \in After(rest, t)
    /\ UNCHANGED <<verdict, culprit>>

(* White space may stand between any two tokens. *)
Skip(t) ==
    /\ verdict = "reading"
    /\ read' = Append(read, t)
    /\ UNCHANGED <<rest, verdict, culprit>>

Accept ==
    /\ verdict = "reading" /\ rest = <<>>
    /\ verdict' = "accepted"
    /\ UNCHANGED <<read, rest, culprit>>

(* No derivation goes on with the token; the end is one that none does.    *)
Unexpected(t) ==
    /\ verdict = "reading"
    /\ TokensFirst(rest) /\ After(rest, t) = {}
    /\ t = "end of input" => rest # <<>>
    /\ verdict' = "unexpected" /\ culprit' = t
    /\ UNCHANGED <<read, rest>>

(* A limit, memory, a number out of range, a duplicate name. *)
Stop ==
    /\ verdict = "reading"
    /\ verdict' = "stopped"
    /\ UNCHANGED <<read, rest, culprit>>

Next ==
    \/ \E t \in Punctuation \cup Scalars : Read(t)
    \/ \E t \in Blanks : Skip(t)
    \/ \E t \in Punctuation \cup Scalars \cup Others : Unexpected(t)
    \/ Accept \/ Stop

Spec == Init /\ [][Next]_vars
=============================================================================
