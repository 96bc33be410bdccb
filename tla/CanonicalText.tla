--------------------------- MODULE CanonicalText ---------------------------
(***************************************************************************)
(* The canonical texts over the writer's tokens, as a grammar: what        *)
(* docs/encoding.md calls a canonical encoding, and the reference the      *)
(* texts of the writer are compared with.  No white space, and the names   *)
(* of an object strictly ascending.                                        *)
(***************************************************************************)
EXTENDS Integers, Sequences, SequencesExt

CONSTANTS Names, Rank, Scalars

(* The texts of `parts` with commas between them. *)
Joined(parts) ==
    FoldLeft(LAMBDA text, part : IF text = <<>> THEN part ELSE text \o <<",">> \o part,
             <<>>, parts)

(* An object of `members`, each a text that begins with its name, less the *)
(* opening brace.                                                          *)
ObjectTail(members) ==
    Joined(SortSeq(members, LAMBDA m, n : Rank[m[1]] < Rank[n[1]])) \o <<"}">>

(* Derives[<<"value", i, j>>]: t[i .. j] is a canonical value; likewise    *)
(* the elements of an array and the members of an object, one or more.     *)
IsCanonical(t) ==
    LET I == 1 .. Len(t)
        Derives[x \in {"value", "elements", "members"} \X (1 .. Len(t) + 1) \X (0 .. Len(t))] ==
            LET i == x[2]
                j == x[3]
                Is(what, from, to) == from <= to /\ Derives[<<what, from, to>>]
                Commas == {k \in i + 1 .. j - 1 : t[k] = ","}
                Member(to) == /\ t[i] \in Names /\ i + 2 <= to /\ t[i + 1] = ":"
                              /\ Is("value", i + 2, to)
            IN  CASE x[1] = "value" ->
                       \/ i = j /\ t[i] \in Scalars
                       \/ i < j /\ t[i] = "[" /\ t[j] = "]" /\
                             (i + 1 = j \/ Is("elements", i + 1, j - 1))
                       \/ i < j /\ t[i] = "{" /\ t[j] = "}" /\
                             (i + 1 = j \/ Is("members", i + 1, j - 1))
                  [] x[1] = "elements" ->
                       \/ Is("value", i, j)
                       \/ \E k \in Commas : Is("value", i, k - 1) /\ Is("elements", k + 1, j)
                  [] x[1] = "members" ->
                       \/ Member(j)
                       \/ \E k \in Commas :
                             /\ Member(k - 1)
                             /\ t[k + 1] \in Names /\ Rank[t[i]] < Rank[t[k + 1]]
                             /\ Is("members", k + 1, j)
    IN  t # <<>> /\ Derives[<<"value", 1, Len(t)>>]
=============================================================================
