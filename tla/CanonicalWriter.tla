-------------------------- MODULE CanonicalWriter --------------------------
(***************************************************************************)
(* What the writer promises, with none of its bookkeeping: every open      *)
(* object keeps the texts of its finished members and the text of the one  *)
(* being written; closing it appends its members, sorted by name, to the   *)
(* text around it.  Outside all objects the text goes to the sink as it is *)
(* written.  A refusal may come at any time and is final.                  *)
(***************************************************************************)
EXTENDS Integers, Sequences, SequencesExt

CONSTANTS Names, Rank, Scalars

VARIABLES
    levels,     \* the text outside all objects, then one level per open object
    sent,       \* what the sink received
    stopped,    \* whether an event was refused
    accepted    \* whether finish accepted the text

vars == <<levels, sent, stopped, accepted>>

T == INSTANCE CanonicalText
Bytes == {"{", "}", "[", "]", ",", ":"} \cup Names \cup Scalars

Level(members, text) == [members |-> members, text |-> text]
Innermost == Last(levels)
Due == levels[1].text
Streaming == Len(levels) = 1
Working == ~stopped /\ ~accepted
WithText(level, text) == Level(level.members, level.text \o text)

(* One byte of the value.  Outside all objects the sink has everything     *)
(* before it, and receives it at once.                                     *)
Put(b) ==
    /\ Working
    /\ IF Streaming THEN sent = Due /\ sent' = Append(sent, b) ELSE UNCHANGED sent
    /\ levels' = Append(Front(levels), WithText(Innermost, <<b>>))
    /\ UNCHANGED <<stopped, accepted>>

OpenObject ==
    /\ Working
    /\ Innermost.text # <<>> /\ Last(Innermost.text) = "{"
    /\ levels' = Append(levels, Level(<<>>, <<>>))
    /\ UNCHANGED <<sent, stopped, accepted>>

EndMember ==
    /\ Working /\ ~Streaming
    /\ Len(Innermost.text) > 2 /\ Innermost.text[1] \in Names /\ Innermost.text[2] = ":"
    /\ levels' = Append(Front(levels),
                        Level(Append(Innermost.members, Innermost.text), <<>>))
    /\ UNCHANGED <<sent, stopped, accepted>>

CloseObject ==
    /\ Working /\ ~Streaming
    /\ Innermost.text = <<>>
    /\ \A i, j \in DOMAIN Innermost.members :
          i # j => Innermost.members[i][1] # Innermost.members[j][1]
    /\ LET around == Front(levels)
       IN  levels' = Append(Front(around),
                            WithText(Last(around), T!ObjectTail(Innermost.members)))
    /\ UNCHANGED <<sent, stopped, accepted>>

(* The text of a closed object reaches the sink in pieces. *)
Send ==
    /\ Working /\ Streaming
    /\ sent # Due
    /\ \E n \in Len(sent) + 1 .. Len(Due) : sent' = SubSeq(Due, 1, n)
    /\ UNCHANGED <<levels, stopped, accepted>>

(* What is refused stays where it is; the sink may hold a prefix. *)
Refuse ==
    /\ Working
    /\ stopped' = TRUE
    /\ levels' = <<>>
    /\ \/ UNCHANGED sent
       \/ Streaming /\ \E n \in Len(sent) + 1 .. Len(Due) : sent' = SubSeq(Due, 1, n)
    /\ UNCHANGED accepted

Accept ==
    /\ Working /\ Streaming
    /\ sent = Due /\ T!IsCanonical(Due)
    /\ accepted' = TRUE
    /\ UNCHANGED <<levels, sent, stopped>>

Init ==
    /\ levels = <<Level(<<>>, <<>>)>>
    /\ sent = <<>>
    /\ stopped = FALSE
    /\ accepted = FALSE

Next ==
    \/ \E b \in Bytes : Put(b)
    \/ OpenObject \/ EndMember \/ CloseObject
    \/ Send \/ Refuse \/ Accept

Spec == Init /\ [][Next]_vars
=============================================================================
