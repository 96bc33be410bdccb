------------------------------ MODULE Escaping ------------------------------
(***************************************************************************)
(* escape_fragment of src/escape.rs: one pass over a text's bytes that     *)
(* hands its caller the runs between escapes, and the escapes, as slices.  *)
(* The caller, which is the writer's produce, may refuse any of them.      *)
(*                                                                         *)
(* An operator that stands directly before another one of the same         *)
(* parameters and that nothing uses is a mutant of it.                     *)
(***************************************************************************)
EXTENDS EscapedText

CONSTANT Texts      \* sequences of code points

VARIABLES
    text, bytes,        \* the text, and its UTF-8
    index, run_start,   \* zero-based, as in the code
    slices,             \* what was written
    outcome

vars == <<text, bytes, index, run_start, slices, outcome>>

Run(until) == SubSeq(bytes, run_start + 1, until)
RunSlice(until) == IF run_start < until THEN <<Run(until)>> ELSE <<>>

(* The last slice of writes is refused. *)
Refused(writes) ==
    /\ writes # <<>>
    /\ slices' = slices \o Front(writes)
    /\ outcome' = "refused"
    /\ UNCHANGED <<text, bytes, index, run_start>>

PassOver ==
    /\ outcome = "writing" /\ index < Len(bytes)
    /\ ~NeedsEscape(bytes[index + 1])
    /\ index' = index + 1
    /\ UNCHANGED <<text, bytes, run_start, slices, outcome>>

NextRunAtEscape(at) == at
NextRun(at) == at + 1

WriteEscape ==
    /\ outcome = "writing" /\ index < Len(bytes)
    /\ NeedsEscape(bytes[index + 1])
    /\ LET writes == Append(RunSlice(index), EscapeOf(bytes[index + 1]))
       IN  \/ /\ slices' = slices \o writes
              /\ run_start' = NextRun(index)
              /\ index' = index + 1
              /\ UNCHANGED <<text, bytes, outcome>>
           \/ Refused(writes)
           \/ Refused(RunSlice(index))

WriteLastRun ==
    /\ outcome = "writing" /\ index = Len(bytes)
    /\ \/ /\ slices' = slices \o RunSlice(index)
          /\ outcome' = "written"
          /\ UNCHANGED <<text, bytes, index, run_start>>
       \/ Refused(RunSlice(index))

Init ==
    /\ text \in Texts /\ bytes = Bytes(text)
    /\ index = 0 /\ run_start = 0
    /\ slices = <<>> /\ outcome = "writing"

Next == PassOver \/ WriteEscape \/ WriteLastRun

Spec == Init /\ [][Next]_vars

-----------------------------------------------------------------------------
(* What is written, refused or not, is the escaped form of the beginning   *)
(* of the text, up to what is written next: no run is lost at an escape,   *)
(* at the end or between two escapes, and none is written twice.           *)
SlicesSpellTheText ==
    /\ outcome = "writing" => FlattenSeq(slices) = Escaped(SubSeq(bytes, 1, run_start))
    /\ outcome = "written" => FlattenSeq(slices) = Escaped(bytes)
    /\ IsPrefix(FlattenSeq(slices), Escaped(bytes))

(* escape.rs, "passing through unescaped runs as whole slices never splits *)
(* a character": every slice is some whole characters of the text, or one  *)
(* escape in ASCII.                                                        *)
SlicesKeepCharacters ==
    \A i \in DOMAIN slices :
        \/ \A k \in DOMAIN slices[i] : slices[i][k] < 128
        \/ \E m, n \in DOMAIN text : slices[i] = Bytes(SubSeq(text, m, n))
=============================================================================
