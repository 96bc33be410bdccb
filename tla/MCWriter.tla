------------------------------ MODULE MCWriter ------------------------------
(* Small instances of the writer.  The names sort against their spelling,  *)
(* so that an order taken from the tokens would show.                      *)
EXTENDS WriterRefinement

MCRank == [n \in Names |-> IF n = "a" THEN 2 ELSE 1]

(* writer.rs, "What streams and what is buffered": "a top-level *object*   *)
(* is held whole until it closes, and the sink sees its first byte only    *)
(* then"; README.md and docs/encoding.md say the same.                     *)
TopLevelObjectHeldWhole ==
    stack # <<>> /\ stack[1] = Object => sink = <<>>
=============================================================================
