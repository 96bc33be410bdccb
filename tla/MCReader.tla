------------------------------ MODULE MCReader ------------------------------
(* Small instances of the reader.  The names sort against their spelling.  *)
EXTENDS ReaderRefinement

MCRank == [n \in Names |-> IF n = "a" THEN 2 ELSE 1]
=============================================================================
