----------------------------- MODULE TreeTurns -----------------------------
(***************************************************************************)
(* What the encoders of a tree promise the writer: its protocol.           *)
(***************************************************************************)
EXTENDS TreeEncoder

(* An encoder never breaks the writer's protocol: whatever the tree and    *)
(* whatever fails, only a limit, memory, the sink or a number without a    *)
(* text refuse it, and what it finishes is complete.                       *)
NeverOutOfTurn ==
    /\ answer \in {"none", "running", "Ok", "CanonicalBytes", "ObjectBytes", "Unrepresentable",
                   "Source", "Sink", "Allocation"}
    /\ finished \in {"no", "Ok"}
=============================================================================
