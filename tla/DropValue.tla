----------------------------- MODULE DropValue ------------------------------
(***************************************************************************)
(* drop_value of src/value.rs: a deep serde_json value is taken apart on a *)
(* heap stack, so that no node's destructor recurses into its children.    *)
(*                                                                         *)
(* The nodes of the value are 1 .. Count, each of a kind and below an      *)
(* earlier one; 1 is the value itself.                                     *)
(***************************************************************************)
EXTENDS Integers, Sequences, FiniteSets, SequencesExt, FiniteSetsExt

CONSTANT Count      \* how many nodes there are, at least one

Nodes == 1 .. Count

VARIABLES
    kind,       \* Array, Object or Scalar
    parent,     \* the node that a node is in, 0 for the value itself
    pending,    \* the heap stack
    dropped     \* the nodes dropped, in order

vars == <<kind, parent, pending, dropped>>
value == <<kind, parent>>

Children(n) == SetToSortSeq({m \in Nodes : parent[m] = n}, <)

IsValue ==
    /\ kind \in [Nodes -> {"Array", "Object", "Scalar"}]
    /\ parent \in [Nodes -> 0 .. Count]
    /\ parent[1] = 0
    /\ \A n \in Nodes \ {1} : parent[n] \in 1 .. n - 1 /\ kind[parent[n]] # "Scalar"

-----------------------------------------------------------------------------
(* What is moved out of a node before it is dropped. *)
MovedOutOfArrays(n) == IF kind[n] = "Array" THEN Children(n) ELSE <<>>
MovedOut(n) == IF kind[n] \in {"Array", "Object"} THEN Children(n) ELSE <<>>

Init ==
    /\ kind \in [Nodes -> {"Array", "Object", "Scalar"}]
    /\ parent \in {p \in [Nodes -> 0 .. Count] : p[1] = 0 /\ \A n \in Nodes \ {1} : p[n] \in 1 .. n - 1}
    /\ IsValue
    /\ pending = <<1>> /\ dropped = <<>>

PopAndDrop ==
    /\ pending # <<>>
    /\ pending' = Front(pending) \o MovedOut(Last(pending))
    /\ dropped' = Append(dropped, Last(pending))
    /\ UNCHANGED value

Next == PopAndDrop
Spec == Init /\ [][Next]_vars

-----------------------------------------------------------------------------
RECURSIVE Below(_)
Below(n) == {n} \cup UNION {Below(m) : m \in {k \in Nodes : parent[k] = n}}

(* No node is dropped twice, none while it still holds children, none is   *)
(* lost: those left are the pending ones and what is in them, each in one. *)
(* The heap stack never holds more nodes than the value had, and fewer     *)
(* with every node dropped.                                                *)
EveryNodeOnce ==
    /\ Cardinality(ToSet(dropped)) = Len(dropped)
    /\ \A i, j \in DOMAIN pending : i # j => Below(pending[i]) \cap Below(pending[j]) = {}
    /\ UNION {Below(n) : n \in ToSet(pending)} = Nodes \ ToSet(dropped)
    /\ Len(pending) + Len(dropped) <= Count
=============================================================================
