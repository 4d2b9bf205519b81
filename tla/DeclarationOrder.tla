-------------------------- MODULE DeclarationOrder --------------------------
(***************************************************************************)
(* What the C back end's sorting pass promises the code that prints its    *)
(* result: in one step, some permutation of the document's types in which  *)
(* nothing is used by value before its definition, together with the types *)
(* that must be declared forward, neither more nor fewer.                  *)
(***************************************************************************)
EXTENDS TypeUses

VARIABLES
    doc,        \* the document, never changed
    order,      \* the order of definition
    forward,    \* the types to declare forward
    sorted      \* whether the result is published

Init ==
    /\ doc \in Documents
    /\ order = [i \in Positions |-> i]
    /\ forward = {}
    /\ sorted = FALSE

Publish ==
    /\ ~sorted
    /\ order' \in [Positions -> Types]
    /\ IsPermutation(order')
    /\ OrderedUpTo(doc, order', N)
    /\ forward' = PointedToEarly(doc, order', N)
    /\ sorted' = TRUE
    /\ UNCHANGED doc

Spec == Init /\ [][Publish]_<<doc, order, forward, sorted>>
=============================================================================
