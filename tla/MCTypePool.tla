----------------------------- MODULE MCTypePool -----------------------------
(***************************************************************************)
(* Three structural types over a struct and a named function type; eight   *)
(* kinds of pointers, with every combination of two of their flags.        *)
(***************************************************************************)
EXTENDS TypePrinting

CONSTANTS S, F, n2, n3, nul, p, q

MCNamedTypes == {S, F}
MCFunctionAliases == {F}
MCPointerIds ==
    SinglePointers \union
    {"const_ptr_to_many", "nullable_ptr_to_many",
     "ptr_to_sentinelled_many", "nullable_const_ptr_to_sentinelled_many"}
MCSentinels == {nul}
MCSizes == {n2, n3}
MCParameters == {p, q}
=============================================================================
