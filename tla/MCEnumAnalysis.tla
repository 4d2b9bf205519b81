--------------------------- MODULE MCEnumAnalysis ---------------------------
(***************************************************************************)
(* Small enumerations for EnumAnalysis: integers of 2, 3, 4 and 5 bits     *)
(* stand for those of 8, 16, 32 and 64.                                    *)
(***************************************************************************)
EXTENDS EnumAnalysis

MCHalves == <<2, 4, 8, 16>>

Plain(f)     == [form |-> f]
Literal(f, n) == [form |-> f, n |-> n]

\* Values on both sides of every limit.
MCLiterals == {Plain("none"), Plain("str")}
    \union {Literal("sint", n) : n \in {0, -1, -2, -3, -5, -9, -15}}
    \union {Literal("uint", n) : n \in {0, 1, 3, 4, 7, 8, 15, 16, 30, 31}}

\* c_char: the nonnegative values of i8.
CChar == [signed |-> FALSE, min |-> 0, max |-> 1, checked |-> TRUE]

MCBackings == {[is |-> b] : b \in {"absent", "unresolved", "other"}}
    \union {[is |-> "int", type |-> Fixed(k, s)] : k \in {1, 3, 4}, s \in BOOLEAN}
    \union {[is |-> "int", type |-> Platform(s)] : s \in BOOLEAN}
    \union {[is |-> "int", type |-> CChar]}

\* Three names for the items, then the first one again.
MCNames == {<<"a", "b", "c", "a">>}
ItemLists(literals, lengths) == UNION {[1 .. n -> literals] : n \in lengths}

MCEnums == [backing : MCBackings, names : MCNames,
            items : ItemLists(MCLiterals, 0 .. 3)
                    \union ItemLists({Plain("none"), Literal("sint", -1), Literal("uint", 0)}, {4})]
=============================================================================
