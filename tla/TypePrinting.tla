---------------------------- MODULE TypePrinting ----------------------------
(***************************************************************************)
(* Types are interned by the analyzer and written down by the back ends:   *)
(* the pool (TypePool) together with the text of its types (TypeText).     *)
(***************************************************************************)
EXTENDS TypeText

\* A type is printed for what it is found to be in the pool.
Printed == IF unchecked = None /\ answer # None THEN {answer} ELSE {}

\* The C text of a variable, a field or a parameter declares what the API says,
\* for exactly the types that need no more than a prefix and a suffix.
CTextIsRightIfExpressible ==
    \A a \in Printed :
        /\ CTextDeclares(a, "x", FALSE) <=> Expressible[a]
        /\ ~Is(a, "function") => (CTextDeclares(a, "x", TRUE) <=> Expressible[a])

\* The Zig text loses nothing: every type is read back as it is.
ZigTextIsRight == \A a \in Printed : ZigReader[Len(cache) + 1][ZigText[a]] = Tree[a]

\* "non-nullable pointer to a single mutable `T`", "array of `N` consecutive `T`s",
\* for "arbitrary other types" T
CTextIsRight == \A a \in Printed : CTextDeclares(a, "x", FALSE)
=============================================================================
