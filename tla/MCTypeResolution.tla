-------------------------- MODULE MCTypeResolution --------------------------
(***************************************************************************)
(* Small families of programs for TypeResolution.                          *)
(***************************************************************************)
EXTENDS TypeResolution, FiniteSets

MCNames    == {"a", "b", "c", "u8", "gone"}
MCBuiltins == {"u8"}

Ref(n)      == [op |-> "named", name |-> n]
Anon(n)     == [op |-> "anonymous", node |-> n]
Op(o)       == [op |-> o]
Empty       == [fields |-> <<>>, flaw |-> "none"]
Holds(e)    == [fields |-> <<e>>, flaw |-> "none"]
D(k, n, b)  == [kind |-> k, name |-> n, body |-> b]

\* Three type declarations that refer to each other, to themselves, to a
\* builtin or to nothing at all, in every order, names clashing or not.
Targets == {<<Ref(n)>> : n \in MCNames}
    \union {<<Ref("a"), Ref("b")>>, <<Ref("b"), Ref("c")>>, <<Ref("c"), Ref("a")>>}

NameDecls == {D("unique", n, Empty) : n \in {"a", "b", "c", "u8"}}
    \union {D("alias", n, Holds(e)) : n \in {"a", "b", "c"}, e \in Targets}

\* Three declarations of every kind, with errors and nested anonymous types.
\* Declaration d may hold the anonymous type 10 + d, which holds 20 + d.
DeepNodes == {11, 12, 13, 21, 22, 23}
Inner(n) == [m \in DeepNodes |-> IF m < 20 THEN Holds(<<Anon(m + 10)>>)
                                  ELSE [fields |-> <<<<Ref(n)>>>>, flaw |-> "reported"]]

DeepExprs(d) == {<<Ref("b")>>, <<Ref("c")>>, <<Anon(10 + d), Ref("b")>>,
                 <<Ref("c"), Op("size")>>,
                 <<Op("duplicate"), Ref("c"), Op("params")>>}

DeepDecls(d, n) ==
    {D(k, n, Holds(e)) : k \in {"alias", "function"}, e \in DeepExprs(d)}
    \union {D(k, n, Holds(<<Anon(10 + d)>>)) : k \in {"variable", "constexpr"}}
    \union {D("constexpr", n, [fields |-> <<<<Ref("u8")>>>>, flaw |-> "reported"])}
    \union {D("unique", n, [fields |-> f, flaw |-> w]) :
              f \in {<<>>, <<<<Anon(10 + d)>>, <<Ref("c")>>>>}, w \in Flaws}

DeepPrograms == {[decls |-> <<x, y, z>>, nodes |-> Inner(n)] :
    x \in DeepDecls(1, "a"), y \in DeepDecls(2, "b"), z \in DeepDecls(3, "c"),
    n \in {"b", "gone"}}

NamePrograms == [decls : [1 .. 3 -> NameDecls], nodes : [DeepNodes -> {Empty}]]

MCPrograms == NamePrograms \union DeepPrograms
=============================================================================
