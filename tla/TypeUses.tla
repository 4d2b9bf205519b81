----------------------------- MODULE TypeUses -----------------------------
(***************************************************************************)
(* The documents the C back end declares types for, and what C asks of the *)
(* order of those declarations: a type may be used by value only after its *)
(* definition, and through a pointer once it is at least forward declared. *)
(*                                                                         *)
(* Types are numbered from 0 as in the code: type i is document->types[i]. *)
(* A use is what fetch_dependencies finds at the end of a chain of unnamed *)
(* types: the named type reached, and whether the wrapper right around it  *)
(* is a pointer (every outer wrapper is forgotten).                        *)
(***************************************************************************)
EXTENDS Naturals, Sequences

CONSTANTS
    N,          \* document->type_count
    Documents   \* the documents handed to the back end

Types     == 0 .. N - 1
Positions == 0 .. N - 1

\* "struct" stands for struct and union, which are treated alike.
Kinds == {"struct", "enum", "opaque", "alias"}
Uses  == [by : {"value", "pointer"}, of : Types]

Document == [kind : [Types -> Kinds], uses : [Types -> Seq(Uses)]]

ASSUME NAssumption == N \in Nat
ASSUME DocumentsAssumption == Documents \subseteq Document

\* Aliases cannot be forward declared, so they are always depended on hard.
Weakness(d, use) ==
    IF use.by = "value" \/ d.kind[use.of] = "alias" THEN "hard" ELSE "weak"

\* The types used among the first n uses of t with the given weakness; that a
\* type uses itself does not count.
UsedUpTo(d, t, n, weakness) ==
    {u \in Types \ {t} : \E j \in 1 .. n :
        d.uses[t][j].of = u /\ Weakness(d, d.uses[t][j]) = weakness}

HardUses(d, t) == UsedUpTo(d, t, Len(d.uses[t]), "hard")
WeakUses(d, t) == UsedUpTo(d, t, Len(d.uses[t]), "weak") \ HardUses(d, t)

\* The order is a permutation of the types.
IsPermutation(order) ==
    /\ \A t \in Types : \E i \in Positions : order[i] = t
    /\ \A i, j \in Positions : order[i] = order[j] => i = j

\* The first n types of the order use by value only types placed before them.
OrderedUpTo(d, order, n) ==
    \A i \in Positions : i < n =>
        \A u \in HardUses(d, order[i]) : \E j \in Positions : j < i /\ order[j] = u

\* The types that one of the first n types of the order points to, and that the
\* order places after it.
PointedToEarly(d, order, n) ==
    {u \in Types : \E i, j \in Positions :
        i < n /\ i < j /\ order[j] = u /\ u \in WeakUses(d, order[i])}
=============================================================================
