--------------------------- MODULE IntegerRanges ---------------------------
(***************************************************************************)
(* Words, integer types and their ranges (src/analyzer.c), as the analysis *)
(* of enumerations and of constants uses them.                             *)
(***************************************************************************)
EXTENDS Integers

CONSTANT Halves     \* Halves[k]: the number of nonnegative values of i8 .. i64

ASSUME HalvesAssumption ==
    /\ Halves \in [1 .. 4 -> Nat \ {0}]
    /\ \A k \in 1 .. 3 : Halves[k] < Halves[k + 1]

\* int64_t and uint64_t: half as many, and as many, values as a word has.
Half == Halves[4]
Word == 2 * Half
Bits == 0 .. Word - 1

\* Integer types, their ranges within a word: platform dependent ones have none to
\* check.
IntTypes ==
    {t \in [signed : BOOLEAN, min : Int, max : Int, checked : BOOLEAN] :
        IF t.signed THEN t.min >= -Half /\ t.max < Half ELSE t.min >= 0 /\ t.max < Word}
Fixed(k, isSigned) ==
    [signed |-> isSigned, checked |-> TRUE,
     min |-> IF isSigned THEN -Halves[k] ELSE 0,
     max |-> IF isSigned THEN Halves[k] - 1 ELSE 2 * Halves[k] - 1]
Platform(isSigned) == [signed |-> isSigned, min |-> 0, max |-> 0, checked |-> FALSE]

InRange(value, min, max) == value >= min /\ value <= max
=============================================================================
