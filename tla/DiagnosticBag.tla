--------------------------- MODULE DiagnosticBag ---------------------------
(***************************************************************************)
(* What the list of diagnostics (src/diag.c) promises the test runner      *)
(* (src/test-runner.c): it is a bag of codes.  An expected code takes one  *)
(* occurrence out of the bag, and is missing only when there is none.      *)
(***************************************************************************)
EXTENDS Naturals

CONSTANT Codes

VARIABLES
    present,    \* how often each code is in the bag
    missing     \* an expected code was not there

Init == present = [c \in Codes |-> 0] /\ missing = FALSE

Emit(code) ==
    /\ present' = [present EXCEPT ![code] = @ + 1]
    /\ UNCHANGED missing

Take(code) ==
    /\ present[code] > 0
    /\ present' = [present EXCEPT ![code] = @ - 1]
    /\ UNCHANGED missing

Miss(code) ==
    /\ present[code] = 0
    /\ missing' = TRUE
    /\ UNCHANGED present

Next == \E code \in Codes : Emit(code) \/ Take(code) \/ Miss(code)

Spec == Init /\ [][Next]_<<present, missing>>
=============================================================================
