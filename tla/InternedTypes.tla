--------------------------- MODULE InternedTypes ---------------------------
(***************************************************************************)
(* What apigen_intern_type promises (include/apigen.h): it takes a type    *)
(* "and returns a canonical version of it for which pointer equality is    *)
(* given".  A type gets an address when it is met for the first time, no   *)
(* other type gets that address, and the type is found there ever after.   *)
(***************************************************************************)
CONSTANTS
    Addresses,  \* where types can be stored
    None        \* no type, no address

VARIABLES
    address,    \* the address of each type met so far
    asked,      \* the type to be interned
    answer      \* its canonical version

Init ==
    /\ address = [t \in {} |-> None]
    /\ asked = None /\ answer = None

Ask ==
    /\ asked = None
    /\ asked' # None
    /\ UNCHANGED <<address, answer>>

Known == asked \in DOMAIN address

AnswerKnown ==
    /\ asked # None /\ Known
    /\ answer' = address[asked]
    /\ asked' = None
    /\ UNCHANGED address

AnswerNew(a) ==
    /\ asked # None /\ ~Known
    /\ \A t \in DOMAIN address : address[t] # a
    /\ address' = [t \in DOMAIN address \union {asked} |-> IF t = asked THEN a ELSE address[t]]
    /\ answer' = a
    /\ asked' = None

Next ==
    \/ Ask
    \/ AnswerKnown
    \/ \E a \in Addresses : AnswerNew(a)

Spec == Init /\ [][Next]_<<address, asked, answer>>
=============================================================================
