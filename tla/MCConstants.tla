---------------------------- MODULE MCConstants ----------------------------
(***************************************************************************)
(* Numbers of up to three digits on both sides of every limit, binary ones *)
(* of a full word and one digit more; integers of 4, 5, 6 and 8 bits stand *)
(* for those of 8, 16, 32 and 64.                                          *)
(***************************************************************************)
EXTENDS Constants

MCHalves == <<8, 16, 32, 128>>

Digit(n) == [class |-> "digit", n |-> n]
Upper(n) == [class |-> "upper", n |-> n]
Lower(n) == [class |-> "lower", n |-> n]
Underscore == [class |-> "underscore", n |-> 0]

DigitLists(chars, lengths) == UNION {[1 .. n -> chars] : n \in lengths}

MCTexts ==
    [form : {"number"}, negative : BOOLEAN, base : {2},
     digits : DigitLists({Digit(0), Digit(1)}, {1, 4, 8, 9}) \union DigitLists({Digit(1), Underscore}, {2})]
    \union
    [form : {"number"}, negative : BOOLEAN, base : {10},
     digits : DigitLists({Digit(n) : n \in {0, 1, 2, 5, 6, 7, 8}}, 1 .. 3)]
    \union
    [form : {"number"}, negative : BOOLEAN, base : {16},
     digits : DigitLists({Digit(0), Digit(1), Digit(7), Digit(8), Upper(0), Upper(5), Lower(0), Lower(5), Underscore}, 1 .. 3)]
    \union [form : {"str"}, length : 0 .. 2]
    \union {[form |-> "null"]}

Integer(range) == [is |-> "int", range |-> range]

\* c_char: the nonnegative values of i8.
MCTypes ==
    {Integer(Fixed(k, s)) : k \in 1 .. 4, s \in BOOLEAN}
    \union {Integer(Platform(FALSE)), Integer([signed |-> FALSE, min |-> 0, max |-> 7, checked |-> TRUE])}
    \union [is : {"chars"}, length : {AnyLength, 0, 2}]
    \union [is : Others]
=============================================================================
