----------------------------- MODULE Constants -----------------------------
(***************************************************************************)
(* One "constexpr" from its text to the errors about it: the scanner's     *)
(* number tokens (src/parser/lexer.l), the conversion of their digits      *)
(* (src/base.c), and the check against the declared type (src/analyzer.c). *)
(*                                                                         *)
(* A digit is its class and its place in it: letter 0 is A or a.           *)
(***************************************************************************)
EXTENDS IntegerRanges, Sequences

CONSTANTS
    Texts,      \* the values as they are written
    Types       \* the declared types

Bases == {2, 10, 16}
CharClasses == {"digit", "upper", "lower", "underscore"}
Chars == [class : CharClasses, n : 0 .. 9]

\* The tokens: numbers with their digits behind sign and prefix; strings by length.
Numbers == [form : {"number"}, negative : BOOLEAN, base : Bases, digits : Seq(Chars)]
IsToken(t) ==
    \/ t.form = "null"
    \/ t.form = "str" /\ t.length \in Nat
    \/ /\ t \in Numbers /\ t.digits # <<>>
       /\ \A i \in DOMAIN t.digits : LET c == t.digits[i] IN
            /\ c.class = "digit" => c.n < t.base
            /\ c.class \in {"upper", "lower"} => t.base = 16 /\ c.n < 6

\* SIZE_MAX, the length of what is no string; AnyLength fits all of them.
NoLength  == -1
AnyLength == -2

\* Integers, none of them without 0; pointers to and arrays of characters with the
\* length they ask for; floats; other pointers, enumerations and aliases; and types
\* that no token is a value of: void, bool, anyopaque, structs, unions, functions.
Others == {"float", "pointer", "enum", "alias", "valueless"}
IsType(t) ==
    \/ t.is = "int" /\ t.range \in IntTypes /\ t.range.max >= 0
    \/ t.is = "chars" /\ t.length \in Nat \union {AnyLength}
    \/ t.is \in Others

ASSUME TextsAssumption == /\ \A t \in Texts : IsToken(t)
                          /\ \A t \in Types : IsType(t)

VARIABLES
    text, type,     \* the declaration; never changes
    phase,          \* "digits", "check", "done", "panic"
    at, val,        \* the digit at hand, and the value so far
    value,          \* the apigen_Value: its form, and its number if it has one
    reported        \* the diagnostics about the constant

vars == <<text, type, phase, at, val, value, reported>>

NoValue == [form |-> "none", n |-> 0]

Init ==
    /\ text \in Texts /\ type \in Types
    /\ phase = "digits"
    /\ at = 1 /\ val = 0
    /\ value = NoValue
    /\ reported = {}

-----------------------------------------------------------------------------
(* apigen_parse_uint, apigen_parse_sint                                    *)

Reading == phase = "digits" /\ text.form = "number"
Char == text.digits[at]

\* Mutated form: all letters are counted from 'F'.
DigitFromF(c) == IF c.class = "digit" THEN c.n ELSE 10 + c.n - 5

\* Lower-case letters are counted from 'F', which is 27 places before 'a'.
DigitValue(c) ==
    CASE c.class = "digit" -> c.n
      [] c.class = "upper" -> 10 + c.n
      [] c.class = "lower" -> 10 + c.n + 27

ReadDigit ==
    /\ Reading /\ at <= Len(text.digits) /\ Char.class # "underscore"
    /\ val' = (val * text.base + DigitValue(Char)) % Word
    /\ at' = at + 1
    /\ UNCHANGED <<text, type, phase, value, reported>>

AllRead == at > Len(text.digits)

\* An underscore, which the tokens allow, or a negative number without an int64_t.
Panic ==
    /\ Reading
    /\ IF AllRead THEN text.negative /\ val >= Half ELSE Char.class = "underscore"
    /\ phase' = "panic"
    /\ UNCHANGED <<text, type, at, val, value, reported>>

EndNumber ==
    /\ Reading /\ AllRead
    /\ \/ text.negative /\ val < Half /\ value' = [form |-> "sint", n |-> -val]
       \/ ~text.negative /\ value' = [form |-> "uint", n |-> val]
    /\ phase' = "check"
    /\ UNCHANGED <<text, type, at, val, reported>>

TakeOther ==
    /\ phase = "digits" /\ text.form # "number"
    /\ value' = [form |-> text.form, n |-> 0]
    /\ phase' = "check"
    /\ UNCHANGED <<text, type, at, val, reported>>

-----------------------------------------------------------------------------
(* Phase 8 of apigen_analyze.                                              *)

\* Mutated form: the value is cast to the sign of the lower limit.
UValueCast(n, range) ==
    InRange(IF n >= Half THEN n - Word ELSE n, range.min, range.max)

SValueInRange(n, range) == n >= range.min /\ (n < 0 \/ n <= range.max)
UValueInRange(n, range) == n <= range.max /\ (range.min < 0 \/ n >= range.min)

IntegerErrors(range) ==
    IF ~range.checked THEN {"constexpr_unchecked"}
    ELSE CASE value.form = "sint" ->
                IF SValueInRange(value.n, range) THEN {} ELSE {"constexpr_out_of_range"}
           [] value.form = "uint" ->
                IF UValueInRange(value.n, range) THEN {} ELSE {"constexpr_out_of_range"}
           [] OTHER -> {"constexpr_type_mismatch"}

LengthHint == IF value.form = "str" THEN text.length ELSE NoLength
IsStringly == type.is = "chars" /\ type.length \in {AnyLength, LengthHint}

\* No error is fatal: the constant stays in the document.
Check ==
    /\ phase = "check"
    /\ reported' = CASE type.is = "int" -> IntegerErrors(type.range)
                     [] IsStringly -> IF value.form = "str" THEN {}
                                      ELSE {"constexpr_type_mismatch"}
                     [] OTHER -> {"constexpr_illegal_type"}
    /\ phase' = "done"
    /\ UNCHANGED <<text, type, at, val, value>>

Next == ReadDigit \/ Panic \/ EndNumber \/ TakeOther \/ Check

Spec == Init /\ [][Next]_vars

-----------------------------------------------------------------------------
(* Properties.                                                             *)

\* The number the text means, in the usual notation: letters are digits from ten
\* on in either case, the last digit counts once, the one before it base times.
UsualDigit(c) == IF c.class = "digit" THEN c.n ELSE 10 + c.n
Magnitude ==
    LET f[i \in 0 .. Len(text.digits)] ==
            IF i = 0 THEN 0 ELSE f[i - 1] * text.base + UsualDigit(text.digits[i])
    IN  f[Len(text.digits)]
Meant == IF text.negative THEN -Magnitude ELSE Magnitude

\* Numbers the conversion knows how to read: those with lower-case letters are
\* read as other numbers, and those beyond a word wrap around.
Plain ==
    /\ \A i \in DOMAIN text.digits : text.digits[i].class \in {"digit", "upper"}
    /\ Magnitude < Word

\* A plain number is read as the one its text means, in the reading that goes
\* with its sign, or, when it is negative and too large, not at all.
NumberIsReadAsWritten ==
    text.form = "number" /\ Plain =>
        /\ val \in Bits
        /\ phase = "panic" => Meant <= -Half
        /\ phase \in {"check", "done"} =>
              value = [form |-> IF text.negative THEN "sint" ELSE "uint", n |-> Meant]

\* What a constant may be, where the documentation, the tests or the type itself
\* say so.
Fitting ==
    CASE type.is = "int"   -> text.form = "number" /\ InRange(Meant, type.range.min, type.range.max)
      [] type.is = "chars" -> text.form = "str" /\ type.length \in {AnyLength, text.length}
      [] type.is = "valueless" -> FALSE

\* What the property leaves open.  README.md:83 has a constant of type f32, which
\* the code rejects like every type but integers and characters; whether a constant
\* may be a null pointer, or have the type of an enumeration or an alias, nothing says.
Unsettled == type.is \in Others \ {"valueless"} \/ (type.is = "chars" /\ text.form = "null")

\* A constant is called wrong exactly when its text does not fit its type, with
\* signed and unsigned values against signed and unsigned limits, up to the last
\* value of each type, and with strings against the length of their type.  Platform
\* dependent integers are not checked, and said so.
ConstantErrorsAreRight ==
    phase = "done" /\ ~Unsettled /\ (text.form = "number" => Plain) =>
        IF type.is = "int" /\ ~type.range.checked THEN reported = {"constexpr_unchecked"}
        ELSE reported = {} <=> Fitting
=============================================================================
