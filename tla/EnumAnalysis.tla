---------------------------- MODULE EnumAnalysis ----------------------------
(***************************************************************************)
(* The analysis of one enumeration (src/analyzer.c: analyze_enum_type and  *)
(* the ValueRange helpers).                                                *)
(*                                                                         *)
(* Items get the value written after them, or the one after the previous   *)
(* item's.  Values live in a union of an unsigned and a signed word: the   *)
(* model keeps the word's bits and says how they are read.  Without a      *)
(* backing type the smallest integer type for the values is selected.      *)
(* The warning about a backing type without a known range is left out.     *)
(***************************************************************************)
EXTENDS IntegerRanges, Sequences

CONSTANT Enums      \* the enumerations to analyze

AsSigned(b) == IF b >= Half THEN b - Word ELSE b
AsBits(n)   == IF n < 0 THEN n + Word ELSE n
Read(b, isSigned) == IF isSigned THEN AsSigned(b) ELSE b

\* A value as the parser delivers it; "sint" is what follows a minus sign.
Literals == [form : {"none", "str"}]
    \union [form : {"sint"}, n : (1 - Half) .. 0]
    \union [form : {"uint"}, n : Bits]

\* The errors the analysis reports.
Codes == {"enum_type_must_be_int", "undeclared_identifier", "enum_empty", "duplicate_enum_item",
          "enum_value_illegal", "enum_out_of_range", "duplicate_enum_value"}

\* What stands in the parentheses after "enum", once it is resolved.
Backings == [is : {"absent", "unresolved", "other"}] \union [is : {"int"}, type : IntTypes]
\* An enumeration: the names (at least one for each item) and what is written
\* for the items.
Enum == [backing : Backings, names : Seq(STRING), items : Seq(Literals)]
ASSUME EnumsAssumption == /\ Enums \subseteq Enum
                          /\ \A e \in Enums : Len(e.items) <= Len(e.names)

VARIABLES
    enum,       \* the input; never changes
    phase,      \* "items", "select", then how the analysis ended
    ok,         \* whether it will succeed
    typed,      \* underlying_type is set from the start
    signed,     \* value_is_signed
    bits,       \* current_value
    low, high,  \* actual_range
    stored,     \* the items' bits
    reported,   \* the errors, each with the item it is about
    type        \* the enumeration's underlying_type, a sequence of at most one

vars == <<enum, phase, ok, typed, signed, bits, low, high, stored, reported, type>>

Init ==
    /\ enum \in Enums
    /\ phase = "begin"
    /\ ok = TRUE /\ typed = FALSE /\ signed = FALSE
    /\ bits = 0
    /\ low = Half - 1 /\ high = 0
    /\ stored = <<>> /\ reported = {} /\ type = <<>>

Report(code, at) == {[code |-> code, at |-> at]}

\* Items, by number; the one at hand, and what is written for it.
Ids    == 1 .. Len(enum.items)
Number == Len(stored) + 1
Item   == enum.items[Number]
Underlying == enum.backing.type

-----------------------------------------------------------------------------
ResolveBacking ==
    /\ phase = "begin"
    /\ typed' = (enum.backing.is = "int")
    /\ signed' = (enum.backing.is = "int" /\ Underlying.signed)
    /\ type' = IF enum.backing.is = "int" THEN <<Underlying>> ELSE <<>>
    /\ reported' = CASE enum.backing.is = "other"      -> Report("enum_type_must_be_int", 0)
                     [] enum.backing.is = "unresolved" -> Report("undeclared_identifier", 0)
                     [] OTHER -> {}
    /\ ok' = (enum.backing.is \in {"absent", "int"})
    /\ phase' = "items"
    /\ UNCHANGED <<enum, bits, low, high, stored>>

Empty ==
    /\ phase = "items" /\ enum.items = <<>>
    /\ reported' = reported \union Report("enum_empty", 0)
    /\ ok' = FALSE
    /\ phase' = "done"
    /\ UNCHANGED <<enum, typed, signed, bits, low, high, stored, type>>

\* A number the current signedness cannot take: the current value stays.
Rejected == \/ Item.form = "sint" /\ typed /\ ~signed
            \/ Item.form = "uint" /\ signed /\ Item.n > Half - 1

\* Mutated form: the reading is decided by the backing type alone.
SignedFromType == signed

SignedNow == signed \/ (Item.form = "sint" /\ ~typed)
BitsNow == IF Item.form \in {"sint", "uint"} /\ ~Rejected THEN AsBits(Item.n) ELSE bits

\* Mutated form: a rejected number is not reported.
OutOfRangeIfTaken ==
    /\ typed /\ Underlying.checked
    /\ ~InRange(Read(BitsNow, SignedNow), Underlying.min, Underlying.max)

OutOfRange ==
    IF Rejected THEN TRUE
    ELSE typed /\ Underlying.checked
         /\ ~InRange(Read(BitsNow, SignedNow), Underlying.min, Underlying.max)

DuplicateName == \E i \in 1 .. Len(stored) : enum.names[i] = enum.names[Number]

Duplicate == \E i \in 1 .. Len(stored) : stored[i] = BitsNow

\* insert_ival_into_range, insert_uval_into_range
InsertLow(value)  == IF value < low /\ (SignedNow \/ low > 0) THEN value ELSE low

\* Mutated form: the maximum follows the latest value.
InsertLatest(value) == IF value > 0 THEN value ELSE high

InsertHigh(value) == IF value > high THEN value ELSE high

\* The increment of a word: unsigned words wrap, the signed overflow is undefined
\* and either wraps or ends the program.
Overflows == SignedNow /\ AsSigned(BitsNow) = Half - 1

\* Mutated form: the word has room for one more.
SuccessorUnwrapped == BitsNow + 1

Successor == IF BitsNow = Word - 1 THEN 0 ELSE BitsNow + 1

AnalyzeItem ==
    /\ phase = "items" /\ Number <= Len(enum.items)
    /\ LET value == Read(BitsNow, SignedNow)
       IN  low' = InsertLow(value) /\ high' = InsertHigh(value)
    /\ stored' = Append(stored, BitsNow)
    /\ reported' = reported
         \union (IF DuplicateName THEN Report("duplicate_enum_item", Number) ELSE {})
         \union (IF Item.form = "str" THEN Report("enum_value_illegal", Number) ELSE {})
         \union (IF OutOfRange THEN Report("enum_out_of_range", Number) ELSE {})
         \union (IF Duplicate THEN Report("duplicate_enum_value", Number) ELSE {})
    /\ bits' = Successor
    /\ signed' = SignedNow
    /\ phase' \in IF Overflows THEN {"items", "undefined"} ELSE {"items"}
    /\ UNCHANGED <<enum, ok, typed, type>>

-----------------------------------------------------------------------------
\* The first type of the list that fits the range, the last one when none does.

\* Mutated form: the greatest value of a type is taken not to fit.
FitsBelow(k) == IF low < 0 THEN low >= -Halves[k] /\ high < Halves[k] - 1
                           ELSE high < 2 * Halves[k] - 1

Fits(k) == IF low < 0 THEN low >= -Halves[k] /\ high <= Halves[k] - 1
                      ELSE high <= 2 * Halves[k] - 1
FirstFit == CHOOSE k \in 1 .. 4 : (k = 4 \/ Fits(k)) /\ \A j \in 1 .. k - 1 : ~Fits(j)
Selected == IF low < 0 THEN Fixed(FirstFit, TRUE) ELSE Fixed(FirstFit, FALSE)

SelectType ==
    /\ phase = "items" /\ stored # <<>> /\ Number > Len(enum.items)
    /\ type' = IF typed THEN type ELSE <<Selected>>
    /\ phase' = "done"
    /\ UNCHANGED <<enum, ok, typed, signed, bits, low, high, stored, reported>>

Next == ResolveBacking \/ Empty \/ AnalyzeItem \/ SelectType

Spec == Init /\ [][Next]_vars

-----------------------------------------------------------------------------
(* Properties.                                                             *)

\* Type correctness.
TypeOK ==
    /\ enum \in Enums
    /\ phase \in {"begin", "items", "done", "undefined"}
    /\ ok \in BOOLEAN /\ typed \in BOOLEAN /\ signed \in BOOLEAN
    /\ bits \in Bits
    /\ low \in -Half .. Half - 1 /\ high \in Bits
    /\ stored \in Seq(Bits) /\ Len(stored) <= Len(enum.items)
    /\ reported \subseteq [code : Codes, at : 0 .. Len(enum.items)]
    /\ type \in Seq(IntTypes) /\ Len(type) <= 1

\* The values the source text means: the one written, or one more than before.
Meant ==
    LET f[i \in 0 .. Len(enum.items)] ==
            IF i = 0 THEN -1
            ELSE IF enum.items[i].form \in {"sint", "uint"} THEN enum.items[i].n
            ELSE f[i - 1] + 1
    IN  [i \in 1 .. Len(enum.items) |-> f[i]]

MeantIn(min, max) == \A i \in Ids : InRange(Meant[i], min, max)

\* A minus sign, even that of -0.
HasSign(i) == enum.items[i].form = "sint"

\* One reading of the word can express all values that are meant; a minus sign
\* asks for the signed one.
Expressible ==
    LET asSigned   == MeantIn(-Half, Half - 1)
        asUnsigned == MeantIn(0, Word - 1)
    IN  CASE enum.backing.is # "int" -> asSigned \/ (asUnsigned /\ \A i \in Ids : ~HasSign(i))
          [] Underlying.signed       -> asSigned
          [] OTHER                   -> asUnsigned

Analyzed == phase = "done" /\ enum.items # <<>>
ReportedAt(code, i) == [code |-> code, at |-> i] \in reported

\* An enumeration without errors is printed with the values its text means,
\* even when the items before the first negative one were stored unsigned.
PrintedAsMeant ==
    Analyzed /\ Expressible /\ reported = {} =>
        \A i \in Ids : Read(stored[i], type[1].signed) = Meant[i]

\* The selected type holds all values, no smaller type does, and it is signed
\* only when it must be.
SelectedTypeIsSmallest ==
    Analyzed /\ ~typed /\ Expressible /\ ~(\E i \in Ids : ReportedAt("enum_out_of_range", i)) =>
        /\ MeantIn(type[1].min, type[1].max)
        /\ type[1].signed = ~MeantIn(0, Word - 1)
        /\ \A k \in 1 .. 4 : LET other == Fixed(k, type[1].signed)
              IN  other.max < type[1].max => ~MeantIn(other.min, other.max)

\* Whatever was collected, no item is cut off when it is printed as the selected
\* type: the collected range covers all items, under both readings of the word.
NothingTruncated ==
    Analyzed /\ ~typed /\ (low < 0 => high < Half) =>
        \A i \in 1 .. Len(stored) :
            InRange(Read(stored[i], type[1].signed), type[1].min, type[1].max)

\* An item without a number of its own does not count beyond the word.
CountsInWord(i) ==
    enum.items[i].form \in {"none", "str"} =>
        IF Underlying.signed THEN InRange(Meant[i], -Half, Half - 1)
                             ELSE InRange(Meant[i], 0, Word - 1)

\* What item i means fits the backing type, which must have its sign.
FitsType(i) ==
    /\ InRange(Meant[i], Underlying.min, Underlying.max)
    /\ HasSign(i) => Underlying.signed

\* Up to the first misfit, an item is called out of range exactly when the value
\* it means does not fit the backing type, be it a number with a sign the type does
\* not have, one too large, or one that was counted up to.
OutOfRangeIsRight ==
    Analyzed /\ typed /\ Underlying.checked =>
        \A i \in Ids :
            (\A j \in 1 .. i - 1 : FitsType(j)) /\ CountsInWord(i)
            => (ReportedAt("enum_out_of_range", i) <=> ~FitsType(i))

\* Comparing bits finds exactly the items that mean the same value, although
\* signed and unsigned readings of the word mix.
DuplicatesAreRight ==
    Analyzed /\ Expressible /\ ~(\E i \in Ids : ReportedAt("enum_out_of_range", i)) =>
        \A i \in Ids : ReportedAt("duplicate_enum_value", i)
                          <=> \E j \in 1 .. i - 1 : Meant[j] = Meant[i]

\* An enumeration is called wrong exactly where it is.
ErrorsAreRight == OutOfRangeIsRight /\ DuplicatesAreRight

\* README: an enumeration is stored in an integer that can store all item
\* values and is selected automatically.
StoredInFittingInteger ==
    Analyzed /\ ~typed /\ reported = {} => MeantIn(type[1].min, type[1].max)
=============================================================================
