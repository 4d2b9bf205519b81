--------------------------- MODULE ConstantsProofs ---------------------------
(***************************************************************************)
(* Proofs about Constants, for words of any width, numbers of any length   *)
(* and any types: plain numbers are read as they are written, and the      *)
(* check of a constant against its type is right.                          *)
(***************************************************************************)
EXTENDS Constants, WellFoundedInduction, TLAPS

\* What the first i digits mean; Magnitude is Prefix[Len(text.digits)].
Prefix ==
    LET f[i \in 0 .. Len(text.digits)] ==
            IF i = 0 THEN 0 ELSE f[i - 1] * text.base + UsualDigit(text.digits[i])
    IN  f

TypesAreRight ==
    /\ text \in Texts /\ type \in Types
    /\ phase \in {"digits", "check", "done", "panic"}
    /\ val \in Bits
    /\ text.form = "number" => at \in 1 .. Len(text.digits) + 1

\* While a plain number is read, val is what the digits before "at" mean.
ReadSoFar ==
    /\ phase = "digits" /\ text.form = "number" /\ Plain => val = Prefix[at - 1]
    /\ phase \in {"check", "done"} /\ text.form # "number" =>
          value = [form |-> text.form, n |-> 0]
    /\ phase \in {"check", "done"} /\ text.form = "number" =>
          value.form = IF text.negative THEN "sint" ELSE "uint"

IInv == TypesAreRight /\ ReadSoFar /\ NumberIsReadAsWritten /\ ConstantErrorsAreRight

-----------------------------------------------------------------------------
(* The number a text means.                                                *)

\* Induction over the natural numbers, for a set of them.
LEMMA Induction ==
    ASSUME NEW S, 0 \in S, \A n \in Nat : n \in S => n + 1 \in S
    PROVE  \A n \in Nat : n \in S
<1> SUFFICES ASSUME Nat \ S # {} PROVE FALSE
  OBVIOUS
<1> DEFINE Less == {ss \in Nat \X Nat : ss[1] < ss[2]}
<1>1. IsWellFoundedOn(Less, Nat)
  BY NatLessThanWellFounded DEF OpToRel
<1>2. PICK x \in Nat \ S : \A y \in Nat \ S : ~(<<y, x>> \in Less)
  <2>1. Nat \ S \subseteq Nat
    OBVIOUS
  <2> QED
    BY <1>1, <2>1, WFMin
<1>3. \A y \in Nat \ S : ~(y < x)
  BY <1>2
<1>4. x # 0 /\ x - 1 \in Nat
  BY <1>2
<1>5. x - 1 \in S
  BY <1>3, <1>4
<1> QED
  BY <1>2, <1>4, <1>5

\* The constants of a word.
LEMMA Widths == Half \in Nat \ {0} /\ Word \in Nat \ {0} /\ Word = 2 * Half /\ Bits = 0 .. Word - 1
<1>1. Half \in Nat \ {0}
  BY HalvesAssumption DEF Half
<1> QED
  BY <1>1 DEF Word, Bits

\* What the scanner says of a number.
LEMMA NumberTokens ==
    ASSUME text \in Texts, text.form = "number"
    PROVE  /\ text.base \in {2, 10, 16} /\ text.negative \in BOOLEAN
           /\ Len(text.digits) \in Nat /\ text.digits \in Seq(Chars)
           /\ \A i \in 1 .. Len(text.digits) :
                 /\ text.digits[i] \in Chars
                 /\ UsualDigit(text.digits[i]) \in Nat
                 /\ text.digits[i].class \in {"digit", "upper"} =>
                       DigitValue(text.digits[i]) = UsualDigit(text.digits[i])
<1>1. text \in Numbers
  BY TextsAssumption DEF IsToken
<1>2. text.base \in {2, 10, 16} /\ text.negative \in BOOLEAN /\ text.digits \in Seq(Chars)
  BY <1>1 DEF Numbers, Bases
<1>3. ASSUME NEW c \in Chars
      PROVE  /\ UsualDigit(c) \in Nat
             /\ c.class \in {"digit", "upper"} => DigitValue(c) = UsualDigit(c)
  BY DEF Chars, UsualDigit, DigitValue
<1> QED
  BY <1>2, <1>3

\* A digit multiplies what was read before, which therefore never gets less.
LEMMA Shifted ==
    ASSUME NEW n \in Nat, NEW base \in {2, 10, 16}, NEW d \in Nat
    PROVE  n * base + d \in Nat /\ n <= n * base + d
<1>1. CASE base = 2
  BY <1>1
<1>2. CASE base = 10
  BY <1>2
<1>3. CASE base = 16
  BY <1>3
<1> QED
  BY <1>1, <1>2, <1>3

\* The prefixes of a number: each is the one before it, shifted, and a digit.
LEMMA PrefixEquation ==
    ASSUME text \in Texts, text.form = "number"
    PROVE  /\ Prefix = [i \in 0 .. Len(text.digits) |->
                          IF i = 0 THEN 0 ELSE Prefix[i - 1] * text.base + UsualDigit(text.digits[i])]
           /\ Magnitude = Prefix[Len(text.digits)]
<1> DEFINE k == Len(text.digits)
           Value(f, i) == IF i = 0 THEN 0 ELSE f[i - 1] * text.base + UsualDigit(text.digits[i])
           Reads(f, n) == \A i \in 0 .. k : i <= n => f[i] = Value(f, i)
           S == {n \in Nat : \E f : f = [i \in 0 .. k |-> f[i]] /\ Reads(f, n)}
<1>0. k \in Nat
  BY NumberTokens
<1>1. 0 \in S
  <2> DEFINE f == [i \in 0 .. k |-> 0]
  <2>1. f = [i \in 0 .. k |-> f[i]]
    OBVIOUS
  <2>2. Reads(f, 0)
    BY <1>0
  <2> HIDE DEF f, Reads
  <2> QED
    BY <2>1, <2>2
<1>2. ASSUME NEW n \in Nat, n \in S PROVE n + 1 \in S
  <2>1. PICK f : f = [i \in 0 .. k |-> f[i]] /\ Reads(f, n)
    BY <1>2
  <2> DEFINE g == [i \in 0 .. k |-> Value(f, i)]
  <2>2. g = [i \in 0 .. k |-> g[i]]
    OBVIOUS
  <2>3. \A i \in 0 .. k : i <= n => f[i] = g[i]
    BY <2>1
  <2>4. Reads(g, n + 1)
    <3> SUFFICES ASSUME NEW i \in 0 .. k, i <= n + 1 PROVE g[i] = Value(g, i)
      OBVIOUS
    <3>1. CASE i = 0
      BY <3>1
    <3>2. CASE i # 0
      <4>1. i - 1 \in 0 .. k /\ i - 1 <= n
        BY <1>0, <3>2
      <4>2. f[i - 1] = g[i - 1]
        BY <2>3, <4>1
      <4>3. g[i] = f[i - 1] * text.base + UsualDigit(text.digits[i])
        BY <3>2
      <4> HIDE DEF g
      <4> QED
        BY <3>2, <4>2, <4>3
    <3> QED
      BY <3>1, <3>2
  <2> HIDE DEF g, Reads
  <2> QED
    BY <2>2, <2>4
<1>3. k \in S
  <2> HIDE DEF S
  <2> QED
    BY <1>0, <1>1, <1>2, Induction
<1>4. PICK f : f = [i \in 0 .. k |-> f[i]] /\ Reads(f, k)
  BY <1>3
<1>5. f = [i \in 0 .. k |-> Value(f, i)]
  BY <1>0, <1>4
<1>6. Prefix = [i \in 0 .. k |-> Value(Prefix, i)]
  BY <1>5 DEF Prefix
<1>7. Magnitude = Prefix[k]
  BY DEF Magnitude, Prefix
<1> QED
  BY <1>6, <1>7

\* One prefix from the one before it.
LEMMA NextPrefix ==
    ASSUME text \in Texts, text.form = "number", NEW i \in 1 .. Len(text.digits)
    PROVE  /\ Prefix[0] = 0
           /\ Prefix[i] = Prefix[i - 1] * text.base + UsualDigit(text.digits[i])
<1> DEFINE k == Len(text.digits)
<1>1. k \in Nat /\ 0 \in 0 .. k /\ i \in 0 .. k /\ i # 0
  BY NumberTokens
<1>2. Prefix = [j \in 0 .. k |->
                   IF j = 0 THEN 0 ELSE Prefix[j - 1] * text.base + UsualDigit(text.digits[j])]
  BY PrefixEquation
<1> QED
  BY <1>1, <1>2

\* Prefixes are numbers that grow with their length.
LEMMA PrefixesGrow ==
    ASSUME text \in Texts, text.form = "number"
    PROVE  /\ Prefix[0] = 0
           /\ \A i \in 0 .. Len(text.digits) : Prefix[i] \in Nat /\ Prefix[i] <= Magnitude
<1> DEFINE k == Len(text.digits)
           S == {n \in Nat : n <= k => Prefix[n] \in Nat}
           Below(j) == Prefix[j] <= Magnitude
           T == {n \in Nat : n <= k => Below(k - n)}
<1>0. k \in Nat /\ text.base \in {2, 10, 16} /\ \A i \in 1 .. k : UsualDigit(text.digits[i]) \in Nat
  BY NumberTokens
<1>1. Prefix[0] = 0
  <2>1. 0 \in 0 .. k
    BY <1>0
  <2> QED
    BY <2>1, PrefixEquation
<1>2. ASSUME NEW n \in Nat, n + 1 <= k, Prefix[n] \in Nat
      PROVE  Prefix[n + 1] \in Nat /\ Prefix[n] <= Prefix[n + 1]
  <2>1. n + 1 \in 1 .. k /\ (n + 1) - 1 = n
    BY <1>0, <1>2
  <2>2. Prefix[n + 1] = Prefix[n] * text.base + UsualDigit(text.digits[n + 1])
    BY <2>1, NextPrefix
  <2>3. UsualDigit(text.digits[n + 1]) \in Nat
    BY <1>0, <2>1
  <2> QED
    BY <1>0, <1>2, <2>2, <2>3, Shifted
<1>3. \A n \in Nat : n \in S
  <2>1. 0 \in S
    BY <1>1
  <2>2. ASSUME NEW n \in Nat, n \in S PROVE n + 1 \in S
    BY <1>0, <1>2, <2>2
  <2> HIDE DEF S
  <2> QED
    BY <2>1, <2>2, Induction
<1>4. \A n \in 0 .. k : Prefix[n] \in Nat
  BY <1>0, <1>3
<1>5. Magnitude = Prefix[k] /\ Magnitude \in Nat
  BY <1>0, <1>4, PrefixEquation
<1>6. \A n \in Nat : n \in T
  <2>1. 0 \in T
    BY <1>0, <1>5
  <2>2. ASSUME NEW n \in Nat, n \in T PROVE n + 1 \in T
    <3> SUFFICES ASSUME n + 1 <= k PROVE Below(k - (n + 1))
      OBVIOUS
    <3> DEFINE j == k - (n + 1)
    <3>1. j \in Nat /\ j + 1 <= k /\ j + 1 = k - n /\ j \in 0 .. k /\ j + 1 \in 0 .. k
      BY <1>0
    <3>2. Prefix[j + 1] <= Magnitude
      BY <2>2, <3>1
    <3>3. Prefix[j] <= Prefix[j + 1] /\ Prefix[j] \in Nat /\ Prefix[j + 1] \in Nat
      BY <1>2, <1>4, <3>1
    <3> QED
      BY <1>5, <3>2, <3>3
  <2> HIDE DEF T
  <2> QED
    BY <2>1, <2>2, Induction
<1>7. ASSUME NEW i \in 0 .. k PROVE Prefix[i] <= Magnitude
  <2>1. k - i \in Nat /\ k - i <= k /\ k - (k - i) = i
    BY <1>0
  <2>2. Below(k - (k - i))
    BY <1>6, <2>1
  <2> QED
    BY <2>1, <2>2
<1> QED
  BY <1>1, <1>4, <1>7

\* Nothing about the text changes.
LEMMA SameText ==
    ASSUME UNCHANGED <<text, type>>
    PROVE  Prefix' = Prefix /\ Magnitude' = Magnitude /\ Meant' = Meant /\ (Plain' <=> Plain)
BY DEF Prefix, Magnitude, Meant, Plain

-----------------------------------------------------------------------------
(* The invariant.                                                          *)

\* No digit has been read.
LEMMA InitIInv == Init => IInv
<1> SUFFICES ASSUME Init PROVE IInv
  OBVIOUS
<1>1. text \in Texts /\ type \in Types /\ phase = "digits" /\ at = 1 /\ val = 0
  BY DEF Init
<1>2. val \in Bits
  BY <1>1, Widths
<1>3. text.form = "number" => at \in 1 .. Len(text.digits) + 1 /\ val = Prefix[at - 1]
  BY <1>1, NumberTokens, PrefixesGrow
<1> QED
  BY <1>1, <1>2, <1>3 DEF IInv, TypesAreRight, ReadSoFar, NumberIsReadAsWritten, ConstantErrorsAreRight

\* A digit of a plain number does not carry over the end of the word, for the
\* number as a whole fits.
LEMMA ReadDigitStep ==
    ASSUME IInv, ReadDigit
    PROVE  IInv'
<1>1. /\ text \in Texts /\ text.form = "number" /\ phase = "digits" /\ phase' = "digits"
      /\ val' = (val * text.base + DigitValue(Char)) % Word /\ at' = at + 1
      /\ UNCHANGED <<text, type>> /\ at <= Len(text.digits) /\ Char.class # "underscore"
  BY DEF ReadDigit, Reading, IInv, TypesAreRight
<1>2. /\ text.base \in {2, 10, 16} /\ Len(text.digits) \in Nat /\ text.digits[at] \in Chars
      /\ at \in 1 .. Len(text.digits) /\ at' \in 1 .. Len(text'.digits) + 1 /\ val \in Nat
  BY <1>1, NumberTokens, Widths DEF IInv, TypesAreRight
<1>3. DigitValue(Char) \in Nat
  <2>1. ASSUME NEW c \in Chars, c.class # "underscore" PROVE DigitValue(c) \in Nat
    BY <2>1 DEF DigitValue, Chars, CharClasses
  <2> QED
    BY <1>1, <1>2, <2>1 DEF Char
<1>4. val' \in Bits
  <2>1. val * text.base + DigitValue(Char) \in Nat
    BY <1>2, <1>3, Shifted
  <2> QED
    BY <1>1, <2>1, Widths
<1>5. ASSUME Plain PROVE val' = Prefix[at' - 1]
  <2>1. val = Prefix[at - 1]
    BY <1>1, <1>5 DEF IInv, ReadSoFar
  <2>2. DigitValue(Char) = UsualDigit(text.digits[at])
    <3>1. DOMAIN text.digits = 1 .. Len(text.digits)
      BY <1>1, NumberTokens
    <3> QED
      BY <1>1, <1>2, <1>5, <3>1, NumberTokens DEF Plain, Char
  <2>3. Prefix[at] = val * text.base + DigitValue(Char)
    BY <1>1, <1>2, <2>1, <2>2, NextPrefix
  <2>4. Prefix[at] \in Nat /\ Prefix[at] < Word
    <3>1. at \in 0 .. Len(text.digits) /\ Len(text.digits) \in 0 .. Len(text.digits)
      BY <1>2
    <3>2. Prefix[at] \in Nat /\ Prefix[at] <= Magnitude /\ Magnitude \in Nat
      BY <1>1, <3>1, PrefixesGrow, PrefixEquation
    <3> QED
      BY <1>5, <3>2, Widths DEF Plain
  <2>5. at' - 1 = at
    BY <1>1, <1>2
  <2> DEFINE read == val * text.base + DigitValue(Char)
  <2>6. read % Word = read
    <3>1. read \in Nat /\ read < Word
      BY <2>3, <2>4
    <3> HIDE DEF read
    <3> QED
      BY <3>1, Widths
  <2> QED
    BY <1>1, <2>3, <2>5, <2>6
<1> QED
  BY <1>1, <1>2, <1>4, <1>5, SameText
  DEF IInv, TypesAreRight, ReadSoFar, NumberIsReadAsWritten, ConstantErrorsAreRight

\* Of a plain number, the value is complete and is what its digits mean.
LEMMA AllIsRead ==
    ASSUME IInv, Reading, AllRead, Plain
    PROVE  val = Magnitude /\ Magnitude \in Nat
<1>1. /\ text \in Texts /\ text.form = "number" /\ phase = "digits"
      /\ Len(text.digits) \in Nat /\ at = Len(text.digits) + 1
  BY NumberTokens DEF Reading, AllRead, IInv, TypesAreRight
<1>2. at - 1 = Len(text.digits) /\ Len(text.digits) \in 0 .. Len(text.digits)
  BY <1>1
<1>3. val = Prefix[at - 1] /\ Magnitude = Prefix[Len(text.digits)]
  BY <1>1, PrefixEquation DEF IInv, ReadSoFar
<1> QED
  BY <1>1, <1>2, <1>3, PrefixesGrow

\* The parser gives up on a plain number only if it is negative and too large.
LEMMA PanicStep ==
    ASSUME IInv, Panic
    PROVE  IInv'
<1>1. /\ text \in Texts /\ text.form = "number" /\ phase' = "panic"
      /\ UNCHANGED <<text, type, at, val, value, reported>>
  BY DEF Panic, Reading, IInv, TypesAreRight
<1>2. ASSUME Plain PROVE Meant <= -Half
  <2>1. AllRead
    <3> SUFFICES ASSUME ~AllRead PROVE FALSE
      OBVIOUS
    <3>1. Char.class = "underscore"
      BY DEF Panic
    <3>2. at \in 1 .. Len(text.digits) /\ DOMAIN text.digits = 1 .. Len(text.digits)
      BY <1>1, NumberTokens DEF AllRead, IInv, TypesAreRight
    <3> QED
      BY <1>2, <3>1, <3>2 DEF Plain, Char
  <2>2. text.negative /\ val >= Half
    BY <2>1 DEF Panic
  <2>3. val = Magnitude /\ Magnitude \in Nat
    BY <1>2, <2>1, AllIsRead DEF Panic
  <2> QED
    BY <2>2, <2>3, Widths DEF Meant
<1> QED
  BY <1>1, <1>2, SameText DEF IInv, TypesAreRight, ReadSoFar, NumberIsReadAsWritten, ConstantErrorsAreRight

\* The value gets the form that goes with the sign.
LEMMA EndNumberStep ==
    ASSUME IInv, EndNumber
    PROVE  IInv'
<1>1. /\ text \in Texts /\ text.form = "number" /\ phase' = "check"
      /\ UNCHANGED <<text, type, at, val, reported>> /\ text.negative \in BOOLEAN
  BY NumberTokens DEF EndNumber, Reading, IInv, TypesAreRight
<1>2. value'.form = IF text.negative THEN "sint" ELSE "uint"
  BY DEF EndNumber
<1>3. ASSUME Plain PROVE value' = [form |-> IF text.negative THEN "sint" ELSE "uint", n |-> Meant]
  <2>1. val = Magnitude
    BY <1>3, AllIsRead DEF EndNumber
  <2> QED
    BY <2>1 DEF EndNumber, Meant
<1> QED
  BY <1>1, <1>2, <1>3, SameText
  DEF IInv, TypesAreRight, ReadSoFar, NumberIsReadAsWritten, ConstantErrorsAreRight

\* Strings and null have no digits.
LEMMA TakeOtherStep ==
    ASSUME IInv, TakeOther
    PROVE  IInv'
BY SameText DEF TakeOther, IInv, TypesAreRight, ReadSoFar, NumberIsReadAsWritten, ConstantErrorsAreRight

\* A signed value is compared with signed limits and an unsigned one with
\* unsigned limits; both agree with the comparison of the numbers.
LEMMA RangeChecks ==
    ASSUME NEW range \in IntTypes, range.max >= 0, NEW n \in Int
    PROVE  /\ SValueInRange(n, range) <=> InRange(n, range.min, range.max)
           /\ n >= 0 => (UValueInRange(n, range) <=> InRange(n, range.min, range.max))
BY DEF IntTypes, SValueInRange, UValueInRange, InRange

\* The errors say whether the text fits the type.
LEMMA CheckStep ==
    ASSUME IInv, Check
    PROVE  IInv'
<1>1. /\ text \in Texts /\ type \in Types /\ IsType(type) /\ IsToken(text)
      /\ phase = "check" /\ phase' = "done"
      /\ UNCHANGED <<text, type, at, val, value>>
  BY TextsAssumption DEF Check, IInv, TypesAreRight
<1>2. TypesAreRight' /\ ReadSoFar' /\ NumberIsReadAsWritten'
  BY <1>1, SameText DEF IInv, TypesAreRight, ReadSoFar, NumberIsReadAsWritten
<1>3. ASSUME ~Unsettled, text.form = "number" => Plain
      PROVE  IF type.is = "int" /\ ~type.range.checked THEN reported' = {"constexpr_unchecked"}
             ELSE reported' = {} <=> Fitting
  <2>1. CASE type.is = "int"
    <3>1. type.range \in IntTypes /\ type.range.max >= 0 /\ reported' = IntegerErrors(type.range)
      BY <1>1, <2>1 DEF IsType, Others, Check, IsStringly
    <3>2. CASE ~type.range.checked
      BY <2>1, <3>1, <3>2 DEF IntegerErrors
    <3>3. CASE type.range.checked /\ text.form = "number"
      <4>1. /\ value = [form |-> IF text.negative THEN "sint" ELSE "uint", n |-> Meant]
            /\ text.negative \in BOOLEAN /\ Magnitude \in Nat
        <5>1. Len(text.digits) \in 0 .. Len(text.digits)
          BY <1>1, <3>3, NumberTokens
        <5> QED
          BY <1>1, <1>3, <3>3, <5>1, PrefixEquation, PrefixesGrow, NumberTokens DEF IInv, NumberIsReadAsWritten
      <4>2. Meant \in Int /\ (~text.negative => Meant >= 0)
        BY <4>1 DEF Meant
      <4>3. Fitting <=> InRange(Meant, type.range.min, type.range.max)
        BY <2>1, <3>3 DEF Fitting
      <4>4. CASE text.negative
        BY <2>1, <3>1, <3>3, <4>1, <4>2, <4>3, <4>4, RangeChecks DEF IntegerErrors
      <4>5. CASE ~text.negative
        BY <2>1, <3>1, <3>3, <4>1, <4>2, <4>3, <4>5, RangeChecks DEF IntegerErrors
      <4> QED
        BY <4>4, <4>5
    <3>4. CASE type.range.checked /\ text.form # "number"
      <4>1. value.form = text.form /\ text.form \in {"str", "null"}
        BY <1>1, <3>4 DEF IInv, ReadSoFar, IsToken, Numbers
      <4> QED
        BY <2>1, <3>1, <3>4, <4>1 DEF IntegerErrors, Fitting
    <3> QED
      BY <3>2, <3>3, <3>4
  <2>2. CASE type.is = "chars"
    <3>1. type.length \in Nat \union {AnyLength}
      BY <1>1, <2>2 DEF IsType, Others
    <3>2. text.form = "str" => text.length \in Nat
      BY <1>1 DEF IsToken, Numbers
    <3>3. value.form = "str" <=> text.form = "str"
      BY <1>1 DEF IInv, ReadSoFar
    <3> QED
      BY <2>2, <3>1, <3>2, <3>3 DEF Check, IsStringly, LengthHint, Fitting, NoLength, AnyLength
  <2>3. CASE type.is = "valueless"
    BY <2>3 DEF Check, IsStringly, Fitting
  <2> QED
    BY <1>1, <1>3, <2>1, <2>2, <2>3 DEF IsType, Others, Unsettled
<1>4. ConstantErrorsAreRight'
  BY <1>1, <1>3, SameText DEF ConstantErrorsAreRight, Fitting, Unsettled
<1> QED
  BY <1>2, <1>4 DEF IInv

\* Every step of the scanner, the conversion and the check keeps the invariant.
LEMMA NextIInv == IInv /\ [Next]_vars => IInv'
<1> SUFFICES ASSUME IInv, [Next]_vars PROVE IInv'
  OBVIOUS
<1>1. CASE UNCHANGED vars
  <2>1. UNCHANGED <<text, type, phase, at, val, value, reported>>
    BY <1>1 DEF vars
  <2> QED
    BY <2>1, SameText
    DEF IInv, TypesAreRight, ReadSoFar, NumberIsReadAsWritten, ConstantErrorsAreRight, Fitting, Unsettled
<1> QED
  BY <1>1, ReadDigitStep, PanicStep, EndNumberStep, TakeOtherStep, CheckStep DEF Next

\* The conversion at every moment: what has been read of a plain number is what
\* the digits before the one at hand mean.
THEOREM Invariance == Spec => []IInv
BY InitIInv, NextIInv, PTL DEF Spec

\* A plain number is read as its text means it, for any base and number of
\* digits, up to the last value of the word; or, when it is negative and has no
\* int64_t, not at all.
THEOREM ReadAsWritten == Spec => []NumberIsReadAsWritten
<1>1. IInv => NumberIsReadAsWritten
  BY DEF IInv
<1> QED
  BY <1>1, Invariance, PTL

\* A constant is called wrong exactly when its text does not fit its type, for
\* integers of any range, strings of any length and the types without values; of
\* floats, other pointers, enumerations and aliases it says nothing (Unsettled).
THEOREM ErrorsAreRight == Spec => []ConstantErrorsAreRight
<1>1. IInv => ConstantErrorsAreRight
  BY DEF IInv
<1> QED
  BY <1>1, Invariance, PTL

=============================================================================
