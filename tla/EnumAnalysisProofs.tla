------------------------- MODULE EnumAnalysisProofs -------------------------
(***************************************************************************)
(* Proofs about EnumAnalysis, for words of any width and enumerations of   *)
(* any length.                                                             *)
(***************************************************************************)
EXTENDS EnumAnalysis, WellFoundedInduction, TLAPS

\* Each stored item lies in the collected range, as one of its two readings.
CoveredBy(min, max, b) == b <= max \/ (min <= AsSigned(b) /\ AsSigned(b) <= max)
Covered == \A i \in 1 .. Len(stored) : CoveredBy(low, high, stored[i])

\* The selected type is a function of the range that covers the items.
IInv ==
    /\ TypeOK
    /\ Covered
    /\ Analyzed /\ ~typed => type = <<Selected>>

-----------------------------------------------------------------------------
(* Words and types.                                                        *)

\* The widths are positive and grow.
LEMMA Widths ==
    /\ \A k \in 1 .. 4 : Halves[k] \in Nat \ {0}
    /\ Halves[1] < Halves[2] /\ Halves[2] < Halves[3] /\ Halves[3] < Halves[4]
    /\ Half \in Nat \ {0} /\ Word \in Nat /\ Word = 2 * Half
<1>1. \A k \in 1 .. 4 : Halves[k] \in Nat \ {0}
  BY HalvesAssumption
<1>2. Halves[1] < Halves[2] /\ Halves[2] < Halves[3] /\ Halves[3] < Halves[4]
  BY HalvesAssumption
<1> QED
  BY <1>1, <1>2 DEF Half, Word

\* Reading a word yields a number of its range; writing one yields a word.
LEMMA Readings ==
    /\ \A b \in Bits : AsSigned(b) \in -Half .. Half - 1
    /\ \A n \in -Half .. Word - 1 : AsBits(n) \in Bits
BY Widths DEF Bits, AsSigned, AsBits

\* The types of the selection list are integer types.
LEMMA FixedIsType ==
    ASSUME NEW k \in 1 .. 4
    PROVE  /\ Fixed(k, TRUE) \in IntTypes /\ Fixed(k, FALSE) \in IntTypes
           /\ Fixed(k, TRUE).signed = TRUE
           /\ Fixed(k, TRUE).min = -Halves[k] /\ Fixed(k, TRUE).max = Halves[k] - 1
           /\ Fixed(k, FALSE).signed = FALSE
           /\ Fixed(k, FALSE).min = 0 /\ Fixed(k, FALSE).max = 2 * Halves[k] - 1
<1> DEFINE s == Fixed(k, TRUE)
           u == Fixed(k, FALSE)
<1>1. Halves[k] \in Nat \ {0} /\ Half \in Nat /\ Word = 2 * Half /\ Halves[k] <= Half
  BY Widths DEF Half
<1>2. /\ s = [signed |-> TRUE, checked |-> TRUE, min |-> -Halves[k], max |-> Halves[k] - 1]
      /\ u = [signed |-> FALSE, checked |-> TRUE, min |-> 0, max |-> 2 * Halves[k] - 1]
  BY DEF Fixed
<1> HIDE DEF s, u
<1>3. s \in IntTypes /\ s.signed = TRUE /\ s.min = -Halves[k] /\ s.max = Halves[k] - 1
  BY <1>1, <1>2 DEF IntTypes
<1>4. u \in IntTypes /\ u.signed = FALSE /\ u.min = 0 /\ u.max = 2 * Halves[k] - 1
  BY <1>1, <1>2 DEF IntTypes
<1> QED
  BY <1>3, <1>4 DEF s, u

\* An error about an item of the enumeration.
Errors == [code : Codes, at : 0 .. Len(enum.items)]

LEMMA ReportFits ==
    ASSUME NEW at \in 0 .. Len(enum.items)
    PROVE  \A code \in Codes : Report(code, at) \subseteq Errors
BY DEF Report, Errors

\* A written number of an item that is taken is one a word can hold.
LEMMA BitsNowIsWord ==
    ASSUME TypeOK, Number <= Len(enum.items)
    PROVE  BitsNow \in Bits /\ SignedNow \in BOOLEAN /\ Number \in Ids /\ Item \in Literals
<1>1. enum \in Enum
  BY EnumsAssumption DEF TypeOK
<1>2. enum.items \in Seq(Literals) /\ Number \in Ids
  BY <1>1 DEF Enum, TypeOK, Number, Ids
<1>3. Item \in Literals
  BY <1>2 DEF Item, Ids
<1>4. Item.form \in {"sint", "uint"} => Item.n \in -Half .. Word - 1
  BY <1>3, Widths DEF Literals, Bits
<1>5. BitsNow \in Bits
  BY <1>4, Readings DEF BitsNow, TypeOK
<1> QED
  BY <1>2, <1>3, <1>5 DEF SignedNow, TypeOK

\* The first fitting type: one exists, and it fits unless nothing does.
LEMMA FirstFits ==
    /\ FirstFit \in 1 .. 4
    /\ FirstFit = 4 \/ Fits(FirstFit)
    /\ \A j \in 1 .. FirstFit - 1 : ~Fits(j)
<1> DEFINE First(k) == (k = 4 \/ Fits(k)) /\ \A j \in 1 .. k - 1 : ~Fits(j)
<1>1. CASE Fits(1)
  <2>1. First(1)
    BY <1>1
  <2> QED
    BY <2>1 DEF FirstFit
<1>2. CASE ~Fits(1) /\ Fits(2)
  <2>1. First(2)
    BY <1>2
  <2> QED
    BY <2>1 DEF FirstFit
<1>3. CASE ~Fits(1) /\ ~Fits(2) /\ Fits(3)
  <2>1. First(3)
    BY <1>3
  <2> QED
    BY <2>1 DEF FirstFit
<1>4. CASE ~Fits(1) /\ ~Fits(2) /\ ~Fits(3)
  <2>1. First(4)
    BY <1>4
  <2> QED
    BY <2>1 DEF FirstFit
<1> QED
  BY <1>1, <1>2, <1>3, <1>4

\* Induction over the natural numbers, for a set of them.
LEMMA Induction ==
    ASSUME NEW S, 0 \in S, \A n \in Nat : n \in S => n + 1 \in S
    PROVE  \A n \in Nat : n \in S
<1> SUFFICES ASSUME Nat \ S # {} PROVE FALSE
  OBVIOUS
<1> DEFINE Less == {ss \in Nat \X Nat : ss[1] < ss[2]}
<1>1. IsWellFoundedOn(Less, Nat)
  BY NatLessThanWellFounded DEF OpToRel
<1>2. PICK x \in Nat \ S : \A y \in Nat \ S : ~(<<y, x>> \in Less)
  <2>1. Nat \ S \subseteq Nat
    OBVIOUS
  <2> QED
    BY <1>1, <2>1, WFMin
<1>3. \A y \in Nat \ S : ~(y < x)
  BY <1>2
<1>4. x # 0 /\ x - 1 \in Nat
  BY <1>2
<1>5. x - 1 \in S
  BY <1>3, <1>4
<1> QED
  BY <1>2, <1>4, <1>5

\* The values the text means: each is the one written, or one more than before.
LEMMA MeantValues ==
    ASSUME enum \in Enums
    PROVE  /\ Len(enum.items) \in Nat /\ enum.items \in Seq(Literals) /\ DOMAIN Meant = Ids
           /\ \A i \in Ids :
                 /\ Meant[i] \in Int
                 /\ Meant[i] = IF enum.items[i].form \in {"sint", "uint"} THEN enum.items[i].n
                               ELSE IF i = 1 THEN 0 ELSE Meant[i - 1] + 1
<1> DEFINE k == Len(enum.items)
           Value(f, i) == IF i = 0 THEN -1
                          ELSE IF enum.items[i].form \in {"sint", "uint"} THEN enum.items[i].n
                          ELSE f[i - 1] + 1
           Counts(f, n) == \A i \in 0 .. k : i <= n => f[i] \in Int /\ f[i] = Value(f, i)
           S == {n \in Nat : \E f : f = [i \in 0 .. k |-> f[i]] /\ Counts(f, n)}
<1>0. k \in Nat /\ enum.items \in Seq(Literals)
  BY EnumsAssumption DEF Enum
<1>00. \A i \in 1 .. k : enum.items[i].form \in {"sint", "uint"} => enum.items[i].n \in Int
  <2> SUFFICES ASSUME NEW i \in 1 .. k, enum.items[i].form \in {"sint", "uint"}
               PROVE  enum.items[i].n \in Int
    OBVIOUS
  <2>1. enum.items[i] \in Literals
    BY <1>0
  <2> QED
    BY <2>1, Widths DEF Literals, Bits
<1>1. 0 \in S
  <2> DEFINE f == [i \in 0 .. k |-> -1]
  <2>1. f = [i \in 0 .. k |-> f[i]]
    OBVIOUS
  <2>2. Counts(f, 0)
    BY <1>0
  <2> HIDE DEF f, Counts
  <2> QED
    BY <2>1, <2>2
<1>2. ASSUME NEW n \in Nat, n \in S PROVE n + 1 \in S
  <2>1. PICK f : f = [i \in 0 .. k |-> f[i]] /\ Counts(f, n)
    BY <1>2
  <2> DEFINE g == [i \in 0 .. k |-> Value(f, i)]
  <2>2. g = [i \in 0 .. k |-> g[i]]
    OBVIOUS
  <2>3. \A i \in 0 .. k : i <= n => f[i] = g[i] /\ f[i] \in Int
    BY <2>1
  <2>4. Counts(g, n + 1)
    <3> SUFFICES ASSUME NEW i \in 0 .. k, i <= n + 1 PROVE g[i] \in Int /\ g[i] = Value(g, i)
      OBVIOUS
    <3>1. CASE i = 0
      BY <3>1
    <3>2. CASE i # 0
      <4>1. i - 1 \in 0 .. k /\ i - 1 <= n /\ i \in 1 .. k
        BY <1>0, <3>2
      <4>2. f[i - 1] = g[i - 1] /\ f[i - 1] \in Int
        BY <2>3, <4>1
      <4>3. g[i] = Value(f, i)
        OBVIOUS
      <4> HIDE DEF g
      <4> QED
        BY <3>2, <4>1, <4>2, <4>3, <1>00
    <3> QED
      BY <3>1, <3>2
  <2> HIDE DEF g, Counts
  <2> QED
    BY <2>2, <2>4
<1>3. k \in S
  <2> HIDE DEF S
  <2> QED
    BY <1>0, <1>1, <1>2, Induction
<1>4. PICK f : f = [i \in 0 .. k |-> f[i]] /\ Counts(f, k)
  BY <1>3
<1>5. f = [i \in 0 .. k |-> Value(f, i)]
  <2>1. \A i \in 0 .. k : f[i] = Value(f, i)
    BY <1>0, <1>4
  <2> HIDE DEF Value
  <2> QED
    BY <1>4, <2>1
<1> DEFINE F == CHOOSE h : h = [i \in 0 .. k |-> Value(h, i)]
<1>6. F = [i \in 0 .. k |-> Value(F, i)]
  BY <1>5
<1>7. Meant = [i \in 1 .. k |-> F[i]]
  BY DEF Meant, Ids
<1> HIDE DEF F
<1>8. \A i \in 0 .. k : F[i] = Value(F, i)
  BY <1>6
<1>9. \A i \in 0 .. k : F[i] \in Int
  <2> DEFINE T == {n \in Nat : n \in 0 .. k => F[n] \in Int}
  <2>1. 0 \in T
    BY <1>8
  <2>2. ASSUME NEW n \in Nat, n \in T PROVE n + 1 \in T
    <3> SUFFICES ASSUME n + 1 \in 0 .. k PROVE F[n + 1] \in Int
      OBVIOUS
    <3>1. n \in 0 .. k /\ F[n] \in Int /\ n + 1 \in 1 .. k /\ (n + 1) - 1 = n
      BY <1>0, <2>2
    <3>2. F[n + 1] = Value(F, n + 1)
      BY <1>8
    <3> QED
      BY <3>1, <3>2, <1>00
  <2> HIDE DEF T
  <2>3. \A n \in Nat : n \in T
    BY <2>1, <2>2, Induction
  <2> QED
    BY <2>3, <1>0 DEF T
<1>10. ASSUME NEW i \in 1 .. k
       PROVE  /\ Meant[i] \in Int
              /\ Meant[i] = IF enum.items[i].form \in {"sint", "uint"} THEN enum.items[i].n
                            ELSE IF i = 1 THEN 0 ELSE Meant[i - 1] + 1
  <2>1. Meant[i] = F[i] /\ F[i] = Value(F, i) /\ F[i] \in Int /\ F[0] = -1
    BY <1>0, <1>7, <1>8, <1>9
  <2>2. CASE i = 1
    BY <2>1, <2>2
  <2>3. CASE i # 1
    <3>1. i - 1 \in 1 .. k
      BY <1>0, <2>3
    <3>2. Meant[i - 1] = F[i - 1]
      BY <3>1, <1>7
    <3> QED
      BY <2>1, <2>3, <3>2
  <2> QED
    BY <2>2, <2>3
<1> QED
  BY <1>0, <1>7, <1>10 DEF Ids

-----------------------------------------------------------------------------
(* The invariant.                                                          *)

\* No item is stored yet.
LEMMA InitIInv == Init => IInv
<1> SUFFICES ASSUME Init PROVE IInv
  OBVIOUS
<1>1. TypeOK
  <2>1. 0 \in Bits /\ Half - 1 \in -Half .. Half - 1
    BY Widths DEF Bits
  <2>2. Len(enum.items) \in Nat
    BY EnumsAssumption DEF Init, Enum
  <2>3. /\ <<>> \in Seq(Bits) /\ <<>> \in Seq(IntTypes)
        /\ Len(<<>>) = 0
    OBVIOUS
  <2>4. stored \in Seq(Bits) /\ Len(stored) <= Len(enum.items)
    BY <2>2, <2>3 DEF Init
  <2>5. type \in Seq(IntTypes) /\ Len(type) <= 1
    BY <2>3 DEF Init
  <2>6. bits \in Bits /\ low \in -Half .. Half - 1 /\ high \in Bits
    BY <2>1 DEF Init
  <2> QED
    BY <2>4, <2>5, <2>6 DEF Init, TypeOK
<1> QED
  BY <1>1 DEF Init, IInv, Analyzed, Covered

\* Resolving the backing type stores nothing.
LEMMA ResolveBackingStep == IInv /\ ResolveBacking => IInv'
<1> SUFFICES ASSUME IInv, ResolveBacking PROVE IInv'
  OBVIOUS
<1>1. enum \in Enum
  BY EnumsAssumption DEF IInv, TypeOK
<1>2. enum.backing.is = "int" => Underlying \in IntTypes /\ Underlying.signed \in BOOLEAN
  BY <1>1 DEF Enum, Backings, Underlying, IntTypes
<1>3. type' \in Seq(IntTypes) /\ Len(type') <= 1
  BY <1>2 DEF ResolveBacking
<1>4. reported' \subseteq [code : Codes, at : 0 .. Len(enum.items)]
  <2>1. 0 \in 0 .. Len(enum.items)
    BY <1>1 DEF Enum
  <2> QED
    <3>1. /\ Report("enum_type_must_be_int", 0) \subseteq Errors
          /\ Report("undeclared_identifier", 0) \subseteq Errors
      BY <2>1, ReportFits DEF Codes
    <3>2. \/ reported' = Report("enum_type_must_be_int", 0)
          \/ reported' = Report("undeclared_identifier", 0)
          \/ reported' = {}
      BY DEF ResolveBacking
    <3> QED
      BY <3>1, <3>2 DEF Errors
<1>5. signed' \in BOOLEAN /\ typed' \in BOOLEAN /\ ok' \in BOOLEAN
  BY <1>2 DEF ResolveBacking
<1>6. TypeOK'
  BY <1>3, <1>4, <1>5 DEF IInv, TypeOK, ResolveBacking
<1>7. ~Analyzed'
  BY DEF Analyzed, ResolveBacking
<1>8. Covered'
  BY DEF IInv, ResolveBacking, Covered
<1> QED
  BY <1>6, <1>7, <1>8 DEF IInv

\* An enumeration without items is never stored.
LEMMA EmptyStep == IInv /\ Empty => IInv'
<1> SUFFICES ASSUME IInv, Empty PROVE IInv'
  OBVIOUS
<1>1. TypeOK'
  <2>1. 0 \in 0 .. Len(enum.items)
    BY DEF Empty
  <2>2. reported' \subseteq [code : Codes, at : 0 .. Len(enum.items)]
    <3>1. Report("enum_empty", 0) \subseteq Errors
      BY <2>1, ReportFits DEF Codes
    <3> QED
      BY <3>1 DEF Empty, IInv, TypeOK, Errors
  <2> QED
    BY <2>2 DEF IInv, TypeOK, Empty
<1>2. ~Analyzed'
  BY DEF Analyzed, Empty
<1>3. Covered'
  BY DEF IInv, Empty, Covered
<1> QED
  BY <1>1, <1>2, <1>3 DEF IInv

\* The range grows to cover the item and never gives up another one.
LEMMA AnalyzeItemStep == IInv /\ AnalyzeItem => IInv'
<1> SUFFICES ASSUME IInv, AnalyzeItem PROVE IInv'
  OBVIOUS
<1> DEFINE value == Read(BitsNow, SignedNow)
<1>1. BitsNow \in Bits /\ SignedNow \in BOOLEAN /\ Number \in Ids
  BY BitsNowIsWord DEF IInv, AnalyzeItem
<1>2. low' = InsertLow(value) /\ high' = InsertHigh(value)
  BY DEF AnalyzeItem
<1>3. /\ value \in -Half .. Word - 1
      /\ SignedNow => value = AsSigned(BitsNow) /\ value \in -Half .. Half - 1
      /\ ~SignedNow => value = BitsNow
  BY <1>1, Readings, Widths DEF Read, Bits
<1>4. low \in -Half .. Half - 1 /\ high \in Bits
  BY DEF IInv, TypeOK
<1>5. low' \in -Half .. Half - 1 /\ low' <= low /\ (SignedNow => low' <= value)
  BY <1>1, <1>2, <1>3, <1>4, Widths DEF InsertLow
<1>6. high' \in Bits /\ high <= high' /\ value <= high'
  BY <1>1, <1>2, <1>3, <1>4, Widths DEF InsertHigh, Bits
<1>7. TypeOK'
  <2>1. bits' \in Bits
    BY <1>1, Widths DEF AnalyzeItem, Successor, Bits
  <2>2. stored' \in Seq(Bits) /\ Len(stored') <= Len(enum.items)
    BY <1>1 DEF AnalyzeItem, IInv, TypeOK, Number, Ids
  <2>3. Number \in 0 .. Len(enum.items)
    BY <1>1 DEF Ids
  <2>4. reported' \subseteq [code : Codes, at : 0 .. Len(enum.items)]
    <3>1. /\ Report("duplicate_enum_item", Number) \subseteq Errors
          /\ Report("enum_value_illegal", Number) \subseteq Errors
          /\ Report("enum_out_of_range", Number) \subseteq Errors
          /\ Report("duplicate_enum_value", Number) \subseteq Errors
      BY <2>3, ReportFits DEF Codes
    <3> QED
      BY <3>1 DEF AnalyzeItem, IInv, TypeOK, Errors
  <2>5. phase' \in {"items", "undefined"}
    BY DEF AnalyzeItem
  <2> QED
    BY <1>1, <1>5, <1>6, <2>1, <2>2, <2>4, <2>5 DEF AnalyzeItem, IInv, TypeOK
<1>8. Covered'
  <2> SUFFICES ASSUME NEW i \in 1 .. Len(stored') PROVE CoveredBy(low', high', stored'[i])
    BY DEF Covered
  <2>1. stored \in Seq(Bits) /\ stored' = Append(stored, BitsNow)
    BY DEF IInv, TypeOK, AnalyzeItem
  <2>2. CASE i \in 1 .. Len(stored)
    <3>1. stored'[i] = stored[i] /\ stored[i] \in Bits
      BY <2>1, <2>2, <1>1
    <3>2. AsSigned(stored[i]) \in Int
      BY <3>1, Readings, Widths
    <3>3. CoveredBy(low, high, stored[i])
      BY <2>2 DEF IInv, Covered
    <3>4. low \in Int /\ low' \in Int /\ high \in Int /\ high' \in Int /\ stored[i] \in Int
      BY <3>1, <1>4, <1>5, <1>6, Widths DEF Bits
    <3>5. CASE stored[i] <= high
      BY <3>1, <3>4, <3>5, <1>5, <1>6 DEF CoveredBy
    <3>6. CASE low <= AsSigned(stored[i]) /\ AsSigned(stored[i]) <= high
      BY <3>1, <3>2, <3>4, <3>6, <1>5, <1>6 DEF CoveredBy
    <3> QED
      BY <3>3, <3>5, <3>6 DEF CoveredBy
  <2>3. CASE i = Len(stored) + 1
    <3>1. stored'[i] = BitsNow
      BY <2>1, <2>3, <1>1
    <3> QED
      BY <3>1, <1>1, <1>3, <1>5, <1>6 DEF CoveredBy
  <2> QED
    BY <2>1, <2>2, <2>3, <1>1
<1>9. ~Analyzed'
  BY DEF Analyzed, AnalyzeItem
<1> QED
  BY <1>7, <1>8, <1>9 DEF IInv

\* The type is selected from the range that covers all items.
LEMMA SelectTypeStep == IInv /\ SelectType => IInv'
<1> SUFFICES ASSUME IInv, SelectType PROVE IInv'
  OBVIOUS
<1>1. Selected \in IntTypes
  BY FirstFits, FixedIsType DEF Selected
<1>2. type' \in Seq(IntTypes) /\ Len(type') <= 1
  BY <1>1 DEF SelectType, IInv, TypeOK
<1>3. TypeOK'
  BY <1>2 DEF SelectType, IInv, TypeOK
<1>4. Covered'
  BY DEF IInv, SelectType, Covered
<1>5. ~typed' => type' = <<Selected>>
  BY DEF SelectType
<1>6. Selected' = Selected
  BY DEF SelectType, Selected, FirstFit, Fits
<1> QED
  BY <1>3, <1>4, <1>5, <1>6 DEF IInv

\* Invariance: every reachable state satisfies the inductive invariant.
THEOREM Invariance == Spec => []IInv
<1>1. IInv /\ [Next]_vars => IInv'
  <2> SUFFICES ASSUME IInv, [Next]_vars PROVE IInv'
    OBVIOUS
  <2>1. CASE UNCHANGED vars
    BY <2>1 DEF vars, IInv, TypeOK, Covered, Analyzed, Selected, FirstFit, Fits
  <2> QED
    BY <2>1, ResolveBackingStep, EmptyStep, AnalyzeItemStep, SelectTypeStep DEF Next
<1> QED
  BY <1>1, InitIInv, PTL DEF Spec

\* The collected range covers all items, so the type selected for it does.
LEMMA TruncatesNothing == IInv => NothingTruncated
<1> SUFFICES ASSUME IInv, Analyzed, ~typed, low < 0 => high < Half,
                    NEW i \in 1 .. Len(stored)
             PROVE  InRange(Read(stored[i], type[1].signed), type[1].min, type[1].max)
  BY DEF NothingTruncated
<1> DEFINE b == stored[i]
<1>1. PICK k \in 1 .. 4 : k = FirstFit /\ (k = 4 \/ Fits(k))
  BY FirstFits
<1>2. type[1] = Selected
  BY DEF IInv
<1>3. /\ b \in Bits /\ CoveredBy(low, high, b)
      /\ low \in -Half .. Half - 1 /\ high \in Bits
  BY DEF IInv, TypeOK, Covered
<1>4. Fits(k)
  BY <1>1, <1>3, Widths DEF Fits, Bits, Half, Word
<1>5. Halves[k] \in Nat \ {0} /\ Halves[k] <= Half
  <2>1. Halves[k] \in Nat \ {0}
    BY Widths, Zenon
  <2>2. \A j \in 1 .. 4 : j = 1 \/ j = 2 \/ j = 3 \/ j = 4
    OBVIOUS
  <2>3. /\ Halves[1] <= Half /\ Halves[2] <= Half /\ Halves[3] <= Half /\ Halves[4] <= Half
    BY Widths DEF Half
  <2> QED
    BY <2>1, <2>2, <2>3, Zenon
<1>6. AsSigned(b) \in -Half .. Half - 1
  BY <1>3, Readings
<1>7. CASE low < 0
  <2>1. type[1].signed /\ type[1].min = -Halves[k] /\ type[1].max = Halves[k] - 1
    BY <1>1, <1>2, <1>7, FixedIsType DEF Selected
  <2>2. low <= AsSigned(b) /\ AsSigned(b) <= high
    BY <1>3, <1>7, Widths DEF CoveredBy, AsSigned, Bits
  <2>3. low >= -Halves[k] /\ high <= Halves[k] - 1
    BY <1>4, <1>7 DEF Fits
  <2>4. Read(b, type[1].signed) = AsSigned(b)
    BY <2>1 DEF Read
  <2>5. -Halves[k] <= AsSigned(b) /\ AsSigned(b) <= Halves[k] - 1
    <3>1. low \in Int /\ high \in Int /\ AsSigned(b) \in Int /\ Halves[k] \in Int
      BY <1>3, <1>5, <1>6, Widths DEF Bits
    <3> QED
      BY <2>2, <2>3, <3>1
  <2> QED
    BY <2>1, <2>4, <2>5, <1>5, <1>6, Widths DEF InRange
<1>8. CASE ~(low < 0)
  <2>1. ~type[1].signed /\ type[1].min = 0 /\ type[1].max = 2 * Halves[k] - 1
    BY <1>1, <1>2, <1>8, FixedIsType DEF Selected
  <2>2. b <= high
    BY <1>3, <1>8, Widths DEF CoveredBy, AsSigned, Bits
  <2>3. high <= 2 * Halves[k] - 1
    BY <1>4, <1>8 DEF Fits
  <2>4. b \in Nat /\ high \in Int /\ Halves[k] \in Int
    BY <1>3, <1>5, Widths DEF Bits
  <2>5. 0 <= b /\ b <= 2 * Halves[k] - 1
    BY <2>2, <2>3, <2>4
  <2>6. Read(b, type[1].signed) = b
    BY <2>1 DEF Read
  <2> QED
    BY <2>1, <2>5, <2>6 DEF InRange
<1> QED
  BY <1>7, <1>8

\* No item is cut off when it is printed as the type that was selected for it.
THEOREM NoItemIsTruncated == Spec => []NothingTruncated
BY TruncatesNothing, Invariance, PTL

-----------------------------------------------------------------------------
(* What the stored items mean.                                             *)

OutAt(i) == ReportedAt("enum_out_of_range", i)

\* The items up to n were taken, and mean what one reading of the word can express.
Sound(n) == \A j \in 1 .. n : Meant[j] \in -Half .. Word - 1 /\ ~OutAt(j)

NextBits(b) == IF b = Word - 1 THEN 0 ELSE b + 1

\* No item so far means more than a signed word can express, if it has to be one.
FitsSign(isSigned, n) == isSigned => \A j \in 1 .. n : Meant[j] < Half

\* The range collected so far consists of values that are meant.
RangeIsMeant(min, max, n) ==
    /\ \A j \in 1 .. n : Meant[j] <= max
    /\ max = 0 \/ \E j \in 1 .. n : max = Meant[j]
    /\ min < 0 => \E j \in 1 .. n : min = Meant[j]
    /\ (\E j \in 1 .. n : Meant[j] < 0) => min < 0

Counting ==
    /\ bits = IF stored = <<>> THEN 0 ELSE NextBits(stored[Len(stored)])
    /\ \A i \in 1 .. Len(stored) : Sound(i) => stored[i] = AsBits(Meant[i])

Reporting ==
    /\ \A code \in {"enum_out_of_range", "duplicate_enum_value"}, i \in 0 .. Len(enum.items) :
          ReportedAt(code, i) => i \in 1 .. Len(stored)
    /\ \A i \in 1 .. Len(stored) :
          ReportedAt("duplicate_enum_value", i) <=> \E j \in 1 .. i - 1 : stored[j] = stored[i]

\* A backing type decides on the sign at once, else the first minus sign does.
Signs ==
    /\ phase = "begin" => stored = <<>> /\ ~typed /\ ~signed
    /\ phase # "begin" => typed = (enum.backing.is = "int")
    /\ typed => enum.backing.is = "int" /\ signed = Underlying.signed /\ type = <<Underlying>>
    /\ ~typed => (signed <=> \E j \in 1 .. Len(stored) : HasSign(j))

Ranging ==
    ~typed /\ Sound(Len(stored)) /\ FitsSign(signed, Len(stored)) =>
        RangeIsMeant(low, high, Len(stored))

OutOfRangeSoFar ==
    typed /\ Underlying.checked =>
        \A i \in 1 .. Len(stored) :
            (\A j \in 1 .. i - 1 : FitsType(j)) /\ CountsInWord(i)
            => (OutAt(i) <=> ~FitsType(i))

JInv ==
    /\ Counting /\ Reporting /\ Signs /\ Ranging /\ OutOfRangeSoFar
    /\ Analyzed => Len(stored) = Len(enum.items)

\* The word of a value, and the values the word is read as.
LEMMA WordsOfValues ==
    ASSUME NEW n \in -Half .. Word - 1
    PROVE  /\ AsBits(n) \in Bits
           /\ n + 1 < Word => NextBits(AsBits(n)) = AsBits(n + 1)
           /\ n < Half => AsSigned(AsBits(n)) = n
           /\ n >= 0 => AsBits(n) = n
           /\ n < 0 => AsBits(n) >= Half
BY Widths DEF Bits, AsBits, AsSigned, NextBits

\* Different values have different words under one reading.
LEMMA WordsDiffer ==
    ASSUME NEW m \in Int, NEW n \in Int,
           \/ m \in -Half .. Half - 1 /\ n \in -Half .. Half - 1
           \/ m \in 0 .. Word - 1 /\ n \in 0 .. Word - 1
    PROVE  AsBits(m) = AsBits(n) <=> m = n
BY Widths DEF AsBits

\* What an item with a number of its own means.
LEMMA WrittenValues ==
    ASSUME enum \in Enums, NEW i \in Ids
    PROVE  /\ Meant[i] \in Int /\ enum.items[i] \in Literals
           /\ enum.items[i].form \in {"none", "str", "sint", "uint"}
           /\ enum.items[i].form = "sint" =>
                 Meant[i] = enum.items[i].n /\ Meant[i] \in (1 - Half) .. 0
           /\ enum.items[i].form = "uint" =>
                 Meant[i] = enum.items[i].n /\ Meant[i] \in 0 .. Word - 1
           /\ enum.items[i].form \in {"none", "str"} =>
                 Meant[i] = IF i = 1 THEN 0 ELSE Meant[i - 1] + 1
<1>1. enum.items[i] \in Literals
  BY MeantValues DEF Ids
<1>2. /\ enum.items[i].form \in {"none", "str", "sint", "uint"}
      /\ enum.items[i].form = "sint" => enum.items[i].n \in (1 - Half) .. 0
      /\ enum.items[i].form = "uint" => enum.items[i].n \in 0 .. Word - 1
  BY <1>1 DEF Literals, Bits
<1> QED
  BY <1>1, <1>2, MeantValues

\* Only behind a minus sign is a value negative.
LEMMA SignNeeded ==
    ASSUME enum \in Enums
    PROVE  \A i \in Ids : Meant[i] < 0 => \E j \in 1 .. i : HasSign(j)
<1> DEFINE S == {n \in Nat : n \in Ids /\ Meant[n] < 0 => \E j \in 1 .. n : HasSign(j)}
<1>1. 0 \in S
  BY DEF Ids
<1>2. ASSUME NEW n \in Nat, n \in S PROVE n + 1 \in S
  <2> SUFFICES ASSUME n + 1 \in Ids, Meant[n + 1] < 0 PROVE \E j \in 1 .. n + 1 : HasSign(j)
    OBVIOUS
  <2>1. CASE enum.items[n + 1].form = "sint"
    BY <2>1 DEF HasSign
  <2>2. CASE enum.items[n + 1].form = "uint"
    BY <2>2, WrittenValues, Widths
  <2>3. CASE enum.items[n + 1].form \in {"none", "str"}
    <3>1. n # 0 /\ Meant[n + 1] = Meant[n] + 1
      BY <2>3, WrittenValues
    <3>2. n \in Ids
      BY <3>1, MeantValues DEF Ids
    <3>3. Meant[n] < 0
      BY <3>1, <3>2, WrittenValues
    <3> QED
      BY <1>2, <3>2, <3>3
  <2> QED
    BY <2>1, <2>2, <2>3, WrittenValues
<1> HIDE DEF S
<1>3. \A n \in Nat : n \in S
  BY <1>1, <1>2, Induction
<1> QED
  BY <1>3, MeantValues DEF S, Ids

\* The item at hand is stored behind the others.
LEMMA ItemStored ==
    ASSUME IInv, JInv, AnalyzeItem
    PROVE  /\ enum \in Enums /\ Number \in Ids /\ Number = Len(stored) + 1 /\ Len(stored) \in Nat
           /\ BitsNow \in Bits /\ SignedNow \in BOOLEAN /\ stored' \in Seq(Bits)
           /\ Len(stored') = Number /\ stored'[Number] = BitsNow
           /\ \A i \in 1 .. Len(stored) : stored'[i] = stored[i] /\ stored[i] \in Bits
           /\ Item = enum.items[Number]
           /\ bits' = NextBits(BitsNow)
<1>1. BitsNow \in Bits /\ SignedNow \in BOOLEAN /\ Number \in Ids
  BY BitsNowIsWord DEF IInv, AnalyzeItem
<1>2. stored \in Seq(Bits) /\ stored' = Append(stored, BitsNow) /\ Number = Len(stored) + 1
  BY DEF AnalyzeItem, IInv, TypeOK, Number
<1> QED
  BY <1>1, <1>2 DEF AnalyzeItem, IInv, TypeOK, Item, Successor, NextBits

\* Of the earlier items, nothing new is reported.
LEMMA ItemReported ==
    ASSUME IInv, JInv, AnalyzeItem, NEW n \in Nat, n = Number
    PROVE  /\ \A code \in {"enum_out_of_range", "duplicate_enum_value"}, i \in 0 .. Len(enum.items) :
                 i # Number => (ReportedAt(code, i)' <=> ReportedAt(code, i))
           /\ OutAt(n)' <=> OutOfRange
           /\ ReportedAt("duplicate_enum_value", n)' <=> Duplicate
<1>1. ~OutAt(Number) /\ ~ReportedAt("duplicate_enum_value", Number)
  BY ItemStored DEF JInv, Reporting, OutAt, Ids
<1>2. ASSUME NEW code \in {"enum_out_of_range", "duplicate_enum_value"}, NEW i \in 0 .. Len(enum.items)
      PROVE  ReportedAt(code, i)' <=>
                \/ ReportedAt(code, i)
                \/ code = "enum_out_of_range" /\ OutOfRange /\ i = Number
                \/ code = "duplicate_enum_value" /\ Duplicate /\ i = Number
  <2> DEFINE r == [code |-> code, at |-> i]
  <2>1. \A c, m : r \in Report(c, m) <=> c = code /\ m = i
    BY DEF Report
  <2>2. ReportedAt(code, i)' <=> r \in reported'
    BY DEF ReportedAt
  <2>3. ReportedAt(code, i) <=> r \in reported
    BY DEF ReportedAt
  <2>4. reported' = reported
         \union (IF DuplicateName THEN Report("duplicate_enum_item", Number) ELSE {})
         \union (IF Item.form = "str" THEN Report("enum_value_illegal", Number) ELSE {})
         \union (IF OutOfRange THEN Report("enum_out_of_range", Number) ELSE {})
         \union (IF Duplicate THEN Report("duplicate_enum_value", Number) ELSE {})
    BY DEF AnalyzeItem
  <2> HIDE DEF r
  <2> QED
    BY <2>1, <2>2, <2>3, <2>4
<1>3. Number \in 0 .. Len(enum.items)
  BY ItemStored DEF Ids
<1> QED
  BY <1>1, <1>2, <1>3 DEF OutAt

\* A sound item is stored as the word of what it means.
LEMMA WordOfItem ==
    ASSUME IInv, JInv, AnalyzeItem, Sound(Number - 1), ~Rejected, Meant[Number] \in -Half .. Word - 1
    PROVE  BitsNow = AsBits(Meant[Number])
<1>1. /\ enum \in Enums /\ Number \in Ids /\ Item = enum.items[Number]
      /\ Number = Len(stored) + 1 /\ Len(stored) \in Nat
  BY ItemStored
<1>2. CASE Item.form \in {"sint", "uint"}
  BY <1>1, <1>2, WrittenValues DEF BitsNow
<1>3. CASE Item.form \in {"none", "str"}
  <2>1. BitsNow = bits /\ Meant[Number] = IF Number = 1 THEN 0 ELSE Meant[Number - 1] + 1
    BY <1>1, <1>3, WrittenValues DEF BitsNow
  <2>2. CASE Number = 1
    <3>1. bits = 0
      BY <1>1, <2>2 DEF JInv, Counting, IInv, TypeOK
    <3> QED
      BY <2>1, <2>2, <3>1 DEF AsBits
  <2>3. CASE Number # 1
    <3> DEFINE k == Len(stored)
    <3>1. k \in 1 .. Len(stored) /\ k \in Ids /\ Number - 1 = k /\ stored # <<>>
      BY <1>1, <2>3 DEF Ids, IInv, TypeOK
    <3>2. stored[k] = AsBits(Meant[k]) /\ bits = NextBits(stored[k])
      BY <3>1 DEF JInv, Counting
    <3>3. Meant[k] \in -Half .. Word - 1
      BY <3>1 DEF Sound
    <3>4. Meant[k] + 1 < Word /\ Meant[Number] = Meant[k] + 1
      BY <2>1, <2>3, <3>1, <3>3, Widths
    <3> QED
      BY <2>1, <3>2, <3>3, <3>4, WordsOfValues
  <2> QED
    BY <2>2, <2>3
<1> QED
  BY <1>1, <1>2, <1>3, WrittenValues

\* What only depends on the enumeration, or on earlier items, stays.
LEMMA ItemKeeps ==
    ASSUME IInv, JInv, AnalyzeItem
    PROVE  /\ enum' = enum /\ Ids' = Ids /\ Meant' = Meant /\ typed' = typed /\ type' = type
           /\ phase = "items" /\ phase' # "begin" /\ ~Analyzed' /\ Underlying' = Underlying
           /\ \A i : /\ HasSign(i)' <=> HasSign(i)
                     /\ FitsType(i)' <=> FitsType(i)
                     /\ CountsInWord(i)' <=> CountsInWord(i)
           /\ \A i \in 1 .. Len(stored) : OutAt(i)' <=> OutAt(i)
           /\ \A n \in 0 .. Len(stored) : Sound(n)' <=> Sound(n)
<1>1. /\ enum' = enum /\ typed' = typed /\ type' = type /\ phase = "items"
      /\ phase' \in {"items", "undefined"}
  BY DEF AnalyzeItem
<1>2. Ids' = Ids /\ Underlying' = Underlying /\ Meant' = Meant /\ ~Analyzed'
  BY <1>1 DEF Ids, Underlying, Meant, Analyzed
<1>3. \A i : /\ HasSign(i)' <=> HasSign(i)
             /\ FitsType(i)' <=> FitsType(i)
             /\ CountsInWord(i)' <=> CountsInWord(i)
  BY <1>1, <1>2 DEF HasSign, FitsType, CountsInWord
<1>4. \A i \in 1 .. Len(stored) : OutAt(i)' <=> OutAt(i)
  <2> SUFFICES ASSUME NEW i \in 1 .. Len(stored) PROVE OutAt(i)' <=> OutAt(i)
    OBVIOUS
  <2>1. i \in 0 .. Len(enum.items) /\ i # Number /\ Number \in Nat
    BY ItemStored DEF Ids
  <2> QED
    BY <2>1, ItemReported DEF OutAt
<1>5. \A n \in 0 .. Len(stored) : Sound(n)' <=> Sound(n)
  <2> SUFFICES ASSUME NEW n \in 0 .. Len(stored) PROVE Sound(n)' <=> Sound(n)
    OBVIOUS
  <2>1. \A j \in 1 .. n : j \in 1 .. Len(stored)
    BY ItemStored
  <2> QED
    BY <1>2, <1>4, <2>1 DEF Sound
<1> QED
  BY <1>1, <1>2, <1>3, <1>4, <1>5

\* A sound item was taken, and is stored as the word of what it means.
LEMMA SoundItem ==
    ASSUME IInv, JInv, AnalyzeItem, NEW n \in Nat, n = Number, Sound(n)'
    PROVE  /\ Sound(n - 1) /\ ~Rejected /\ Meant[n] \in -Half .. Word - 1
           /\ BitsNow = AsBits(Meant[n])
<1>1. n \in Ids /\ n = Len(stored) + 1 /\ Len(stored) \in Nat
  BY ItemStored
<1>2. \A j \in 1 .. n : Meant[j] \in -Half .. Word - 1 /\ ~OutAt(j)'
  BY ItemKeeps DEF Sound
<1>3. Sound(n - 1)
  <2>1. n - 1 \in 0 .. Len(stored) /\ \A j \in 1 .. n - 1 : j \in 1 .. n /\ j \in 1 .. Len(stored)
    BY <1>1
  <2> QED
    BY <1>2, <2>1, ItemKeeps DEF Sound
<1>4. Meant[n] \in -Half .. Word - 1 /\ ~OutAt(n)'
  BY <1>1, <1>2
<1>5. ~Rejected
  BY <1>4, ItemReported DEF OutOfRange
<1> QED
  BY <1>3, <1>4, <1>5, WordOfItem

\* Numbers are stored as words of what they mean.
LEMMA ItemCounts ==
    ASSUME IInv, JInv, AnalyzeItem
    PROVE  Counting'
<1>0. PICK n \in Nat : n = Len(stored) + 1
  BY ItemStored
<1>1. /\ n = Len(stored) + 1 /\ n = Number /\ n \in Nat /\ Len(stored') = n /\ stored'[n] = BitsNow /\ n \in 1 .. n
      /\ \A i \in 1 .. Len(stored) : stored'[i] = stored[i]
      /\ bits' = NextBits(BitsNow) /\ stored' \in Seq(Bits) /\ Len(stored) \in Nat
  BY <1>0, ItemStored
<1>2. bits' = IF stored' = <<>> THEN 0 ELSE NextBits(stored'[Len(stored')])
  BY <1>1
<1>3. ASSUME NEW i \in 1 .. n, Sound(i)' PROVE stored'[i] = AsBits(Meant[i])
  <2>1. CASE i = n
    BY <1>1, <1>3, <2>1, SoundItem
  <2>2. CASE i \in 1 .. Len(stored)
    BY <1>1, <1>3, <2>2, ItemKeeps DEF JInv, Counting
  <2> QED
    BY <1>1, <2>1, <2>2
<1> QED
  BY <1>1, <1>2, <1>3, ItemKeeps DEF Counting

\* Each double value is reported where it is.
LEMMA ItemReports ==
    ASSUME IInv, JInv, AnalyzeItem
    PROVE  Reporting'
<1>0. PICK n \in Nat : n = Len(stored) + 1
  BY ItemStored
<1>1. /\ n = Len(stored) + 1 /\ n = Number /\ n \in Nat /\ Len(stored') = n /\ stored'[n] = BitsNow /\ n \in 1 .. n
      /\ \A i \in 1 .. Len(stored) : stored'[i] = stored[i]
      /\ Len(stored) \in Nat /\ n \in Ids
  BY <1>0, ItemStored
<1>2. ASSUME NEW code \in {"enum_out_of_range", "duplicate_enum_value"},
             NEW i \in 0 .. Len(enum.items), ReportedAt(code, i)'
      PROVE  i \in 1 .. n
  <2>1. CASE i = n
    BY <1>1, <2>1
  <2>2. CASE i # n
    <3>1. ReportedAt(code, i)
      BY <1>1, <1>2, <2>2, ItemReported
    <3>2. i \in 1 .. Len(stored)
      BY <3>1 DEF JInv, Reporting
    <3> QED
      BY <1>1, <3>2
  <2> QED
    BY <2>1, <2>2
<1>3. ASSUME NEW i \in 1 .. n
      PROVE  ReportedAt("duplicate_enum_value", i)' <=> \E j \in 1 .. i - 1 : stored'[j] = stored'[i]
  <2>1. \A j \in 1 .. i - 1 : j \in 1 .. Len(stored) /\ stored'[j] = stored[j]
    BY <1>1
  <2>2. CASE i = n
    <3>1. Duplicate <=> \E j \in 1 .. i - 1 : stored[j] = BitsNow
      BY <1>1, <2>2 DEF Duplicate
    <3>2. ReportedAt("duplicate_enum_value", n)' <=> Duplicate
      BY <1>1, ItemReported
    <3> QED
      BY <1>1, <2>1, <2>2, <3>1, <3>2
  <2>3. CASE i # n
    <3>1. i \in 1 .. Len(stored) /\ i \in 0 .. Len(enum.items) /\ stored'[i] = stored[i]
      BY <1>1, <2>3 DEF Ids
    <3>2. ReportedAt("duplicate_enum_value", i)' <=> ReportedAt("duplicate_enum_value", i)
      BY <1>1, <2>3, <3>1, ItemReported
    <3> QED
      BY <2>1, <3>1, <3>2 DEF JInv, Reporting
  <2> QED
    BY <2>2, <2>3
<1> QED
  BY <1>1, <1>2, <1>3, ItemKeeps DEF Reporting

\* A minus sign makes the reading signed.
LEMMA ItemSigns ==
    ASSUME IInv, JInv, AnalyzeItem
    PROVE  Signs'
<1>0. PICK n \in Nat : n = Len(stored) + 1
  BY ItemStored
<1>1. n = Len(stored) + 1 /\ n = Number /\ n \in Nat /\ Len(stored') = n /\ Len(stored) \in Nat /\ Item = enum.items[n]
  BY <1>0, ItemStored
<1>2. signed' = SignedNow /\ typed \in BOOLEAN /\ signed \in BOOLEAN
  BY DEF AnalyzeItem, IInv, TypeOK
<1>3. HasSign(n) <=> Item.form = "sint"
  BY <1>1 DEF HasSign
<1>4. CASE typed
  <2>1. signed' = signed /\ typed'
    BY <1>2, <1>4, ItemKeeps DEF SignedNow
  <2> QED
    BY <2>1, <1>4, ItemKeeps DEF JInv, Signs
<1>5. CASE ~typed
  <2>1. signed' <=> signed \/ HasSign(n)
    BY <1>2, <1>3, <1>5 DEF SignedNow
  <2>2. signed <=> \E j \in 1 .. Len(stored) : HasSign(j)
    BY <1>5 DEF JInv, Signs
  <2>3. signed' <=> \E j \in 1 .. n : HasSign(j)
    <3>1. \A j : j \in 1 .. n <=> j \in 1 .. Len(stored) \/ j = n
      BY <1>1
    <3> QED
      BY <2>1, <2>2, <3>1
  <2> QED
    BY <1>1, <1>5, <2>3, ItemKeeps DEF JInv, Signs
<1> QED
  BY <1>2, <1>4, <1>5

\* The range is extended by what the item means.
LEMMA ItemRanges ==
    ASSUME IInv, JInv, AnalyzeItem
    PROVE  Ranging'
<1>0. PICK n \in Nat : n = Len(stored) + 1
  BY ItemStored
<1> DEFINE k == Len(stored)
           v == Meant[n]
<1>1. /\ n = Len(stored) + 1 /\ n = Number /\ n \in Nat /\ Len(stored') = n /\ k \in Nat /\ n \in Ids /\ enum \in Enums
      /\ Item = enum.items[n] /\ SignedNow \in BOOLEAN /\ n - 1 = k
  BY <1>0, ItemStored
<1> SUFFICES ASSUME ~typed, Sound(n)', SignedNow => \A j \in 1 .. n : Meant[j] < Half
             PROVE  RangeIsMeant(low', high', n)
  <2>1. signed' = SignedNow
    BY DEF AnalyzeItem
  <2>2. FitsSign(signed, n)' => (SignedNow => \A j \in 1 .. n : Meant[j] < Half)
    BY <2>1, ItemKeeps DEF FitsSign
  <2>3. RangeIsMeant(low, high, n)' <=> RangeIsMeant(low', high', n)
    BY ItemKeeps DEF RangeIsMeant
  <2>4. Len(stored)' = n
    BY <1>1
  <2>5. Ranging' <=> (~typed' /\ Sound(n)' /\ FitsSign(signed, n)' => RangeIsMeant(low, high, n)')
    BY <2>4 DEF Ranging
  <2> QED
    BY <2>2, <2>3, <2>5, ItemKeeps
<1>2. Sound(k) /\ v \in -Half .. Word - 1 /\ BitsNow = AsBits(v)
  BY <1>1, SoundItem
<1>3. FitsSign(signed, k)
  BY <1>1 DEF FitsSign, SignedNow
<1>4. RangeIsMeant(low, high, k)
  BY <1>2, <1>3 DEF JInv, Ranging
<1>5. \A j : j \in 1 .. n <=> j \in 1 .. k \/ j = n
  BY <1>1
<1>6. /\ low \in -Half .. Half - 1 /\ high \in 0 .. Word - 1
      /\ \A j \in 1 .. k : Meant[j] \in -Half .. Word - 1
  BY <1>2 DEF IInv, TypeOK, Bits, Sound
<1>7. Read(BitsNow, SignedNow) = v /\ (~SignedNow => v >= 0)
  <2>1. CASE SignedNow
    <3>1. v < Half
      BY <1>5, <2>1
    <3> QED
      BY <1>2, <2>1, <3>1, WordsOfValues DEF Read
  <2>2. CASE ~SignedNow
    <3>1. ~HasSign(n) /\ ~signed
      BY <1>1, <2>2 DEF HasSign, SignedNow
    <3>2. \A j \in 1 .. n : ~HasSign(j)
      BY <1>5, <3>1 DEF JInv, Signs
    <3>3. ~(v < 0)
      BY <1>1, <3>2, SignNeeded
    <3>4. v >= 0
      BY <1>2, <3>3, Widths
    <3> QED
      BY <1>2, <2>2, <3>4, WordsOfValues DEF Read
  <2> QED
    BY <2>1, <2>2
<1> HIDE DEF v
<1>8. high' = IF v > high THEN v ELSE high
  BY <1>7 DEF AnalyzeItem, InsertHigh
<1>9. low' = IF v < low /\ (SignedNow \/ low > 0) THEN v ELSE low
  BY <1>7 DEF AnalyzeItem, InsertLow
<1>10. /\ \A j \in 1 .. n : Meant[j] <= high'
       /\ high' = 0 \/ \E j \in 1 .. n : high' = Meant[j]
  <2>1. v <= high' /\ high <= high' /\ high' \in Int
    BY <1>2, <1>6, <1>8, Widths
  <2>2. \A j \in 1 .. k : Meant[j] <= high'
    <3> SUFFICES ASSUME NEW j \in 1 .. k PROVE Meant[j] <= high'
      OBVIOUS
    <3>1. Meant[j] <= high /\ Meant[j] \in Int
      BY <1>4, <1>6, Widths DEF RangeIsMeant
    <3> QED
      BY <2>1, <3>1, <1>6, Widths
  <2>3. high = 0 \/ \E j \in 1 .. k : high = Meant[j]
    BY <1>4 DEF RangeIsMeant
  <2> QED
    BY <1>5, <1>8, <2>1, <2>2, <2>3 DEF v
<1>11. low' < 0 => \E j \in 1 .. n : low' = Meant[j]
  <2>1. low < 0 => \E j \in 1 .. k : low = Meant[j]
    BY <1>4 DEF RangeIsMeant
  <2> QED
    BY <1>5, <1>9, <2>1 DEF v
<1>12. (\E j \in 1 .. n : Meant[j] < 0) => low' < 0
  <2>1. (\E j \in 1 .. k : Meant[j] < 0) => low < 0
    BY <1>4 DEF RangeIsMeant
  <2>2. CASE v < 0
    BY <2>2, <1>2, <1>6, <1>7, <1>9, Widths
  <2>3. CASE ~(v < 0) /\ low < 0
    <3>1. ~(v < low)
      BY <2>3, <1>2, <1>6, Widths
    <3> QED
      BY <2>3, <3>1, <1>9
  <2>4. CASE ~(v < 0) /\ ~(low < 0)
    BY <2>1, <2>4, <1>5 DEF v
  <2> QED
    BY <2>2, <2>3, <2>4
<1> QED
  BY <1>10, <1>11, <1>12 DEF RangeIsMeant

\* Before the first misfit, the values are read as they are meant, and an item is
\* called out of range exactly when it is.
LEMMA ItemOutOfRange ==
    ASSUME IInv, JInv, AnalyzeItem
    PROVE  OutOfRangeSoFar'
<1>0. PICK n \in Nat : n = Len(stored) + 1
  BY ItemStored
<1> DEFINE k == Len(stored)
<1>1. /\ n = Len(stored) + 1 /\ n = Number /\ n \in Nat /\ Len(stored') = n /\ k \in Nat /\ n \in Ids /\ enum \in Enums
      /\ Item = enum.items[n] /\ n - 1 = k
      /\ \A j \in 1 .. k : j \in Ids
  BY <1>0, ItemStored DEF Ids
<1> SUFFICES ASSUME typed, Underlying.checked, NEW i \in 1 .. n,
                    \A j \in 1 .. i - 1 : FitsType(j), CountsInWord(i)
             PROVE  OutAt(i)' <=> ~FitsType(i)
  BY <1>1, ItemKeeps DEF OutOfRangeSoFar
<1>2. CASE i # n
  <2>1. i \in 1 .. Len(stored)
    BY <1>1, <1>2
  <2> QED
    BY <2>1, ItemKeeps DEF JInv, OutOfRangeSoFar
<1>3. CASE i = n
  <2>1. /\ enum.backing.is = "int" /\ signed = Underlying.signed /\ Underlying \in IntTypes
        /\ SignedNow = signed /\ signed \in BOOLEAN
    <3>1. enum.backing.is = "int" /\ signed = Underlying.signed
      BY DEF JInv, Signs
    <3>2. enum.backing \in Backings
      BY <1>1, EnumsAssumption DEF Enum
    <3> QED
      BY <3>1, <3>2 DEF Backings, Underlying, SignedNow, IInv, TypeOK
  <2>2. /\ Underlying.min \in Int /\ Underlying.max \in Int
        /\ signed => Underlying.min >= -Half /\ Underlying.max < Half
        /\ ~signed => Underlying.min >= 0 /\ Underlying.max < Word
    BY <2>1 DEF IntTypes
  <2>3. ASSUME NEW j \in 1 .. k
        PROVE  Meant[j] \in -Half .. Word - 1 /\ ~OutAt(j)
    <3>1. j \in 1 .. i - 1 /\ \A m \in 1 .. j - 1 : m \in 1 .. i - 1
      BY <1>1, <1>3
    <3>2. FitsType(j) /\ \A m \in 1 .. j - 1 : FitsType(m)
      BY <3>1
    <3>3. Meant[j] \in Int
      BY <1>1, WrittenValues
    <3>4. InRange(Meant[j], Underlying.min, Underlying.max)
      BY <3>2 DEF FitsType
    <3>5. /\ signed => Meant[j] \in -Half .. Half - 1
          /\ ~signed => Meant[j] \in 0 .. Word - 1
      <4>1. Meant[j] >= Underlying.min /\ Meant[j] <= Underlying.max
        BY <3>4 DEF InRange
      <4>2. CASE signed
        <5>1. Underlying.min >= -Half /\ Underlying.max < Half
          BY <2>2, <4>2, Zenon
        <5>2. Meant[j] >= -Half /\ Meant[j] <= Half - 1
          BY <2>2, <3>3, <4>1, <5>1, Widths
        <5> QED
          BY <3>3, <4>2, <5>2, Widths
      <4>3. CASE ~signed
        <5>1. Underlying.min >= 0 /\ Underlying.max < Word
          BY <2>2, <4>3, Zenon
        <5>2. Meant[j] >= 0 /\ Meant[j] <= Word - 1
          BY <2>2, <3>3, <4>1, <5>1, Widths
        <5> QED
          BY <3>3, <4>3, <5>2, Widths
      <4> QED
        BY <4>2, <4>3
    <3>6. CountsInWord(j)
      BY <2>1, <3>3, <3>5, Widths DEF CountsInWord, InRange
    <3> QED
      BY <2>1, <3>2, <3>5, <3>6, Widths DEF JInv, OutOfRangeSoFar
  <2>4. Sound(n - 1)
    BY <1>1, <2>3 DEF Sound
  <2>5. OutAt(n)' <=> OutOfRange
    BY <1>1, ItemReported
  <2>6. FitsType(n) <=> InRange(Meant[n], Underlying.min, Underlying.max) /\ (HasSign(n) => signed)
    BY <2>1 DEF FitsType
  <2>7. CASE Rejected
    <3>1. CASE Item.form = "sint" /\ ~signed
      BY <1>1, <1>3, <2>5, <2>6, <2>7, <3>1 DEF OutOfRange, HasSign
    <3>2. CASE Item.form = "uint" /\ signed /\ Item.n > Half - 1
      <4>1. Meant[n] = Item.n /\ Meant[n] \in Int
        BY <1>1, <3>2, WrittenValues
      <4>2. ~InRange(Meant[n], Underlying.min, Underlying.max)
        BY <2>2, <3>2, <4>1, Widths DEF InRange
      <4> QED
        BY <1>3, <2>5, <2>6, <2>7, <4>2 DEF OutOfRange
    <3> QED
      BY <2>7, <3>1, <3>2 DEF Rejected
  <2>8. CASE ~Rejected
    <3>1. /\ signed => Meant[n] \in -Half .. Half - 1
          /\ ~signed => Meant[n] \in 0 .. Word - 1
      <4>1. CASE Item.form = "sint"
        <5>1. Meant[n] \in (1 - Half) .. 0
          BY <1>1, <4>1, WrittenValues, Zenon
        <5>2. signed
          BY <2>8, <4>1, Zenon DEF Rejected
        <5> QED
          BY <5>1, <5>2, Widths
      <4>2. CASE Item.form = "uint"
        <5>1. Meant[n] = Item.n /\ Meant[n] \in 0 .. Word - 1
          BY <1>1, <4>2, WrittenValues, Zenon
        <5>2. signed => ~(Item.n > Half - 1)
          BY <2>8, <4>2, Zenon DEF Rejected
        <5>3. signed => Meant[n] \in -Half .. Half - 1
          BY <5>1, <5>2, Widths
        <5> QED
          BY <5>1, <5>3, Zenon
      <4>3. CASE Item.form \in {"none", "str"}
        BY <1>1, <1>3, <2>1, <4>3, WrittenValues, Widths DEF CountsInWord, InRange
      <4> QED
        BY <1>1, <4>1, <4>2, <4>3, WrittenValues
    <3>2. Meant[n] \in -Half .. Word - 1
      BY <2>1, <3>1, Widths
    <3>3. BitsNow = AsBits(Meant[n])
      BY <1>1, <2>4, <2>8, <3>2, WordOfItem
    <3>4. Read(BitsNow, SignedNow) = Meant[n]
      <4>1. CASE signed
        BY <2>1, <3>1, <3>2, <3>3, <4>1, WordsOfValues, Widths DEF Read
      <4>2. CASE ~signed
        BY <2>1, <3>1, <3>2, <3>3, <4>2, WordsOfValues, Widths DEF Read
      <4> QED
        BY <4>1, <4>2
    <3>5. HasSign(n) => signed
      BY <1>1, <2>8 DEF HasSign, Rejected
    <3> QED
      BY <1>3, <2>5, <2>6, <2>8, <3>4, <3>5 DEF OutOfRange
  <2> QED
    BY <2>7, <2>8
<1> QED
  BY <1>2, <1>3

\* Steps that leave the items, the range and the reports about items alone.
LEMMA OtherStepKeeps ==
    ASSUME IInv, JInv, UNCHANGED <<enum, bits, low, high, stored>>,
           \A code \in {"enum_out_of_range", "duplicate_enum_value"}, i \in 0 .. Len(enum.items) :
              ReportedAt(code, i)' <=> ReportedAt(code, i)
    PROVE  /\ Counting' /\ Reporting' /\ Ids' = Ids /\ Meant' = Meant /\ Underlying' = Underlying
           /\ \A n \in 0 .. Len(stored) : Sound(n)' <=> Sound(n)
           /\ \A i : /\ HasSign(i)' <=> HasSign(i)
                     /\ FitsType(i)' <=> FitsType(i)
                     /\ CountsInWord(i)' <=> CountsInWord(i)
           /\ \A i \in 1 .. Len(stored) : OutAt(i)' <=> OutAt(i)
           /\ Len(stored) \in Nat
<1>1. Ids' = Ids /\ Underlying' = Underlying /\ Meant' = Meant
  BY DEF Ids, Underlying, Meant
<1>2. \A i : /\ HasSign(i)' <=> HasSign(i)
             /\ FitsType(i)' <=> FitsType(i)
             /\ CountsInWord(i)' <=> CountsInWord(i)
  BY <1>1 DEF HasSign, FitsType, CountsInWord
<1>3. Len(stored) \in Nat /\ Len(stored) <= Len(enum.items) /\ Len(enum.items) \in Nat
  BY MeantValues DEF IInv, TypeOK
<1>4. \A i \in 1 .. Len(stored) : OutAt(i)' <=> OutAt(i)
  BY <1>3 DEF OutAt
<1>5. \A n \in 0 .. Len(stored) : Sound(n)' <=> Sound(n)
  <2> SUFFICES ASSUME NEW n \in 0 .. Len(stored) PROVE Sound(n)' <=> Sound(n)
    OBVIOUS
  <2>1. \A j \in 1 .. n : j \in 1 .. Len(stored)
    BY <1>3
  <2> QED
    BY <1>1, <1>4, <2>1 DEF Sound
<1>6. Counting'
  <2>1. \A i \in 1 .. Len(stored) : i \in 0 .. Len(stored)
    BY <1>3
  <2> QED
    BY <1>1, <1>5, <2>1 DEF JInv, Counting
<1>7. Reporting'
  <2>1. \A i \in 1 .. Len(stored) : i \in 0 .. Len(enum.items)
    BY <1>3
  <2> QED
    BY <2>1 DEF JInv, Reporting
<1> QED
  BY <1>1, <1>2, <1>3, <1>4, <1>5, <1>6, <1>7

\* No item is stored yet, and none is reported.
LEMMA InitJInv == Init => JInv
<1> SUFFICES ASSUME Init PROVE JInv
  OBVIOUS
<1>1. /\ stored = <<>> /\ Len(stored) = 0 /\ bits = 0 /\ phase = "begin" /\ ~typed /\ ~signed
      /\ reported = {} /\ low = Half - 1 /\ high = 0
  BY DEF Init
<1>2. Counting /\ Reporting
  BY <1>1 DEF Counting, Reporting, ReportedAt
<1>3. Signs /\ OutOfRangeSoFar /\ ~Analyzed
  BY <1>1 DEF Signs, OutOfRangeSoFar, Analyzed
<1>4. Ranging
  BY <1>1, Widths DEF Ranging, RangeIsMeant
<1> QED
  BY <1>2, <1>3, <1>4 DEF JInv

\* Resolving the backing type decides on the sign, or leaves it to the items.
LEMMA ResolveBackingKeeps ==
    ASSUME IInv, JInv, ResolveBacking
    PROVE  JInv'
<1>1. /\ stored = <<>> /\ Len(stored) = 0 /\ ~typed /\ ~signed
      /\ UNCHANGED <<enum, bits, low, high, stored>> /\ phase' = "items"
  BY DEF ResolveBacking, JInv, Signs
<1>2. ASSUME NEW code \in {"enum_out_of_range", "duplicate_enum_value"}, NEW i \in 0 .. Len(enum.items)
      PROVE  ReportedAt(code, i)' <=> ReportedAt(code, i)
  <2>1. ~ReportedAt(code, i)
    BY <1>1 DEF JInv, Reporting
  <2>2. [code |-> code, at |-> i].code = code
    OBVIOUS
  <2>3. \A r \in reported' : r.code \in {"enum_type_must_be_int", "undeclared_identifier"}
    BY DEF ResolveBacking, Report
  <2>4. ~ReportedAt(code, i)'
    BY <2>2, <2>3 DEF ReportedAt
  <2> QED
    BY <2>1, <2>4
<1>3. Signs'
  <2>1. Underlying' = Underlying /\ enum.backing \in Backings
    BY <1>1, EnumsAssumption DEF Underlying, IInv, TypeOK, Enum
  <2>2. enum.backing.is = "int" => Underlying.signed \in BOOLEAN
    BY <2>1 DEF Backings, Underlying, IntTypes
  <2>3. enum.backing.is = "int" => typed' /\ signed' = Underlying.signed /\ type' = <<Underlying>>
    BY <2>2 DEF ResolveBacking
  <2>4. enum.backing.is # "int" => ~typed' /\ ~signed'
    BY DEF ResolveBacking
  <2> QED
    BY <1>1, <2>1, <2>3, <2>4 DEF Signs, ResolveBacking
<1>4. Ranging'
  <2>1. RangeIsMeant(low, high, 0)
    BY <1>1 DEF JInv, Ranging, Sound, FitsSign
  <2>2. RangeIsMeant(low, high, 0)'
    BY <1>1, <1>2, <2>1, OtherStepKeeps DEF RangeIsMeant
  <2> QED
    BY <1>1, <2>2 DEF Ranging
<1>5. OutOfRangeSoFar' /\ ~Analyzed'
  BY <1>1 DEF OutOfRangeSoFar, Analyzed
<1> QED
  BY <1>1, <1>2, <1>3, <1>4, <1>5, OtherStepKeeps DEF JInv

\* The rest of the invariant, when the sign and the backing type stay as well.
LEMMA QuietStep ==
    ASSUME IInv, JInv, UNCHANGED <<enum, typed, signed, bits, low, high, stored>>,
           phase # "begin" <=> phase' # "begin", typed => type' = type,
           \A code \in {"enum_out_of_range", "duplicate_enum_value"}, i \in 0 .. Len(enum.items) :
              ReportedAt(code, i)' <=> ReportedAt(code, i),
           Analyzed' => Len(stored) = Len(enum.items)
    PROVE  JInv'
<1>1. Signs'
  BY OtherStepKeeps DEF JInv, Signs
<1>2. OutOfRangeSoFar'
  BY OtherStepKeeps DEF JInv, OutOfRangeSoFar
<1>3. Ranging'
  <2> DEFINE k == Len(stored)
  <2>1. FitsSign(signed, k)' <=> FitsSign(signed, k)
    BY OtherStepKeeps DEF FitsSign
  <2>2. RangeIsMeant(low, high, k)' <=> RangeIsMeant(low, high, k)
    BY OtherStepKeeps DEF RangeIsMeant
  <2>3. Sound(k)' <=> Sound(k)
    <3>1. k \in 0 .. k /\ k' = k
      BY OtherStepKeeps
    <3> QED
      BY <3>1, OtherStepKeeps DEF Sound
  <2> QED
    BY <2>1, <2>2, <2>3 DEF JInv, Ranging
<1> QED
  BY <1>1, <1>2, <1>3, OtherStepKeeps DEF JInv

\* An enumeration without items has no item to report.
LEMMA EmptyKeeps ==
    ASSUME IInv, JInv, Empty
    PROVE  JInv'
<1>1. ASSUME NEW code \in {"enum_out_of_range", "duplicate_enum_value"}, NEW i \in 0 .. Len(enum.items)
      PROVE  ReportedAt(code, i)' <=> ReportedAt(code, i)
  <2> DEFINE r == [code |-> code, at |-> i]
  <2>1. r \notin Report("enum_empty", 0)
    BY DEF Report
  <2>2. reported' = reported \union Report("enum_empty", 0)
    BY DEF Empty
  <2>3. (ReportedAt(code, i) <=> r \in reported) /\ (ReportedAt(code, i)' <=> r \in reported')
    BY DEF ReportedAt
  <2> QED
    BY <2>1, <2>2, <2>3
<1>2. ~Analyzed'
  BY DEF Empty, Analyzed
<1> QED
  BY <1>1, <1>2, QuietStep DEF Empty

\* A type is selected when all items are stored.
LEMMA SelectTypeKeeps ==
    ASSUME IInv, JInv, SelectType
    PROVE  JInv'
<1>1. Len(stored) = Len(enum.items)
  BY MeantValues DEF SelectType, Number, IInv, TypeOK
<1>2. ASSUME NEW code \in {"enum_out_of_range", "duplicate_enum_value"}, NEW i \in 0 .. Len(enum.items)
      PROVE  ReportedAt(code, i)' <=> ReportedAt(code, i)
  BY DEF SelectType, ReportedAt
<1> QED
  BY <1>1, <1>2, QuietStep DEF SelectType

\* The items of an enumeration are stored, reported and ranged as they are meant.
THEOREM MeaningInvariance == Spec => [](IInv /\ JInv)
<1>1. IInv /\ IInv' /\ JInv /\ [Next]_vars => JInv'
  <2> SUFFICES ASSUME IInv, JInv, [Next]_vars PROVE JInv'
    OBVIOUS
  <2>1. CASE UNCHANGED vars
    <3>1. UNCHANGED <<enum, phase, typed, signed, bits, low, high, stored, reported, type>>
      BY <2>1 DEF vars
    <3>2. (Analyzed' <=> Analyzed)
          /\ \A code, i : ReportedAt(code, i)' <=> ReportedAt(code, i)
      BY <3>1 DEF Analyzed, ReportedAt
    <3> QED
      BY <3>1, <3>2, QuietStep DEF JInv
  <2>2. CASE AnalyzeItem
    BY <2>2, ItemCounts, ItemReports, ItemSigns, ItemRanges, ItemOutOfRange, ItemKeeps DEF JInv
  <2> QED
    BY <2>1, <2>2, ResolveBackingKeeps, EmptyKeeps, SelectTypeKeeps DEF Next
<1> QED
  BY <1>1, InitIInv, InitJInv, Invariance, PTL DEF Spec

-----------------------------------------------------------------------------
(* What the invariants give.                                               *)

\* The state of an analysis keeps its types (analyze_enum_type).
THEOREM TypeCorrect == Spec => []TypeOK
<1>1. IInv => TypeOK
  BY DEF IInv
<1> QED
  BY <1>1, Invariance, PTL

\* When the values can be expressed and none is out of range, one reading
\* expresses all of them, and every item is stored as the word of its value.
LEMMA AllItemsSound ==
    ASSUME IInv, JInv, Analyzed, Expressible, \A i \in Ids : ~OutAt(i)
    PROVE  /\ Len(stored) = Len(enum.items) /\ Len(stored) \in Nat /\ enum \in Enums
           /\ typed = (enum.backing.is = "int") /\ typed \in BOOLEAN
           /\ Sound(Len(stored))
           /\ \A i \in Ids : stored[i] = AsBits(Meant[i]) /\ Meant[i] \in -Half .. Word - 1
           /\ \/ \A i \in Ids : Meant[i] \in -Half .. Half - 1
              \/ (\A i \in Ids : Meant[i] \in 0 .. Word - 1) /\ (~typed => ~signed)
           /\ typed => IF Underlying.signed THEN \A i \in Ids : Meant[i] \in -Half .. Half - 1
                       ELSE \A i \in Ids : Meant[i] \in 0 .. Word - 1
<1>1. /\ Len(stored) = Len(enum.items) /\ Len(stored) \in Nat /\ enum \in Enums
      /\ typed = (enum.backing.is = "int") /\ typed \in BOOLEAN /\ phase = "done"
  BY MeantValues DEF IInv, TypeOK, JInv, Signs, Analyzed
<1>2. /\ MeantIn(-Half, Half - 1) => \A i \in Ids : Meant[i] \in -Half .. Half - 1
      /\ MeantIn(0, Word - 1) => \A i \in Ids : Meant[i] \in 0 .. Word - 1
  BY <1>1, WrittenValues, Widths DEF MeantIn, InRange
<1>3. CASE enum.backing.is = "int"
  <2>1. Underlying.signed \in BOOLEAN
    BY <1>1, <1>3, EnumsAssumption DEF Enum, Backings, Underlying, IntTypes
  <2>2. IF Underlying.signed THEN MeantIn(-Half, Half - 1) ELSE MeantIn(0, Word - 1)
    BY <1>3, <2>1 DEF Expressible
  <2>3. \A i \in Ids : Meant[i] \in -Half .. Word - 1
    BY <1>2, <2>1, <2>2, Widths
  <2>4. Sound(Len(stored))
    BY <1>1, <2>3 DEF Sound, Ids
  <2>5. \A i \in Ids : Sound(i)
    BY <1>1, <2>4 DEF Sound, Ids
  <2>6. \A i \in Ids : stored[i] = AsBits(Meant[i])
    BY <1>1, <2>5 DEF JInv, Counting, Ids
  <2> QED
    BY <1>1, <1>2, <1>3, <2>1, <2>2, <2>3, <2>4, <2>6
<1>4. CASE enum.backing.is # "int"
  <2>1. \/ MeantIn(-Half, Half - 1)
        \/ MeantIn(0, Word - 1) /\ \A i \in Ids : ~HasSign(i)
    BY <1>4 DEF Expressible
  <2>2. \A i \in Ids : Meant[i] \in -Half .. Word - 1
    BY <1>2, <2>1, Widths
  <2>3. Sound(Len(stored))
    BY <1>1, <2>2 DEF Sound, Ids
  <2>4. \A i \in Ids : Sound(i)
    BY <1>1, <2>3 DEF Sound, Ids
  <2>5. \A i \in Ids : stored[i] = AsBits(Meant[i])
    BY <1>1, <2>4 DEF JInv, Counting, Ids
  <2>6. (\A i \in Ids : ~HasSign(i)) => ~signed
    BY <1>1, <1>4 DEF JInv, Signs, Ids
  <2> QED
    BY <1>1, <1>2, <1>4, <2>1, <2>2, <2>3, <2>5, <2>6
<1> QED
  BY <1>3, <1>4

\* A selected type is signed when a value is negative, and only then.
LEMMA SelectedSign ==
    ASSUME IInv, JInv, Analyzed, Expressible, \A i \in Ids : ~OutAt(i), ~typed
    PROVE  /\ RangeIsMeant(low, high, Len(stored)) /\ type = <<Selected>>
           /\ low < 0 <=> \E i \in Ids : Meant[i] < 0
           /\ low < 0 => \A i \in Ids : Meant[i] \in -Half .. Half - 1
           /\ ~(low < 0) => \A i \in Ids : Meant[i] \in 0 .. Word - 1
<1>1. /\ Sound(Len(stored)) /\ Ids = 1 .. Len(stored) /\ Half \in Nat /\ Word = 2 * Half
      /\ \A i \in Ids : Meant[i] \in -Half .. Word - 1
      /\ \/ \A i \in Ids : Meant[i] \in -Half .. Half - 1
         \/ (\A i \in Ids : Meant[i] \in 0 .. Word - 1) /\ ~signed
  BY AllItemsSound, Widths DEF Ids
<1>2. FitsSign(signed, Len(stored))
  BY <1>1 DEF FitsSign
<1>3. RangeIsMeant(low, high, Len(stored))
  BY <1>1, <1>2 DEF JInv, Ranging
<1>4. low < 0 <=> \E i \in Ids : Meant[i] < 0
  BY <1>1, <1>3 DEF RangeIsMeant
<1>5. low < 0 => \A i \in Ids : Meant[i] \in -Half .. Half - 1
  BY <1>1, <1>4
<1>6. ~(low < 0) => \A i \in Ids : Meant[i] \in 0 .. Word - 1
  BY <1>1, <1>4
<1> QED
  BY <1>3, <1>4, <1>5, <1>6 DEF IInv

\* Read as its type says, the word of an item is what the item means.
LEMMA ReadAsMeant ==
    ASSUME IInv, JInv, Analyzed, Expressible, \A i \in Ids : ~OutAt(i), NEW i \in Ids
    PROVE  Read(stored[i], type[1].signed) = Meant[i]
<1>1. stored[i] = AsBits(Meant[i]) /\ Meant[i] \in -Half .. Word - 1 /\ typed \in BOOLEAN
  BY AllItemsSound
<1>2. /\ type[1].signed \in BOOLEAN
      /\ type[1].signed => Meant[i] \in -Half .. Half - 1
      /\ ~type[1].signed => Meant[i] \in 0 .. Word - 1
  <2>1. CASE typed
    <3>1. type[1] = Underlying /\ enum.backing.is = "int"
      BY <2>1 DEF JInv, Signs
    <3>2. Underlying.signed \in BOOLEAN
      BY <3>1, EnumsAssumption DEF Enum, Backings, Underlying, IntTypes, IInv, TypeOK
    <3> QED
      BY <2>1, <3>1, <3>2, AllItemsSound
  <2>2. CASE ~typed
    <3>1. type[1] = Selected
      BY <2>2, SelectedSign
    <3>2. Selected.signed \in BOOLEAN /\ (Selected.signed <=> low < 0)
      BY FirstFits, FixedIsType DEF Selected
    <3> QED
      BY <2>2, <3>1, <3>2, SelectedSign
  <2> QED
    BY <1>1, <2>1, <2>2
<1>3. CASE type[1].signed
  <2>1. Meant[i] < Half
    BY <1>2, <1>3, Widths
  <2> QED
    BY <1>1, <1>3, <2>1, WordsOfValues DEF Read
<1>4. CASE ~type[1].signed
  <2>1. Meant[i] >= 0
    BY <1>2, <1>4, Widths
  <2> QED
    BY <1>1, <1>4, <2>1, WordsOfValues DEF Read
<1> QED
  BY <1>2, <1>3, <1>4

\* An enumeration without errors is printed with the values its text means
\* (analyze_enum_type, and the back ends that print by value_is_signed).
THEOREM EnumPrintedAsMeant == Spec => []PrintedAsMeant
<1>1. IInv /\ JInv => PrintedAsMeant
  BY ReadAsMeant DEF PrintedAsMeant, OutAt, ReportedAt
<1> QED
  BY <1>1, MeaningInvariance, PTL

\* The integer selected for an enumeration holds all values, and no smaller one
\* of its signedness does.
THEOREM SmallestSelected == Spec => []SelectedTypeIsSmallest
<1>1. ASSUME IInv, JInv, Analyzed, ~typed, Expressible, \A i \in Ids : ~OutAt(i)
      PROVE  /\ MeantIn(type[1].min, type[1].max)
             /\ type[1].signed = ~MeantIn(0, Word - 1)
             /\ \A k \in 1 .. 4 : LET other == Fixed(k, type[1].signed)
                   IN  other.max < type[1].max => ~MeantIn(other.min, other.max)
  <2>1. /\ RangeIsMeant(low, high, Len(stored)) /\ type[1] = Selected
        /\ low < 0 <=> \E i \in Ids : Meant[i] < 0
        /\ low < 0 => \A i \in Ids : Meant[i] \in -Half .. Half - 1
        /\ ~(low < 0) => \A i \in Ids : Meant[i] \in 0 .. Word - 1
        /\ Ids = 1 .. Len(stored) /\ low \in Int /\ high \in Int
    <3>1. /\ RangeIsMeant(low, high, Len(stored)) /\ type = <<Selected>>
          /\ low < 0 <=> \E i \in Ids : Meant[i] < 0
          /\ low < 0 => \A i \in Ids : Meant[i] \in -Half .. Half - 1
          /\ ~(low < 0) => \A i \in Ids : Meant[i] \in 0 .. Word - 1
      BY <1>1, SelectedSign, Zenon
    <3>2. Ids = 1 .. Len(stored)
      BY <1>1, AllItemsSound, Zenon DEF Ids
    <3>3. low \in Int /\ high \in Int
      BY <1>1, Widths DEF IInv, TypeOK, Bits
    <3>4. type[1] = Selected
      BY <3>1
    <3> QED
      BY <3>1, <3>2, <3>3, <3>4, Zenon
  <2>2. low < 0 => high < Half
    <3> SUFFICES ASSUME low < 0 PROVE high < Half
      OBVIOUS
    <3>1. CASE high = 0
      BY <3>1, Widths
    <3>2. CASE \E j \in Ids : high = Meant[j]
      BY <2>1, <3>2, Widths
    <3> QED
      BY <2>1, <3>1, <3>2 DEF RangeIsMeant
  <2>3. MeantIn(type[1].min, type[1].max)
    <3>1. \A i \in Ids : InRange(Read(stored[i], type[1].signed), type[1].min, type[1].max)
      BY <1>1, <2>1, <2>2, TruncatesNothing DEF NothingTruncated
    <3>2. \A i \in Ids : Read(stored[i], type[1].signed) = Meant[i]
      BY <1>1, ReadAsMeant
    <3> QED
      BY <3>1, <3>2 DEF MeantIn
  <2>4. PICK f \in 1 .. 4 : f = FirstFit /\ \A j \in 1 .. f - 1 : ~Fits(j)
    BY FirstFits
  <2>5. /\ Selected.signed \in BOOLEAN /\ (Selected.signed <=> low < 0)
        /\ Selected = Fixed(f, Selected.signed)
        /\ low < 0 => Selected = Fixed(f, TRUE) /\ Selected.signed = TRUE
        /\ ~(low < 0) => Selected = Fixed(f, FALSE) /\ Selected.signed = FALSE
    <3>1. CASE low < 0
      <4>1. Selected = Fixed(f, TRUE) /\ Selected.signed = TRUE
        BY <2>4, <3>1, FixedIsType DEF Selected
      <4> QED
        BY <3>1, <4>1
    <3>2. CASE ~(low < 0)
      <4>1. Selected = Fixed(f, FALSE) /\ Selected.signed = FALSE
        BY <2>4, <3>2, FixedIsType DEF Selected
      <4> QED
        BY <3>2, <4>1
    <3> QED
      BY <3>1, <3>2
  <2>6. type[1].signed = ~MeantIn(0, Word - 1)
    <3>1. CASE low < 0
      <4>1. ~MeantIn(0, Word - 1)
        BY <2>1, <3>1, Widths DEF MeantIn, InRange
      <4> QED
        BY <2>1, <2>5, <3>1, <4>1
    <3>2. CASE ~(low < 0)
      <4>1. MeantIn(0, Word - 1)
        BY <2>1, <3>2, Widths DEF MeantIn, InRange
      <4> QED
        BY <2>1, <2>5, <3>2, <4>1
    <3> QED
      BY <3>1, <3>2
  <2>7. ASSUME NEW k \in 1 .. 4, Fixed(k, type[1].signed).max < type[1].max
        PROVE  ~MeantIn(Fixed(k, type[1].signed).min, Fixed(k, type[1].signed).max)
    <3>1. /\ Halves[k] \in Nat \ {0} /\ Halves[f] \in Nat \ {0}
          /\ \A i, j \in 1 .. 4 : i <= j => Halves[i] <= Halves[j]
      BY Widths
    <3>2. k < f
      <4>1. Halves[k] < Halves[f]
        <5>1. CASE low < 0
          <6>1. type[1] = Fixed(f, TRUE) /\ type[1].signed = TRUE
            BY <2>1, <2>5, <5>1
          <6>2. Fixed(k, TRUE).max < Fixed(f, TRUE).max
            BY <2>7, <6>1
          <6>3. Fixed(k, TRUE).max = Halves[k] - 1 /\ Fixed(f, TRUE).max = Halves[f] - 1
            BY FixedIsType
          <6>4. Halves[k] - 1 < Halves[f] - 1
            BY <6>2, <6>3
          <6>5. Halves[k] \in Nat /\ Halves[f] \in Nat
            BY <3>1
          <6> QED
            BY <6>4, <6>5
        <5>2. CASE ~(low < 0)
          <6>1. type[1] = Fixed(f, FALSE) /\ type[1].signed = FALSE
            BY <2>1, <2>5, <5>2
          <6>2. Fixed(k, FALSE).max < Fixed(f, FALSE).max
            BY <2>7, <6>1
          <6>3. Fixed(k, FALSE).max = 2 * Halves[k] - 1 /\ Fixed(f, FALSE).max = 2 * Halves[f] - 1
            BY FixedIsType
          <6>4. 2 * Halves[k] - 1 < 2 * Halves[f] - 1
            BY <6>2, <6>3
          <6>5. Halves[k] \in Nat /\ Halves[f] \in Nat
            BY <3>1
          <6> QED
            BY <6>4, <6>5
        <5> QED
          BY <5>1, <5>2
      <4> QED
        BY <3>1, <4>1
    <3>3. ~Fits(k)
      BY <2>4, <3>2
    <3>4. CASE low < 0
      <4>1. /\ Fixed(k, type[1].signed).min = -Halves[k]
            /\ Fixed(k, type[1].signed).max = Halves[k] - 1
        BY <2>1, <2>5, <3>4, FixedIsType
      <4>2. CASE low < -Halves[k]
        <5>1. PICK i \in Ids : low = Meant[i]
          BY <2>1, <3>4 DEF RangeIsMeant
        <5>2. ~(Meant[i] >= -Halves[k])
          BY <2>1, <3>1, <4>2, <5>1
        <5> QED
          BY <4>1, <5>2 DEF MeantIn, InRange
      <4>3. CASE high > Halves[k] - 1
        <5>1. high # 0
          BY <3>1, <4>3
        <5>2. PICK i \in Ids : high = Meant[i]
          BY <2>1, <5>1 DEF RangeIsMeant
        <5>3. ~(Meant[i] <= Halves[k] - 1)
          BY <2>1, <3>1, <4>3, <5>2
        <5> QED
          BY <4>1, <5>3 DEF MeantIn, InRange
      <4> QED
        BY <2>1, <3>1, <3>3, <3>4, <4>2, <4>3 DEF Fits
    <3>5. CASE ~(low < 0)
      <4>1. Fixed(k, type[1].signed).max = 2 * Halves[k] - 1
        BY <2>1, <2>5, <3>5, FixedIsType
      <4>2. high > 2 * Halves[k] - 1
        BY <2>1, <3>1, <3>3, <3>5 DEF Fits
      <4>3. high # 0
        BY <3>1, <4>2
      <4>4. PICK i \in Ids : high = Meant[i]
        BY <2>1, <4>3 DEF RangeIsMeant
      <4>5. ~(Meant[i] <= 2 * Halves[k] - 1)
        BY <2>1, <3>1, <4>2, <4>4
      <4> QED
        BY <4>1, <4>5 DEF MeantIn, InRange
    <3> QED
      BY <3>4, <3>5
  <2> QED
    BY <2>3, <2>6, <2>7
<1>2. IInv /\ JInv => SelectedTypeIsSmallest
  BY <1>1 DEF SelectedTypeIsSmallest, OutAt
<1> QED
  BY <1>2, MeaningInvariance, PTL

\* Values out of range and values that occur twice are reported exactly where
\* they are.
THEOREM EnumErrorsAreRight == Spec => []ErrorsAreRight
<1>1. ASSUME IInv, JInv PROVE OutOfRangeIsRight
  BY <1>1 DEF OutOfRangeIsRight, OutOfRangeSoFar, JInv, Ids, OutAt
<1>2. ASSUME IInv, JInv PROVE DuplicatesAreRight
  <2> SUFFICES ASSUME Analyzed, Expressible, \A i \in Ids : ~OutAt(i), NEW i \in Ids
               PROVE  ReportedAt("duplicate_enum_value", i) <=> \E j \in 1 .. i - 1 : Meant[j] = Meant[i]
    BY DEF DuplicatesAreRight, OutAt
  <2>1. /\ Ids = 1 .. Len(stored) /\ Len(stored) \in Nat
        /\ \A j \in Ids : stored[j] = AsBits(Meant[j]) /\ Meant[j] \in Int
        /\ \/ \A j \in Ids : Meant[j] \in -Half .. Half - 1
           \/ \A j \in Ids : Meant[j] \in 0 .. Word - 1
    BY <1>2, AllItemsSound, WrittenValues DEF Ids
  <2>2. \A j \in 1 .. i - 1 : j \in Ids
    BY <2>1
  <2>3. \A j \in 1 .. i - 1 : stored[j] = stored[i] <=> Meant[j] = Meant[i]
    <3> SUFFICES ASSUME NEW j \in 1 .. i - 1 PROVE stored[j] = stored[i] <=> Meant[j] = Meant[i]
      OBVIOUS
    <3>1. AsBits(Meant[j]) = AsBits(Meant[i]) <=> Meant[j] = Meant[i]
      BY <2>1, <2>2, WordsDiffer
    <3> QED
      BY <2>1, <2>2, <3>1
  <2> QED
    BY <1>2, <2>1, <2>3 DEF JInv, Reporting
<1>3. IInv /\ JInv => ErrorsAreRight
  BY <1>1, <1>2 DEF ErrorsAreRight
<1> QED
  BY <1>3, MeaningInvariance, PTL
=============================================================================
