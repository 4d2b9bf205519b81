---------------------------- MODULE ProgramProofs ----------------------------
(***************************************************************************)
(* Proofs about Program and Diagnostics for every command line, every list *)
(* of diagnostics and every expectation of a test: the linked list is a    *)
(* bag of codes, the verdict on a test is right, the scan of the command   *)
(* line reads what is accepted as it is written, and the output is whole   *)
(* or untouched.                                                           *)
(***************************************************************************)
EXTENDS Program, FiniteSetTheorems, WellFoundedInduction, TLAPS

\* Induction over the natural numbers, for a set of them.
LEMMA Induction ==
    ASSUME NEW S, 0 \in S, \A n \in Nat : n \in S => n + 1 \in S
    PROVE  \A n \in Nat : n \in S
<1> SUFFICES ASSUME Nat \ S # {} PROVE FALSE
  OBVIOUS
<1> DEFINE Less == {ss \in Nat \X Nat : ss[1] < ss[2]}
<1>1. IsWellFoundedOn(Less, Nat)
  BY NatLessThanWellFounded DEF OpToRel
<1>2. PICK x \in Nat \ S : \A y \in Nat \ S : ~(<<y, x>> \in Less)
  <2>1. Nat \ S \subseteq Nat
    OBVIOUS
  <2> QED
    BY <1>1, <2>1, WFMin
<1>3. \A y \in Nat \ S : ~(y < x)
  BY <1>2
<1>4. x # 0 /\ x - 1 \in Nat
  BY <1>2
<1>5. x - 1 \in S
  BY <1>3, <1>4
<1> QED
  BY <1>2, <1>4, <1>5

-----------------------------------------------------------------------------
(* The linked list.                                                        *)

\* The nodes of a list are those a chain of links to older nodes passes through.
LEMMA LinkedNodes ==
    ASSUME NEW k \in Nat, NEW links, NEW head, NEW L \in SUBSET (1 .. k),
           \A n \in 1 .. k : links[n] \in Nat /\ links[n] < n,
           head \in L \union {0},
           \A n \in L : n <= head,
           \A n \in L : links[n] \in L \union {0},
           \A n, m \in L : m < n => m <= links[n]
    PROVE  (LET from[n \in 0 .. k] == IF n = 0 THEN {} ELSE {n} \union from[links[n]]
            IN  from[head]) = L
<1> DEFINE Step(f, n) == IF n = 0 THEN {} ELSE {n} \union f[links[n]]
           Upto(f, m) == \A n \in 0 .. k : n <= m => f[n] = Step(f, n)
           S == {m \in Nat : \E f : f = [n \in 0 .. k |-> f[n]] /\ Upto(f, m)}
           F == CHOOSE f : f = [n \in 0 .. k |-> Step(f, n)]
           T == {m \in Nat : \A n \in L \union {0} : n <= m => F[n] = {x \in L : x <= n}}
<1>0. \A n \in 1 .. k : links[n] \in 0 .. k /\ links[n] <= n - 1
  OBVIOUS
<1>00. \A x \in L : x \in Nat /\ x >= 1 /\ x <= k
  OBVIOUS
<1>1. 0 \in S
  <2> DEFINE f == [n \in 0 .. k |-> {}]
  <2>1. f = [n \in 0 .. k |-> f[n]]
    OBVIOUS
  <2>2. Upto(f, 0)
    OBVIOUS
  <2> HIDE DEF f, Upto
  <2> QED
    BY <2>1, <2>2
<1>2. ASSUME NEW m \in Nat, m \in S PROVE m + 1 \in S
  <2>1. PICK f : f = [n \in 0 .. k |-> f[n]] /\ Upto(f, m)
    BY <1>2
  <2> DEFINE g == [n \in 0 .. k |-> Step(f, n)]
  <2>2. g = [n \in 0 .. k |-> g[n]]
    OBVIOUS
  <2>3. \A n \in 0 .. k : n <= m => f[n] = g[n]
    BY <2>1
  <2>4. Upto(g, m + 1)
    <3> SUFFICES ASSUME NEW n \in 0 .. k, n <= m + 1 PROVE g[n] = Step(g, n)
      OBVIOUS
    <3>1. g[n] = Step(f, n)
      OBVIOUS
    <3> HIDE DEF g
    <3>2. CASE n = 0
      BY <3>1, <3>2
    <3>3. CASE n # 0
      <4>1. n \in 1 .. k
        BY <3>3
      <4>2. links[n] \in 0 .. k /\ links[n] <= m
        BY <1>0, <4>1
      <4> QED
        BY <2>3, <3>1, <3>3, <4>2
    <3> QED
      BY <3>2, <3>3
  <2> HIDE DEF g, Upto
  <2> QED
    BY <2>2, <2>4
<1>3. k \in S
  <2> HIDE DEF S
  <2> QED
    BY <1>1, <1>2, Induction
<1>4. PICK f : f = [n \in 0 .. k |-> f[n]] /\ Upto(f, k)
  BY <1>3
<1>5. f = [n \in 0 .. k |-> Step(f, n)]
  <2>1. \A n \in 0 .. k : f[n] = Step(f, n)
    BY <1>4
  <2> HIDE DEF Step
  <2> QED
    BY <1>4, <2>1
<1>6. F = [n \in 0 .. k |-> Step(F, n)]
  BY <1>5
<1> HIDE DEF F
<1>7. \A n \in 0 .. k : F[n] = Step(F, n)
  BY <1>6
<1>8. 0 \in T
  <2>1. F[0] = {}
    <3>1. 0 \in 0 .. k
      OBVIOUS
    <3> QED
      BY <1>7, <3>1
  <2>2. \A n \in L \union {0} : n <= 0 => n = 0
    OBVIOUS
  <2>3. {x \in L : x <= 0} = {}
    <3>1. \A x \in L : ~(x <= 0)
      BY <1>00
    <3> QED
      BY <3>1, Zenon
  <2> QED
    BY <2>1, <2>2, <2>3
<1>9. ASSUME NEW m \in Nat, m \in T PROVE m + 1 \in T
  <2> SUFFICES ASSUME NEW n \in L \union {0}, n <= m + 1 PROVE F[n] = {x \in L : x <= n}
    OBVIOUS
  <2>1. CASE n = 0
    <3>1. 0 <= m
      OBVIOUS
    <3> QED
      BY <1>9, <2>1, <3>1
  <2>2. CASE n # 0
    <3>1. n \in L /\ n \in 1 .. k /\ n \in 0 .. k
      BY <2>2
    <3>2. links[n] \in L \union {0} /\ links[n] <= m /\ links[n] < n
      BY <1>0, <3>1
    <3>3. F[links[n]] = {x \in L : x <= links[n]}
      BY <1>9, <3>2
    <3>4. F[n] = {n} \union {x \in L : x <= links[n]}
      BY <1>7, <2>2, <3>1, <3>3
    <3>5. \A x \in L : x <= n <=> x = n \/ x <= links[n]
      BY <3>1, <3>2
    <3> QED
      BY <3>1, <3>4, <3>5
  <2> QED
    BY <2>1, <2>2
<1>10. k \in T
  <2> HIDE DEF T
  <2> QED
    BY <1>8, <1>9, Induction
<1>11. head <= k /\ {x \in L : x <= head} = L
  <2>1. head <= k
    BY <1>00
  <2>2. {x \in L : x <= head} = L
    BY Zenon
  <2> QED
    BY <2>1, <2>2
<1>12. F[head] = L
  BY <1>10, <1>11
<1> QED
  BY <1>12 DEF F

\* The members of a list, in the order of its links: every link leads to the
\* next older member.
IsChain(L) ==
    /\ L \subseteq 1 .. Len(codes)
    /\ items \in L \union {0}
    /\ \A n \in L : n <= items
    /\ \A n \in L : next[n] \in L \union {0}
    /\ \A n, m \in L : m < n => m <= next[n]

\* The search for an expected code has passed the newer nodes in vain, and keeps
\* hold of the node that leads to the one at hand.
SearchIsRight ==
    phase = "search" =>
        /\ index \in 1 .. Len(expected)
        /\ iter \in Linked \union {0}
        /\ \A n \in Linked : n > iter => codes[n] # expected[index]
        /\ previous = 0 => iter = items
        /\ previous # 0 => previous \in Linked /\ next[previous] = iter

\* Nothing is taken out of the list before all diagnostics are in it.
EmitIsRight ==
    phase = "emit" =>
        /\ Linked = 1 .. Len(codes)
        /\ index = 1 /\ met = TRUE /\ result = EXIT_SUCCESS

\* What is left of the emitted codes when those at hand so far are taken out.
LeftOf(code) ==
    IF Asked(code, index - 1) <= Emitted(code)
    THEN Emitted(code) - Asked(code, index - 1) ELSE 0

ListIsCounted ==
    phase \in {"compare", "search"} =>
        /\ \A c \in Codes : InList(c) = LeftOf(c)
        /\ met = TRUE <=> \A c \in Codes : Asked(c, index - 1) <= Emitted(c)

\* The inductive invariant of the list and of the test runner.
ListInv ==
    /\ TypeOK
    /\ IsChain(Linked)
    /\ SearchIsRight
    /\ EmitIsRight
    /\ ListIsCounted
    /\ VerdictIsRight

\* The list is the chain there is.
LEMMA LinkedChain ==
    ASSUME TypeOK, NEW L, IsChain(L)
    PROVE  Linked = L
<1>1. /\ Len(codes) \in Nat
      /\ \A n \in 1 .. Len(codes) : next[n] \in Nat /\ next[n] < n
  BY DEF TypeOK
<1>2. /\ L \in SUBSET (1 .. Len(codes)) /\ items \in L \union {0}
      /\ \A n \in L : n <= items
      /\ \A n \in L : next[n] \in L \union {0}
      /\ \A n, m \in L : m < n => m <= next[n]
  BY DEF IsChain
<1>3. (LET from[n \in 0 .. Len(codes)] == IF n = 0 THEN {} ELSE {n} \union from[next[n]]
       IN  from[items]) = L
  BY <1>1, <1>2, LinkedNodes
<1> QED
  BY <1>3 DEF Linked, Nodes

\* The same after a step.
LEMMA LinkedChainNext ==
    ASSUME TypeOK', NEW L, IsChain(L)'
    PROVE  Linked' = L
<1>1. /\ Len(codes') \in Nat
      /\ \A n \in 1 .. Len(codes') : next'[n] \in Nat /\ next'[n] < n
  BY DEF TypeOK
<1>2. /\ L \in SUBSET (1 .. Len(codes')) /\ items' \in L \union {0}
      /\ \A n \in L : n <= items'
      /\ \A n \in L : next'[n] \in L \union {0}
      /\ \A n, m \in L : m < n => m <= next'[n]
  BY DEF IsChain
<1>3. (LET from[n \in 0 .. Len(codes')] == IF n = 0 THEN {} ELSE {n} \union from[next'[n]]
       IN  from[items']) = L
  BY <1>1, <1>2, LinkedNodes
<1> QED
  BY <1>3 DEF Linked, Nodes

\* A list nobody touches stays the list it is.
LEMMA SameList ==
    ASSUME TypeOK, TypeOK', IsChain(Linked), UNCHANGED <<codes, next, items>>
    PROVE  /\ Linked' = Linked /\ IsChain(Linked)'
           /\ \A c : InList(c)' = InList(c)
           /\ \A c : Emitted(c)' = Emitted(c)
<1>1. PICK L : L = Linked
  OBVIOUS
<1>2. IsChain(L)
  BY <1>1
<1>3. IsChain(L)'
  BY <1>2 DEF IsChain
<1>4. Linked' = L
  BY <1>3, LinkedChainNext
<1> QED
  BY <1>1, <1>3, <1>4 DEF InList, Emitted, IsChain

-----------------------------------------------------------------------------
(* Counting.                                                               *)

\* The counts are numbers, and those of the expectations grow by one at a time.
LEMMA Counts ==
    ASSUME TypeOK, IsChain(Linked)
    PROVE  /\ \A c : Emitted(c) \in Nat /\ InList(c) \in Nat
           /\ \A c : \A n \in 0 .. Len(expected) : Asked(c, n) \in Nat
           /\ \A c : Asked(c, 0) = 0
           /\ \A c : \A n \in 1 .. Len(expected) :
                 Asked(c, n) = IF expected[n] = c THEN Asked(c, n - 1) + 1 ELSE Asked(c, n - 1)
           /\ \A n \in Linked : codes[n] \in Codes
           /\ \A c : InList(c) = 0 <=> \A n \in Linked : codes[n] # c
<1>0. Len(codes) \in Nat /\ Len(expected) \in Nat
  BY DEF TypeOK
<1>1. \A k \in Nat : IsFiniteSet(1 .. k)
  BY FS_Interval
<1>2. IsFiniteSet(Linked)
  BY <1>0, <1>1, FS_Subset DEF IsChain
<1>3. ASSUME NEW c PROVE IsFiniteSet({n \in Linked : codes[n] = c}) /\ InList(c) \in Nat
  <2>1. {n \in Linked : codes[n] = c} \subseteq Linked
    OBVIOUS
  <2> QED
    BY <1>2, <2>1, FS_Subset, FS_CardinalityType DEF InList
<1>4. ASSUME NEW c PROVE Emitted(c) \in Nat
  <2>1. {n \in 1 .. Len(codes) : codes[n] = c} \subseteq 1 .. Len(codes)
    OBVIOUS
  <2> QED
    BY <1>0, <1>1, <2>1, FS_Subset, FS_CardinalityType DEF Emitted
<1>5. ASSUME NEW c, NEW n \in 0 .. Len(expected)
      PROVE  IsFiniteSet({i \in 1 .. n : expected[i] = c}) /\ Asked(c, n) \in Nat
  <2>1. {i \in 1 .. n : expected[i] = c} \subseteq 1 .. n /\ n \in Nat
    OBVIOUS
  <2> QED
    BY <1>1, <2>1, FS_Subset, FS_CardinalityType DEF Asked
<1>6. ASSUME NEW c PROVE Asked(c, 0) = 0
  <2>1. {i \in 1 .. 0 : expected[i] = c} = {}
    OBVIOUS
  <2> QED
    BY <2>1, FS_EmptySet DEF Asked
<1>7. ASSUME NEW c, NEW n \in 1 .. Len(expected)
      PROVE  Asked(c, n) = IF expected[n] = c THEN Asked(c, n - 1) + 1 ELSE Asked(c, n - 1)
  <2> DEFINE before == {i \in 1 .. n - 1 : expected[i] = c}
             upto   == {i \in 1 .. n : expected[i] = c}
  <2>1. IsFiniteSet(before) /\ n \notin before
    <3>1. PICK m \in 0 .. Len(expected) : m = n - 1
      BY <1>0
    <3>2. IsFiniteSet({i \in 1 .. m : expected[i] = c})
      BY <1>5
    <3>3. n \notin 1 .. n - 1
      BY <1>0
    <3> QED
      BY <3>1, <3>2, <3>3
  <2>2. \A i : i \in 1 .. n <=> i \in 1 .. n - 1 \/ i = n
    BY <1>0
  <2>3. CASE expected[n] = c
    <3>1. upto = before \union {n}
      BY <2>2, <2>3
    <3> QED
      BY <2>1, <2>3, <3>1, FS_AddElement DEF Asked
  <2>4. CASE expected[n] # c
    <3>1. upto = before
      BY <2>2, <2>4
    <3> QED
      BY <2>4, <3>1 DEF Asked
  <2> QED
    BY <2>3, <2>4
<1>8. \A n \in Linked : codes[n] \in Codes
  BY DEF TypeOK, IsChain
<1>9. ASSUME NEW c PROVE InList(c) = 0 <=> \A n \in Linked : codes[n] # c
  <2>1. InList(c) = 0 <=> {n \in Linked : codes[n] = c} = {}
    BY <1>3, FS_EmptySet DEF InList
  <2> QED
    BY <2>1
<1> QED
  BY <1>3, <1>4, <1>5, <1>6, <1>7, <1>8, <1>9

-----------------------------------------------------------------------------
(* The steps of the list and of the test runner.                           *)

\* A step that leaves the list as it is.
LEMMA ListKept ==
    ASSUME ListInv, TypeOK', UNCHANGED <<expected, list>>,
           SearchIsRight', EmitIsRight', ListIsCounted', VerdictIsRight'
    PROVE  ListInv'
BY SameList DEF ListInv, list

\* What is counted depends on the list, the expectations and the place in them.
LEMMA SameCounts ==
    ASSUME ListInv, TypeOK', UNCHANGED <<expected, list>>
    PROVE  /\ Linked' = Linked
           /\ \A c : InList(c)' = InList(c) /\ Emitted(c)' = Emitted(c)
           /\ \A c, n : Asked(c, n)' = Asked(c, n)
BY SameList DEF ListInv, list, Asked

LEMMA EmitTyped ==
    ASSUME TypeOK, NEW code \in Codes, Emit(code) PROVE TypeOK'
<1>1. /\ Len(codes) \in Nat /\ codes' = Append(codes, code) /\ next' = Append(next, items)
      /\ items' = Len(codes) + 1 /\ items \in Nat /\ items <= Len(codes) /\ Len(next) = Len(codes)
      /\ codes \in Seq(Codes) /\ next \in Seq(Nat) /\ Len(codes) < MaxEmitted /\ MaxEmitted \in Nat
  BY CodesAssumption DEF Emit, TypeOK, Nodes
<1>2. /\ codes' \in Seq(Codes) /\ Len(codes') = Len(codes) + 1 /\ Len(codes') <= MaxEmitted
      /\ next' \in Seq(Nat) /\ Len(next') = Len(codes) + 1
  BY <1>1
<1>3. \A n \in 1 .. Len(next') : next'[n] < n
  <2> SUFFICES ASSUME NEW n \in 1 .. Len(codes) + 1 PROVE next'[n] < n
    BY <1>2
  <2>1. CASE n = Len(codes) + 1
    BY <1>1, <2>1
  <2>2. CASE n # Len(codes) + 1
    <3>1. n \in 1 .. Len(next) /\ next'[n] = next[n]
      BY <1>1, <2>2
    <3> QED
      BY <3>1 DEF TypeOK
  <2> QED
    BY <2>1, <2>2
<1>4. items' \in Nodes' /\ previous' \in Nodes' /\ iter' \in Nodes'
  BY <1>1, <1>2 DEF Emit, TypeOK, Nodes
<1>5. ClassOf[code] \in Classes
  BY CodesAssumption
<1>6. count' = Len(codes') /\ flags' \subseteq Classes
  BY <1>1, <1>2, <1>5 DEF Emit, TypeOK
<1> QED
  BY <1>2, <1>3, <1>4, <1>6 DEF Emit, TypeOK

LEMMA EmitStep ==
    ASSUME ListInv, NEW code \in Codes, Emit(code) PROVE ListInv'
<1>1. TypeOK /\ TypeOK'
  BY EmitTyped DEF ListInv
<1>2. PICK k \in Nat : k = Len(codes)
  BY <1>1 DEF TypeOK
<1>3. /\ items = k \/ items \in 1 .. k
      /\ Linked = 1 .. k /\ IsChain(Linked)
  BY <1>2 DEF ListInv, EmitIsRight, Emit, IsChain
<1>4. items = k
  <2>1. CASE k = 0
    BY <1>2, <1>3, <2>1 DEF IsChain
  <2>2. CASE k # 0
    <3>1. k \in Linked
      BY <1>3, <2>2
    <3>2. k <= items
      BY <1>3, <3>1 DEF IsChain
    <3> QED
      BY <1>3, <3>2
  <2> QED
    BY <2>1, <2>2
<1>5. /\ Len(codes') = k + 1 /\ items' = k + 1 /\ next' = Append(next, k)
      /\ next \in Seq(Nat) /\ Len(next) = k
  BY <1>1, <1>2, <1>4 DEF Emit, TypeOK
<1>6. next'[k + 1] = k /\ \A n \in 1 .. k : next'[n] = next[n]
  BY <1>5
<1>7. IsChain(1 .. k + 1)'
  <2>1. \A n \in 1 .. k + 1 : n \in 1 .. k \/ n = k + 1
    BY <1>2
  <2>2. \A n \in 1 .. k : next[n] \in 0 .. k /\ \A m \in 1 .. k : m < n => m <= next[n]
    BY <1>2, <1>3 DEF IsChain
  <2>3. \A n \in 1 .. k + 1 : next'[n] \in (1 .. k + 1) \union {0}
    BY <1>6, <2>1, <2>2
  <2>4. ASSUME NEW n \in 1 .. k + 1, NEW m \in 1 .. k + 1, m < n PROVE m <= next'[n]
    <3>1. m \in 1 .. k
      BY <2>4
    <3>2. CASE n = k + 1
      BY <1>6, <3>1, <3>2
    <3>3. CASE n \in 1 .. k
      BY <1>6, <2>2, <2>4, <3>1, <3>3
    <3> QED
      BY <2>1, <3>2, <3>3
  <2> QED
    BY <1>5, <2>3, <2>4 DEF IsChain
<1>8. Linked' = 1 .. k + 1
  BY <1>1, <1>7, LinkedChainNext
<1>9. IsChain(Linked)'
  BY <1>7, <1>8 DEF IsChain
<1>10. EmitIsRight' /\ SearchIsRight' /\ ListIsCounted' /\ VerdictIsRight'
  BY <1>5, <1>8 DEF Emit, ListInv, EmitIsRight, SearchIsRight, ListIsCounted, VerdictIsRight
<1> QED
  BY <1>1, <1>9, <1>10 DEF ListInv

LEMMA AnalyzedStep ==
    ASSUME ListInv, NEW ok \in BOOLEAN, Analyzed(ok) PROVE ListInv'
<1>1. /\ TypeOK /\ phase = "emit" /\ UNCHANGED <<expected, list, index, met>>
      /\ phase' \in {"done", "compare"} /\ (phase' = "done" => expected = <<>>)
  BY DEF ListInv, Analyzed
<1>2. TypeOK'
  BY <1>1 DEF Analyzed, TypeOK, list, Nodes
<1>3. SearchIsRight' /\ EmitIsRight' /\ VerdictIsRight'
  BY <1>1 DEF SearchIsRight, EmitIsRight, VerdictIsRight
<1>4. ListIsCounted'
  <2>1. Linked = 1 .. Len(codes) /\ index' = 1 /\ met' = TRUE
    BY <1>1 DEF ListInv, EmitIsRight
  <2>2. \A c : InList(c) = Emitted(c)
    BY <2>1 DEF InList, Emitted
  <2>3. \A c : Asked(c, 0) = 0 /\ Emitted(c) \in Nat
    BY Counts DEF ListInv
  <2>4. /\ \A c : InList(c)' = Emitted(c) /\ Emitted(c)' = Emitted(c)
        /\ \A c, n : Asked(c, n)' = Asked(c, n)
    BY <1>1, <1>2, <2>2, SameCounts
  <2>5. index' - 1 = 0 /\ \A c : Asked(c, 0)' = 0
    BY <2>1, <2>3, <2>4
  <2>6. \A c : Asked(c, index - 1)' = 0
    BY <2>5 DEF Asked
  <2> QED
    BY <2>1, <2>3, <2>4, <2>6 DEF ListIsCounted, LeftOf
<1> QED
  BY <1>1, <1>2, <1>3, <1>4, ListKept

LEMMA SearchStep ==
    ASSUME ListInv, Search PROVE ListInv'
<1>1. /\ TypeOK /\ phase = "compare" /\ UNCHANGED <<expected, list, index, met>>
      /\ phase' = "search" /\ previous' = 0 /\ iter' = items /\ index \in 1 .. Len(expected)
  BY DEF ListInv, Search, TypeOK
<1>2. TypeOK'
  BY <1>1 DEF Search, TypeOK, list, Nodes
<1>3. /\ Linked' = Linked
      /\ \A c : InList(c)' = InList(c) /\ Emitted(c)' = Emitted(c)
      /\ \A c, n : Asked(c, n)' = Asked(c, n)
  BY <1>1, <1>2, SameCounts
<1>4. SearchIsRight'
  <2>1. items \in Linked \union {0} /\ \A n \in Linked : ~(n > items)
    BY <1>1 DEF ListInv, IsChain, TypeOK
  <2> QED
    BY <1>1, <1>3, <2>1 DEF SearchIsRight, list
<1>5. EmitIsRight' /\ VerdictIsRight'
  BY <1>1 DEF EmitIsRight, VerdictIsRight
<1>6. ListIsCounted'
  BY <1>1, <1>3 DEF ListInv, ListIsCounted, LeftOf, Asked
<1> QED
  BY <1>1, <1>2, <1>4, <1>5, <1>6, ListKept

LEMMA SkipNodeStep ==
    ASSUME ListInv, SkipNode PROVE ListInv'
<1>1. /\ TypeOK /\ phase = "search" /\ UNCHANGED <<expected, list, index, met>>
      /\ phase' = phase /\ previous' = iter /\ iter' = next[iter]
      /\ iter # 0 /\ codes[iter] # expected[index]
  BY DEF ListInv, SkipNode, Found, Following
<1>2. iter \in Linked /\ Linked \subseteq 1 .. Len(codes) /\ iter \in Nat
  BY <1>1 DEF ListInv, SearchIsRight, IsChain
<1>3. /\ next[iter] \in Linked \union {0} /\ next[iter] \in Nodes
      /\ \A n \in Linked : n < iter => n <= next[iter]
  BY <1>1, <1>2 DEF ListInv, IsChain, TypeOK, Nodes
<1>4. TypeOK'
  BY <1>1, <1>3 DEF SkipNode, TypeOK, list, Nodes
<1>5. /\ Linked' = Linked
      /\ \A c : InList(c)' = InList(c) /\ Emitted(c)' = Emitted(c)
      /\ \A c, n : Asked(c, n)' = Asked(c, n)
  BY <1>1, <1>4, SameCounts
<1>6. SearchIsRight'
  <2>1. ASSUME NEW n \in Linked, n > next[iter] PROVE codes[n] # expected[index]
    <3>1. n \in Nat /\ next[iter] \in Nat
      BY <1>2, <1>3 DEF Nodes
    <3>2. ~(n < iter)
      BY <1>3, <2>1, <3>1
    <3>3. n = iter \/ n > iter
      BY <1>2, <3>1, <3>2
    <3> QED
      BY <1>1, <3>3 DEF ListInv, SearchIsRight
  <2> QED
    BY <1>1, <1>2, <1>3, <1>5, <2>1 DEF ListInv, SearchIsRight, list
<1>7. EmitIsRight' /\ VerdictIsRight'
  BY <1>1 DEF EmitIsRight, VerdictIsRight
<1>8. ListIsCounted'
  BY <1>1, <1>5 DEF ListInv, ListIsCounted, LeftOf, Asked
<1> QED
  BY <1>1, <1>4, <1>6, <1>7, <1>8, ListKept

\* Taking a node out: its predecessor takes over its link, and the others keep
\* theirs.
LEMMA RemoveNodeLinks ==
    ASSUME ListInv, RemoveNode
    PROVE  /\ TypeOK'
           /\ iter \in Linked /\ codes[iter] = expected[index]
           /\ Linked' = Linked \ {iter} /\ IsChain(Linked)'
<1>1. /\ TypeOK /\ phase = "search" /\ UNCHANGED <<expected, codes, count, flags, met, previous, iter, result>>
      /\ index \in 1 .. Len(expected) /\ index' = index + 1 /\ phase' = "compare"
      /\ iter # 0 /\ codes[iter] = expected[index]
      /\ next' = LinksWithoutFound /\ items' = HeadWithoutFound
  BY DEF ListInv, SearchIsRight, RemoveNode, Found
<1>2. PICK k \in Nat : k = Len(codes) /\ k = Len(next)
  BY <1>1 DEF TypeOK
<1>3. PICK L \in SUBSET (1 .. k) : L = Linked
  BY <1>2 DEF ListInv, IsChain
<1>4. /\ items \in L \union {0}
      /\ \A n \in L : n <= items
      /\ \A n \in L : next[n] \in L \union {0}
      /\ \A n, m \in L : m < n => m <= next[n]
  BY <1>3 DEF ListInv, IsChain
<1>5. /\ iter \in L /\ iter \in 1 .. k
      /\ previous = 0 => iter = items
      /\ previous # 0 => previous \in L /\ next[previous] = iter
  BY <1>1, <1>3 DEF ListInv, SearchIsRight
<1>6. \A n \in 1 .. k : next[n] \in Nat /\ next[n] < n
  BY <1>1, <1>2 DEF TypeOK
<1>7. /\ next' = [n \in 1 .. k |-> next'[n]]
      /\ \A n \in 1 .. k : next'[n] = IF n = previous THEN next[iter] ELSE IF n = iter THEN 0 ELSE next[n]
  <2>1. next' = [n \in 1 .. k |-> IF n = previous THEN next[iter] ELSE IF n = iter THEN 0 ELSE next[n]]
    BY <1>1, <1>2 DEF LinksWithoutFound
  <2> QED
    BY <2>1
<1>8. next[iter] \in Nat /\ next[iter] < iter
  BY <1>5, <1>6
<1>9. previous # 0 => previous \in 1 .. k /\ iter < previous
  BY <1>5, <1>6
<1>10. \A n \in 1 .. k : next'[n] \in Nat /\ next'[n] < n
  BY <1>5, <1>6, <1>7, <1>8, <1>9
<1>11. items' = IF iter = items THEN next[iter] ELSE items
  BY <1>1 DEF HeadWithoutFound
<1>12. TypeOK'
  <2>1. next' \in Seq(Nat) /\ Len(next') = k
    BY <1>7, <1>10
  <2>2. items' \in Nodes' /\ previous' \in Nodes' /\ iter' \in Nodes'
    BY <1>1, <1>2, <1>4, <1>5, <1>8, <1>11 DEF TypeOK, Nodes
  <2>3. index' \in 1 .. Len(expected') + 1
    BY <1>1 DEF TypeOK
  <2>4. next' \in Seq(Nat) /\ Len(next') = Len(codes') /\ \A n \in 1 .. Len(next') : next'[n] < n
    BY <1>1, <1>2, <1>10, <2>1
  <2> QED
    BY <1>1, <2>2, <2>3, <2>4 DEF TypeOK
<1> DEFINE R == L \ {iter}
<1>13. \A n \in R : n # previous => next[n] # iter
  <2> SUFFICES ASSUME NEW n \in R, n # previous, next[n] = iter PROVE FALSE
    OBVIOUS
  <2>1. n \in L /\ iter < n /\ n \in 1 .. k
    BY <1>6
  <2>2. previous # 0
    BY <1>4, <1>5, <2>1
  <2>3. previous \in L /\ next[previous] = iter /\ previous \in 1 .. k /\ iter < previous
    BY <1>5, <1>9, <2>2
  <2>4. n < previous \/ previous < n
    BY <2>1, <2>3
  <2>5. n <= iter \/ previous <= iter
    BY <1>4, <2>1, <2>3, <2>4
  <2> QED
    BY <1>5, <2>1, <2>3, <2>5
<1>14. next[iter] \in R \union {0}
  BY <1>4, <1>5, <1>8
<1>15. \A n \in R : next'[n] \in R \union {0}
  <2> SUFFICES ASSUME NEW n \in R PROVE next'[n] \in R \union {0}
    OBVIOUS
  <2>1. n \in 1 .. k /\ n # iter /\ n \in L
    OBVIOUS
  <2>2. CASE n = previous
    BY <1>7, <1>14, <2>1, <2>2
  <2>3. CASE n # previous
    BY <1>4, <1>7, <1>13, <2>1, <2>3
  <2> QED
    BY <2>2, <2>3
<1>16. items' \in R \union {0}
  BY <1>4, <1>11, <1>14
<1>17. \A n \in R : n <= items'
  <2> SUFFICES ASSUME NEW n \in R PROVE n <= items'
    OBVIOUS
  <2>1. n \in 1 .. k /\ n # iter /\ n \in L /\ n <= items
    BY <1>4
  <2>2. CASE iter = items
    <3>1. n < iter
      BY <1>5, <2>1, <2>2
    <3> QED
      BY <1>4, <1>5, <1>11, <2>1, <2>2, <3>1
  <2>3. CASE iter # items
    BY <1>11, <2>1, <2>3
  <2> QED
    BY <2>2, <2>3
<1>18. \A n, m \in R : m < n => m <= next'[n]
  <2> SUFFICES ASSUME NEW n \in R, NEW m \in R, m < n PROVE m <= next'[n]
    OBVIOUS
  <2>1. n \in L /\ m \in L /\ n # iter /\ m # iter /\ n \in 1 .. k /\ m \in 1 .. k /\ m <= next[n]
    BY <1>4
  <2>2. CASE n = previous
    <3>1. m <= iter /\ m < iter
      BY <1>5, <1>9, <2>1, <2>2
    <3>2. m <= next[iter]
      BY <1>4, <1>5, <2>1, <3>1
    <3> QED
      BY <1>7, <2>1, <2>2, <3>2
  <2>3. CASE n # previous
    BY <1>7, <2>1, <2>3
  <2> QED
    BY <2>2, <2>3
<1>19. PICK Q : Q = R
  OBVIOUS
<1>20. IsChain(Q)'
  BY <1>1, <1>2, <1>15, <1>16, <1>17, <1>18, <1>19 DEF IsChain
<1>21. Linked' = Q
  BY <1>12, <1>20, LinkedChainNext
<1> QED
  BY <1>1, <1>3, <1>5, <1>12, <1>19, <1>20, <1>21 DEF IsChain

LEMMA RemoveNodeCounts ==
    ASSUME ListInv, RemoveNode
    PROVE  \A c : InList(c)' = IF c = expected[index] THEN InList(c) - 1 ELSE InList(c)
<1> SUFFICES ASSUME NEW c
             PROVE  InList(c)' = IF c = expected[index] THEN InList(c) - 1 ELSE InList(c)
  OBVIOUS
<1>1. Linked' = Linked \ {iter} /\ codes' = codes /\ iter \in Linked /\ codes[iter] = expected[index]
  BY RemoveNodeLinks DEF RemoveNode
<1> DEFINE all  == {n \in Linked : codes[n] = c}
           rest == {n \in Linked \ {iter} : codes[n] = c}
<1>2. IsFiniteSet(all)
  <2>1. TypeOK /\ Linked \subseteq 1 .. Len(codes) /\ Len(codes) \in Nat
    BY DEF ListInv, IsChain, TypeOK
  <2>2. IsFiniteSet(1 .. Len(codes))
    BY <2>1, FS_Interval
  <2>3. all \subseteq 1 .. Len(codes)
    BY <2>1
  <2> QED
    BY <2>2, <2>3, FS_Subset
<1>3. InList(c)' = Cardinality(rest) /\ InList(c) = Cardinality(all)
  BY <1>1 DEF InList
<1>4. CASE c = expected[index]
  <2>1. iter \in all /\ rest = all \ {iter}
    BY <1>1, <1>4
  <2>2. Cardinality(all \ {iter}) = Cardinality(all) - 1
    BY <1>2, <2>1, FS_RemoveElement
  <2> QED
    BY <1>3, <1>4, <2>1, <2>2
<1>5. CASE c # expected[index]
  <2>1. rest = all
    BY <1>1, <1>5
  <2> QED
    BY <1>3, <1>5, <2>1
<1> QED
  BY <1>4, <1>5

LEMMA RemoveNodeStep ==
    ASSUME ListInv, RemoveNode PROVE ListInv'
<1>1. /\ TypeOK /\ TypeOK' /\ phase = "search" /\ UNCHANGED <<expected, codes, met>>
      /\ index \in 1 .. Len(expected) /\ index' = index + 1 /\ phase' = "compare"
      /\ iter \in Linked /\ codes[iter] = expected[index] /\ IsChain(Linked)'
  BY RemoveNodeLinks DEF ListInv, SearchIsRight, RemoveNode
<1>2. SearchIsRight' /\ EmitIsRight' /\ VerdictIsRight'
  BY <1>1 DEF SearchIsRight, EmitIsRight, VerdictIsRight
<1> DEFINE e == expected[index]
           i == index - 1
<1>3. /\ \A c : Emitted(c) \in Nat /\ InList(c) \in Nat
      /\ \A c : Asked(c, index) = IF c = e THEN Asked(c, i) + 1 ELSE Asked(c, i)
      /\ \A c : Asked(c, i) \in Nat
      /\ e \in Codes /\ InList(e) # 0
  <2>1. i \in 0 .. Len(expected)
    BY <1>1 DEF TypeOK
  <2> QED
    BY <1>1, <2>1, Counts DEF ListInv
<1>4. /\ \A c : InList(c)' = IF c = e THEN InList(c) - 1 ELSE InList(c)
      /\ \A c : Emitted(c)' = Emitted(c)
      /\ \A c : Asked(c, index - 1)' = Asked(c, index)
  <2>1. index' - 1 = index
    BY <1>1 DEF TypeOK
  <2> QED
    BY <1>1, <2>1, RemoveNodeCounts DEF Emitted, Asked
<1>5. /\ \A c \in Codes : InList(c) = IF Asked(c, i) <= Emitted(c) THEN Emitted(c) - Asked(c, i) ELSE 0
      /\ met = TRUE <=> \A c \in Codes : Asked(c, i) <= Emitted(c)
  BY <1>1 DEF ListInv, ListIsCounted, LeftOf
<1> HIDE DEF e, i
<1>6. Asked(e, i) < Emitted(e) /\ InList(e) = Emitted(e) - Asked(e, i)
  BY <1>3, <1>5
<1>7. \A c \in Codes : InList(c)' = IF Asked(c, index) <= Emitted(c) THEN Emitted(c) - Asked(c, index) ELSE 0
  <2> SUFFICES ASSUME NEW c \in Codes
               PROVE  InList(c)' = IF Asked(c, index) <= Emitted(c) THEN Emitted(c) - Asked(c, index) ELSE 0
    OBVIOUS
  <2>1. CASE c = e
    BY <1>3, <1>4, <1>6, <2>1
  <2>2. CASE c # e
    BY <1>3, <1>4, <1>5, <2>2
  <2> QED
    BY <2>1, <2>2
<1>8. (\A c \in Codes : Asked(c, i) <= Emitted(c)) <=> (\A c \in Codes : Asked(c, index) <= Emitted(c))
  <2>1. \A c \in Codes : Asked(c, i) <= Emitted(c) <=> Asked(c, index) <= Emitted(c)
    BY <1>3, <1>6
  <2> QED
    BY <2>1
<1>9. ListIsCounted'
  BY <1>1, <1>4, <1>5, <1>7, <1>8 DEF ListIsCounted, LeftOf
<1> QED
  BY <1>1, <1>2, <1>9 DEF ListInv

LEMMA MissingStep ==
    ASSUME ListInv, Missing PROVE ListInv'
<1>1. /\ TypeOK /\ phase = "search" /\ UNCHANGED <<expected, list, previous, iter, result>>
      /\ index \in 1 .. Len(expected) /\ index' = index + 1 /\ phase' = "compare"
      /\ met' = FALSE /\ iter = 0
  BY DEF ListInv, SearchIsRight, Missing
<1>2. TypeOK'
  <2>1. Len(expected) \in Nat
    BY <1>1 DEF TypeOK
  <2>2. index' \in 1 .. Len(expected') + 1 /\ index' \in Nat
    BY <1>1, <2>1
  <2>3. UNCHANGED <<codes, next, items, count, flags>> /\ met' \in BOOLEAN
    BY <1>1 DEF list
  <2> QED
    BY <1>1, <2>2, <2>3 DEF TypeOK, Nodes
<1>3. SearchIsRight' /\ EmitIsRight' /\ VerdictIsRight'
  BY <1>1 DEF SearchIsRight, EmitIsRight, VerdictIsRight
<1> DEFINE e == expected[index]
           i == index - 1
<1>4. /\ \A c : Emitted(c) \in Nat /\ InList(c) \in Nat
      /\ \A c : Asked(c, index) = IF c = e THEN Asked(c, i) + 1 ELSE Asked(c, i)
      /\ \A c : Asked(c, i) \in Nat
      /\ e \in Codes
  <2>1. i \in 0 .. Len(expected)
    BY <1>1 DEF TypeOK
  <2> QED
    BY <1>1, <2>1, Counts DEF ListInv, TypeOK
<1>5. InList(e) = 0
  <2>1. \A n \in Linked : n > 0
    BY DEF ListInv, IsChain
  <2>2. \A n \in Linked : codes[n] # e
    BY <1>1, <2>1 DEF ListInv, SearchIsRight
  <2> QED
    BY <2>2, Counts DEF ListInv
<1>6. /\ \A c : InList(c)' = InList(c) /\ Emitted(c)' = Emitted(c)
      /\ \A c : Asked(c, index - 1)' = Asked(c, index)
  <2>1. index' - 1 = index
    BY <1>1 DEF TypeOK
  <2> QED
    BY <1>1, <1>2, <2>1, SameCounts DEF Asked
<1>7. \A c \in Codes : InList(c) = IF Asked(c, i) <= Emitted(c) THEN Emitted(c) - Asked(c, i) ELSE 0
  BY <1>1 DEF ListInv, ListIsCounted, LeftOf
<1> HIDE DEF e, i
<1>8. Emitted(e) <= Asked(e, i) /\ ~(Asked(e, index) <= Emitted(e))
  BY <1>4, <1>5, <1>7
<1>9. \A c \in Codes : InList(c) = IF Asked(c, index) <= Emitted(c) THEN Emitted(c) - Asked(c, index) ELSE 0
  BY <1>4, <1>5, <1>7, <1>8
<1>10. ListIsCounted'
  BY <1>1, <1>4, <1>6, <1>8, <1>9 DEF ListIsCounted, LeftOf
<1> QED
  BY <1>1, <1>2, <1>3, <1>10, ListKept

LEMMA ConcludeStep ==
    ASSUME ListInv, Conclude PROVE ListInv'
<1>1. /\ TypeOK /\ phase = "compare" /\ UNCHANGED <<expected, list, index, previous, iter, met>>
      /\ index = Len(expected) + 1 /\ phase' = "done" /\ result' = Verdict
  BY DEF ListInv, Conclude, TypeOK
<1>2. TypeOK'
  <2>1. result' \in {EXIT_SUCCESS, EXIT_FAILURE}
    BY <1>1 DEF Verdict
  <2> QED
    BY <1>1, <2>1 DEF TypeOK, list, Nodes
<1>3. SearchIsRight' /\ EmitIsRight' /\ ListIsCounted'
  BY <1>1 DEF SearchIsRight, EmitIsRight, ListIsCounted
<1>4. /\ \A c : Emitted(c)' = Emitted(c)
      /\ \A c : Asked(c, Len(expected))' = Asked(c, Len(expected))
  BY <1>1, <1>2, SameCounts DEF Asked
<1>5. ASSUME ~Unexpected
      PROVE  result' = EXIT_SUCCESS <=> AsExpected
  <2>1. index - 1 = Len(expected) /\ Len(expected) \in 0 .. Len(expected)
    BY <1>1 DEF TypeOK
  <2>2. /\ \A c \in Codes : InList(c) = IF Asked(c, Len(expected)) <= Emitted(c)
                                        THEN Emitted(c) - Asked(c, Len(expected)) ELSE 0
        /\ met = TRUE <=> \A c \in Codes : Asked(c, Len(expected)) <= Emitted(c)
    BY <1>1, <2>1 DEF ListInv, ListIsCounted, LeftOf
  <2>3. \A c : Emitted(c) \in Nat /\ Asked(c, Len(expected)) \in Nat /\ InList(c) \in Nat
    BY <2>1, Counts DEF ListInv
  <2>4. \A c \in Codes : Emitted(c) <= Asked(c, Len(expected))
    BY <1>5, <2>3 DEF Unexpected
  <2>5. \A c \in Codes : InList(c) = 0
    BY <2>2, <2>3, <2>4
  <2>6. Linked = {}
    <3>1. \A n \in Linked : codes[n] \in Codes /\ \A c : InList(c) = 0 => codes[n] # c
      BY Counts DEF ListInv
    <3> QED
      BY <2>5, <3>1
  <2>7. items = 0
    BY <2>6 DEF ListInv, IsChain
  <2>8. result' = EXIT_SUCCESS <=> met = TRUE
    BY <1>1, <2>7 DEF Verdict, EXIT_SUCCESS, EXIT_FAILURE, TypeOK
  <2>9. AsExpected <=> \A c \in Codes : Asked(c, Len(expected)) <= Emitted(c)
    BY <2>3, <2>4 DEF AsExpected
  <2> QED
    BY <2>2, <2>8, <2>9
<1>6. VerdictIsRight'
  BY <1>1, <1>4, <1>5 DEF VerdictIsRight, Unexpected, AsExpected
<1> QED
  BY <1>1, <1>2, <1>3, <1>6, ListKept

\* Whatever the parser, the analyzer and the test runner do with the list.
LEMMA ListStep ==
    ASSUME ListInv, Next PROVE ListInv'
BY EmitStep, AnalyzedStep, SearchStep, SkipNodeStep, RemoveNodeStep, MissingStep, ConcludeStep
   DEF Next

LEMMA ListInit ==
    ASSUME Init PROVE ListInv
<1>1. /\ codes = <<>> /\ next = <<>> /\ items = 0 /\ phase = "emit" /\ index = 1
      /\ met = TRUE /\ result = EXIT_SUCCESS /\ previous = 0 /\ iter = 0 /\ count = 0 /\ flags = {}
      /\ expected \in Seq(Codes)
  BY DEF Init, Expectations
<1>2. TypeOK
  <2>1. index \in 1 .. Len(expected) + 1
    BY <1>1
  <2>2. items \in Nodes /\ previous \in Nodes /\ iter \in Nodes /\ Len(codes) <= MaxEmitted
    BY <1>1, CodesAssumption DEF Nodes
  <2> QED
    BY <1>1, <2>1, <2>2 DEF TypeOK
<1>3. IsChain({})
  BY <1>1 DEF IsChain
<1>4. Linked = {}
  BY <1>2, <1>3, LinkedChain
<1>5. Linked = 1 .. Len(codes)
  BY <1>1, <1>4
<1> QED
  BY <1>1, <1>2, <1>3, <1>4, <1>5
     DEF ListInv, SearchIsRight, EmitIsRight, ListIsCounted, VerdictIsRight

\* A test is given its expectations before anything is emitted.
LEMMA ListExpects ==
    ASSUME ListInv, phase = "emit", expected' \in Seq(Codes),
           UNCHANGED <<phase, list, index, previous, iter, met, result>>
    PROVE  ListInv'
<1>1. TypeOK /\ index = 1
  BY DEF ListInv, EmitIsRight
<1>2. TypeOK'
  BY <1>1 DEF TypeOK, list, Nodes
<1>3. Linked' = Linked /\ IsChain(Linked)'
  BY <1>1, <1>2, SameList DEF ListInv, list
<1> QED
  BY <1>1, <1>2, <1>3
     DEF ListInv, SearchIsRight, EmitIsRight, ListIsCounted, VerdictIsRight, list

\* What follows the test runner, or comes before it, leaves the list alone.
LEMMA ListUntouched ==
    ASSUME ListInv, UNCHANGED vars PROVE ListInv'
<1>1. /\ UNCHANGED <<expected, phase, index, previous, iter, met, result>>
      /\ UNCHANGED <<expected, list>> /\ TypeOK
  BY DEF vars, list, ListInv
<1>2. TypeOK'
  BY <1>1 DEF TypeOK, list, Nodes
<1>3. /\ Linked' = Linked
      /\ \A c : InList(c)' = InList(c) /\ Emitted(c)' = Emitted(c)
      /\ \A c, n : Asked(c, n)' = Asked(c, n)
  BY <1>1, <1>2, SameCounts
<1>4. SearchIsRight' /\ EmitIsRight'
  BY <1>1, <1>3 DEF ListInv, SearchIsRight, EmitIsRight, list
<1>5. ListIsCounted'
  BY <1>1, <1>3 DEF ListInv, ListIsCounted, LeftOf, Asked
<1>6. VerdictIsRight'
  BY <1>1, <1>3 DEF ListInv, VerdictIsRight, Unexpected, AsExpected, Asked
<1> QED
  BY <1>1, <1>2, <1>4, <1>5, <1>6, ListKept

-----------------------------------------------------------------------------
(* The run: from the command line to the exit code.                        *)

\* What is known of a run at each stage beyond its types.
StageInv ==
    /\ stage \in {"options", "main"} => phase = "emit"
    /\ stage \in {"options", "main", "analyze"} => target = "old"
    /\ stage \in {"analyze", "render"} => options.help = FALSE
    /\ stage # "exit" => write_failed = FALSE
    /\ stage = "render" =>
          /\ Compiling /\ phase = "done" /\ result = EXIT_SUCCESS
          /\ target # "whole"
          /\ target = "part" => options.language \in BackEnds

\* The arguments are those of the command line until they are dropped.
ArgumentsAreKept ==
    /\ given \in Seq(Arguments) /\ Len(given) <= MaxArguments
    /\ argv \in Seq(Arguments) /\ Len(argv) = Len(given)
    /\ \A n \in 1 .. Len(argv) : \E m \in 1 .. Len(given) : argv[n] = given[m]

\* What the arguments before number i mean.
NamedBefore(name, i) == {j \in NamedAt(name) : j < i}
MeantBefore(i) ==
    [name \in DOMAIN Default |->
        IF NamedBefore(name, i) = {} THEN Default[name]
        ELSE Setting(name, MeantValue(LastOf(NamedBefore(name, i))))]

\* No positional argument has been read before number i.
NoWordBefore(i) == \A j \in Words : j >= i

\* Up to the first positional argument the scan reads what is given; when that
\* one is not the last argument, it is last from then on, and is met again.
ScanIsOrdinary ==
    Ordinary /\ stage \in {"options", "main"} =>
        /\ positional_count = 0 =>
              /\ argv = given /\ at <= Len(given) + 1
              /\ at <= Len(given) => ~IsValue[at]
              /\ NoWordBefore(at) /\ options = MeantBefore(at)
        /\ positional_count = 1 =>
              \/ /\ argv = given /\ at = Len(given) + 1
                 /\ Len(given) \in Words /\ NoWordBefore(Len(given))
                 /\ options = MeantBefore(at)
              \/ stage = "options" /\ at <= Len(argv) /\ argv[Len(argv)].kind = "word"

\* The inductive invariant of a run.
RunInv ==
    /\ ListInv
    /\ ProgramTypeOK
    /\ StageInv
    /\ ArgumentsAreKept
    /\ OutputIsAccountedFor

\* The steps of a run that leave the list and the command line alone.
LEMMA ListRuns ==
    ASSUME RunInv, ProgramNext PROVE ListInv'
<1>1. CASE Analyze
  BY <1>1, ListStep DEF RunInv, Analyze
<1>2. CASE OpenInput
  <2>1. phase = "emit" /\ expected \in Seq(Codes)
    BY <1>2 DEF RunInv, StageInv, OpenInput, Accepted, ListInv, TypeOK
  <2>2. expected' \in Seq(Codes)
    <3>1. Expectations \subseteq Seq(Codes)
      BY DEF Expectations
    <3> QED
      BY <1>2, <2>1, <3>1 DEF OpenInput
  <2>3. UNCHANGED <<phase, list, index, previous, iter, met, result>>
    BY <1>2 DEF OpenInput
  <2> QED
    BY <2>1, <2>2, <2>3, ListExpects DEF RunInv
<1>3. CASE ~Analyze /\ ~OpenInput
  <2>1. UNCHANGED vars
    BY <1>3 DEF ProgramNext, ReadOption, RejectOption, ReadPositional, EndScan, ShowHelp,
                RejectPositionals, MissingInput, Panic, PanicInParser, Finish, OpenOutput,
                MissingOutput, Rendering, WriteBuffer, FailToWrite, PanicInBackEnd, Render, LoseRest
  <2> QED
    BY <2>1, ListUntouched DEF RunInv
<1> QED
  BY <1>1, <1>2, <1>3

\* The stages of a run: every step leads to a stage of which the rest holds.
LEMMA StageRuns ==
    ASSUME RunInv, ProgramNext PROVE StageInv' /\ OutputIsAccountedFor'
<1>1. /\ StageInv /\ OutputIsAccountedFor
      /\ options.help \in BOOLEAN /\ target \in {"old", "empty", "part", "whole"}
      /\ EXIT_SUCCESS = 0 /\ EXIT_FAILURE = 1 /\ SIGABRT = 134
  BY DEF RunInv, ProgramTypeOK, EXIT_SUCCESS, EXIT_FAILURE, SIGABRT
<1>2. CASE ReadOption \/ ReadPositional \/ EndScan
  BY <1>1, <1>2 DEF ReadOption, ReadPositional, EndScan, Scanning, StageInv, OutputIsAccountedFor, vars
<1>3. CASE RejectOption
  BY <1>1, <1>3 DEF RejectOption, Scanning, Exit, scan, StageInv, OutputIsAccountedFor, Compiling, vars
<1>4. CASE ShowHelp
  BY <1>1, <1>4 DEF ShowHelp, Exit, StageInv, OutputIsAccountedFor, Compiling, vars
<1>5. CASE RejectPositionals \/ MissingInput \/ Panic
  BY <1>1, <1>5 DEF RejectPositionals, MissingInput, Panic, Accepted, Exit, StageInv,
                    OutputIsAccountedFor, Compiling, vars
<1>6. CASE PanicInParser
  BY <1>1, <1>6 DEF PanicInParser, Exit, scan, StageInv, OutputIsAccountedFor, Compiling, vars
<1>7. CASE OpenInput
  BY <1>1, <1>7 DEF OpenInput, Accepted, StageInv, OutputIsAccountedFor
<1>8. CASE Analyze
  BY <1>1, <1>8 DEF Analyze, scan, StageInv, OutputIsAccountedFor
<1>9. ASSUME NEW code \in {EXIT_SUCCESS, EXIT_FAILURE}, Finish(code)
      PROVE  StageInv' /\ OutputIsAccountedFor'
  BY <1>1, <1>9 DEF Finish, Analysis, Exit, scan, StageInv, OutputIsAccountedFor, Compiling, vars
<1>10. CASE OpenOutput
  BY <1>1, <1>10 DEF OpenOutput, Analysis, scan, StageInv, OutputIsAccountedFor, Compiling, ToFile, vars
<1>11. CASE MissingOutput
  BY <1>1, <1>11 DEF MissingOutput, Analysis, Exit, scan, StageInv, OutputIsAccountedFor, Compiling, vars
<1>12. CASE WriteBuffer
  BY <1>1, <1>12 DEF WriteBuffer, Rendering, scan, StageInv, OutputIsAccountedFor, Compiling, vars
<1>13. CASE FailToWrite \/ PanicInBackEnd
  BY <1>1, <1>13 DEF FailToWrite, PanicInBackEnd, Rendering, Exit, scan, StageInv,
                     OutputIsAccountedFor, Compiling, BackEnds, vars
<1>14. CASE Render
  BY <1>1, <1>14 DEF Render, RenderVerdict, Exit, scan, StageInv, OutputIsAccountedFor, Compiling,
                     BackEnds, vars
<1>15. CASE LoseRest
  <2>1. /\ stage' = "exit" /\ exit' = EXIT_SUCCESS /\ write_failed' = TRUE /\ target' = target
        /\ target # "whole" /\ options' = options /\ options.language \in BackEnds
    BY <1>1, <1>15 DEF LoseRest, Rendering, RenderVerdict, Exit, scan, StageInv
  <2> QED
    BY <1>1, <2>1 DEF StageInv, OutputIsAccountedFor
<1> QED
  BY <1>2, <1>3, <1>4, <1>5, <1>6, <1>7, <1>8, <1>9, <1>10, <1>11, <1>12, <1>13, <1>14, <1>15 DEF ProgramNext

\* Moving an argument to the end loses none.
LEMMA MovedArguments ==
    ASSUME argv \in Seq(Arguments), at \in 1 .. Len(argv)
    PROVE  /\ MovedToEnd \in Seq(Arguments) /\ Len(MovedToEnd) = Len(argv)
           /\ \A n \in 1 .. Len(argv) :
                 MovedToEnd[n] = IF n < at THEN argv[n]
                                 ELSE IF n < Len(argv) THEN argv[n + 1] ELSE argv[at]
           /\ \A n \in 1 .. Len(argv) : \E m \in 1 .. Len(argv) : MovedToEnd[n] = argv[m]
           /\ \A a \in Arguments :
                 Cardinality({n \in DOMAIN MovedToEnd : MovedToEnd[n] = a})
               = Cardinality({n \in DOMAIN argv : argv[n] = a})
<1>1. PICK k \in Nat : k = Len(argv) /\ DOMAIN argv = 1 .. k
  OBVIOUS
<1>2. PICK p : p = [n \in 1 .. k |-> IF n < at THEN n ELSE IF n < k THEN n + 1 ELSE at]
  OBVIOUS
<1>3. \A n \in 1 .. k : p[n] \in 1 .. k /\ p[n] = IF n < at THEN n ELSE IF n < k THEN n + 1 ELSE at
  BY <1>1, <1>2
<1>4. MovedToEnd = [n \in 1 .. k |-> argv[p[n]]]
  <2>1. \A n \in 1 .. k : (IF n < at THEN argv[n] ELSE IF n < Len(argv) THEN argv[n + 1] ELSE argv[at]) = argv[p[n]]
    BY <1>1, <1>3
  <2> QED
    BY <1>1, <2>1 DEF MovedToEnd
<1>5. \A n \in 1 .. k : MovedToEnd[n] = argv[p[n]]
  BY <1>4
<1>6. MovedToEnd \in Seq(Arguments) /\ Len(MovedToEnd) = k /\ DOMAIN MovedToEnd = 1 .. k
  <2>1. \A n \in 1 .. k : argv[p[n]] \in Arguments
    BY <1>1, <1>3
  <2> QED
    BY <1>1, <1>4, <2>1
<1>7. ASSUME NEW a \in Arguments
      PROVE  Cardinality({n \in 1 .. k : MovedToEnd[n] = a}) = Cardinality({n \in 1 .. k : argv[n] = a})
  <2> DEFINE before == {n \in 1 .. k : argv[n] = a}
             after  == {n \in 1 .. k : MovedToEnd[n] = a}
             f      == [n \in after |-> p[n]]
  <2>1. \A n \in after : f[n] = p[n] /\ f[n] \in before
    BY <1>3, <1>5
  <2>2. \A n, m \in after : f[n] = f[m] => n = m
    BY <1>1, <1>3, <2>1
  <2>3. \A m \in before : \E n \in after : f[n] = m
    <3> SUFFICES ASSUME NEW m \in before PROVE \E n \in after : p[n] = m
      OBVIOUS
    <3>1. CASE m < at
      <4>1. m \in 1 .. k /\ p[m] = m
        BY <1>3, <3>1
      <4>2. m \in after
        BY <1>5, <4>1
      <4> QED
        BY <4>1, <4>2
    <3>2. CASE m > at
      <4>1. m - 1 \in 1 .. k /\ p[m - 1] = m
        BY <1>1, <1>3, <3>2
      <4>2. m - 1 \in after
        BY <1>5, <4>1
      <4> QED
        BY <4>1, <4>2
    <3>3. CASE m = at
      <4>1. k \in 1 .. k /\ p[k] = m
        BY <1>1, <1>3, <3>3
      <4>2. k \in after
        BY <1>5, <4>1
      <4> QED
        BY <4>1, <4>2
    <3> QED
      BY <1>1, <3>1, <3>2, <3>3
  <2>4. f \in [after -> before]
    BY <2>1
  <2>5. f \in Bijection(after, before)
    <3> HIDE DEF f, after, before
    <3> QED
      BY <2>2, <2>3, <2>4 DEF Bijection, Injection, Surjection, IsInjective
  <2>6. ExistsBijection(after, before)
    BY <2>5 DEF ExistsBijection
  <2>7. IsFiniteSet(1 .. k) /\ after \subseteq 1 .. k
    BY FS_Interval
  <2>8. IsFiniteSet(after)
    BY <2>7, FS_Subset
  <2> QED
    BY <2>6, <2>8, FS_Bijection
<1>8. \A n \in 1 .. k : \E m \in 1 .. k : MovedToEnd[n] = argv[m]
  BY <1>3, <1>5
<1>9. \A n \in 1 .. k : MovedToEnd[n] = IF n < at THEN argv[n]
                                        ELSE IF n < Len(argv) THEN argv[n + 1] ELSE argv[at]
  BY <1>1, <1>3, <1>5
<1> QED
  BY <1>1, <1>6, <1>7, <1>8, <1>9

\* What an argument skips is a number, and one at most of an ordinary argument.
LEMMA ConsumedCounts ==
    ASSUME NEW a \in Arguments
    PROVE  /\ Consumed(a) \in Nat
           /\ Consumed(a) = 0 <=> ~TakesNext(a)
<1>1. a.names \in Seq(STRING)
  BY ArgumentsAssumption
<1> DEFINE C == {n \in DOMAIN a.names : a.names[n] \in Consuming}
<1>2. IsFiniteSet(C)
  <2>1. DOMAIN a.names = 1 .. Len(a.names) /\ Len(a.names) \in Nat
    BY <1>1
  <2>2. IsFiniteSet(1 .. Len(a.names)) /\ C \subseteq 1 .. Len(a.names)
    BY <2>1, FS_Interval
  <2> QED
    BY <2>2, FS_Subset
<1>3. Cardinality(C) \in Nat /\ (Cardinality(C) = 0 <=> C = {})
  BY <1>2, FS_CardinalityType, FS_EmptySet
<1>4. C = {} <=> Names(a) \intersect Consuming = {}
  BY DEF Names
<1> HIDE DEF C
<1>5. Consumed(a) = IF a.value = NoText THEN Cardinality(C) ELSE 0
  BY DEF Consumed, C
<1> QED
  BY <1>3, <1>4, <1>5 DEF TakesNext

\* What an option can be given is NULL or on the command line.
LEMMA ValuesAreGiven ==
    ASSUME ArgumentsAreKept, at \in 1 .. Len(argv)
    PROVE  /\ argv[at] \in Arguments
           /\ ValueFor(argv[at]) # NoText =>
                 \E a \in Arguments : ValueFor(argv[at]) \in {a.text, a.value}
<1>1. /\ argv[at] \in Arguments /\ Len(argv) \in Nat
      /\ \A n \in 1 .. Len(argv) : argv[n] \in Arguments
  BY DEF ArgumentsAreKept
<1>2. FreeArgument # NoText => \E a \in Arguments : FreeArgument = a.text
  <2> SUFFICES ASSUME FreeArgument # NoText PROVE \E a \in Arguments : FreeArgument = a.text
    OBVIOUS
  <2>1. at + 1 < Len(argv) /\ FreeArgument = argv[at + 1].text
    BY DEF FreeArgument
  <2>2. at + 1 \in 1 .. Len(argv)
    BY <1>1, <2>1
  <2> QED
    BY <1>1, <2>1, <2>2
<1> QED
  BY <1>1, <1>2 DEF ValueFor

\* The options after an argument that sets some of them.
LEMMA OptionsTyped ==
    ASSUME RunInv, ReadOption
    PROVE  /\ DOMAIN options' = DOMAIN Default
           /\ options'.help \in BOOLEAN /\ options'.implementation \in BOOLEAN
           /\ \A name \in DOMAIN ValuesOf : options'[name] \in ValuesOf[name]
           /\ options'.output # NoText => \E a \in Arguments : options'.output \in {a.text, a.value}
<1>1. at \in 1 .. Len(argv)
  BY DEF RunInv, ProgramTypeOK, ArgumentsAreKept, ReadOption, Scanning
<1>2. PICK a : a = argv[at]
  OBVIOUS
<1>3. PICK v : v = ValueFor(a)
  OBVIOUS
<1>4. v # NoText => \E b \in Arguments : v \in {b.text, b.value}
  BY <1>1, <1>2, <1>3, ValuesAreGiven DEF RunInv
<1>5. /\ DOMAIN options = DOMAIN Default
      /\ options.help \in BOOLEAN /\ options.implementation \in BOOLEAN
      /\ \A name \in DOMAIN ValuesOf : options[name] \in ValuesOf[name]
      /\ options.output # NoText => \E b \in Arguments : options.output \in {b.text, b.value}
  BY DEF RunInv, ProgramTypeOK
<1>6. /\ \A name \in Names(a) : Legal(name, v)
      /\ options' = [name \in DOMAIN Default |-> IF name \in Names(a) THEN Setting(name, v) ELSE options[name]]
  BY <1>2, <1>3, <1>5 DEF ReadOption
<1>7. /\ DOMAIN Default = {"help", "implementation", "test_mode", "output", "language"}
      /\ DOMAIN ValuesOf = {"test_mode", "language"}
  BY DEF Default, ValuesOf
<1>8. DOMAIN options' = DOMAIN Default
  BY <1>6
<1>9. \A name \in DOMAIN Default :
          options'[name] = IF name \in Names(a) THEN Setting(name, v) ELSE options[name]
  BY <1>6
<1>10. options'["help"] \in BOOLEAN /\ options'["implementation"] \in BOOLEAN
  BY <1>5, <1>7, <1>9 DEF Setting, Consuming
<1>11. options'["output"] # NoText => \E b \in Arguments : options'["output"] \in {b.text, b.value}
  <2>1. options'["output"] \in {v, options["output"]}
    BY <1>7, <1>9 DEF Setting, Consuming
  <2> QED
    BY <1>4, <1>5, <2>1
<1>12. ASSUME NEW name \in DOMAIN ValuesOf PROVE options'[name] \in ValuesOf[name]
  <2>1. name \in DOMAIN Default /\ name \in Consuming /\ name \notin {"help", "implementation"} /\ name # "output"
    BY <1>7 DEF Consuming
  <2>2. CASE name \in Names(a)
    <3>1. v \in ValuesOf[name]
      BY <1>6, <2>1, <2>2 DEF Legal
    <3> QED
      BY <1>9, <2>1, <2>2, <3>1 DEF Setting
  <2>3. CASE name \notin Names(a)
    BY <1>5, <1>9, <2>1, <2>3
  <2> QED
    BY <2>2, <2>3
<1> QED
  BY <1>8, <1>10, <1>11, <1>12

\* The command line is kept, and dropped at the end of the scan.
LEMMA ArgumentsRun ==
    ASSUME RunInv, ProgramNext PROVE ArgumentsAreKept'
<1>1. ArgumentsAreKept /\ at \in Nat \ {0}
  BY DEF RunInv, ProgramTypeOK
<1>2. CASE UNCHANGED <<given, argv>>
  BY <1>1, <1>2 DEF ArgumentsAreKept
<1>3. CASE DropArguments
  BY <1>3, ArgumentsAssumption DEF DropArguments, ArgumentsAreKept
<1>4. CASE ReadPositional
  <2>1. at \in 1 .. Len(argv) /\ argv \in Seq(Arguments)
    BY <1>1, <1>4 DEF ReadPositional, Scanning, ArgumentsAreKept
  <2>2. /\ argv' \in Seq(Arguments) /\ Len(argv') = Len(argv) /\ given' = given
        /\ \A n \in 1 .. Len(argv) : \E m \in 1 .. Len(argv) : argv'[n] = argv[m]
    BY <1>4, <2>1, MovedArguments DEF ReadPositional
  <2> QED
    BY <1>1, <2>2 DEF ArgumentsAreKept
<1> QED
  BY <1>2, <1>3, <1>4 DEF ProgramNext, ReadOption, RejectOption, EndScan, ShowHelp,
     RejectPositionals, MissingInput, Panic, OpenInput, Analyze, PanicInParser, Finish, OpenOutput,
     MissingOutput, Rendering, WriteBuffer, FailToWrite, PanicInBackEnd, Render, LoseRest, scan

\* The types of a run.
LEMMA TypesRun ==
    ASSUME RunInv, ProgramNext PROVE ProgramTypeOK'
<1>1. ProgramTypeOK /\ TypeOK' /\ ArgumentsAreKept /\ StageInv
  BY ListRuns DEF RunInv, ListInv
<1> DEFINE Kept(g, v) == \A a \in Arguments :
                            Cardinality({n \in DOMAIN v : v[n] = a}) = Cardinality({n \in DOMAIN g : g[n] = a})
<1>2. Kept(given', argv')
  <2>1. CASE UNCHANGED <<given, argv>>
    BY <1>1, <2>1 DEF ProgramTypeOK
  <2>2. CASE DropArguments
    BY <2>2 DEF DropArguments
  <2>3. CASE ReadPositional
    <3>1. at \in 1 .. Len(argv) /\ argv \in Seq(Arguments)
      BY <1>1, <2>3 DEF ProgramTypeOK, ReadPositional, Scanning, ArgumentsAreKept
    <3>2. PICK moved : moved = MovedToEnd
      OBVIOUS
    <3>3. Kept(argv, moved)
      BY <3>1, <3>2, MovedArguments
    <3>4. argv' = moved /\ given' = given
      BY <2>3, <3>2 DEF ReadPositional
    <3>5. Kept(given, argv)
      BY <1>1 DEF ProgramTypeOK
    <3>6. Kept(given, moved)
      BY <3>3, <3>5
    <3> QED
      BY <3>4, <3>6
  <2>4. UNCHANGED <<given, argv>> \/ DropArguments \/ ReadPositional
    BY DEF ProgramNext, ReadOption, RejectOption, EndScan, ShowHelp,
       RejectPositionals, MissingInput, Panic, OpenInput, Analyze, PanicInParser, Finish, OpenOutput,
       MissingOutput, Rendering, WriteBuffer, FailToWrite, PanicInBackEnd, Render, LoseRest, scan
  <2> QED
    BY <2>1, <2>2, <2>3, <2>4
<1>3. /\ at' \in Nat \ {0} /\ positional_count' \in Nat
      /\ stage' \in {"options", "main"} => positional_count' < at'
  <2>1. CASE ReadOption
    <3>1. argv[at] \in Arguments
      BY <1>1, <2>1, ValuesAreGiven DEF ProgramTypeOK, ArgumentsAreKept, ReadOption, Scanning
    <3>2. Consumed(argv[at]) \in Nat
      BY <3>1, ConsumedCounts
    <3> QED
      BY <1>1, <2>1, <3>2 DEF ProgramTypeOK, ReadOption, Scanning
  <2>2. CASE ReadPositional \/ EndScan
    BY <1>1, <2>2 DEF ProgramTypeOK, ReadPositional, EndScan, Scanning, scan
  <2>3. CASE ~ReadOption /\ ~ReadPositional /\ ~EndScan
    <3>1. positional_count' = positional_count /\ at' \in {at, 1} /\ stage' \notin {"options", "main"}
      BY <1>1, <2>3 DEF ProgramNext, RejectOption, ShowHelp,
         RejectPositionals, MissingInput, Panic, OpenInput, Analyze, PanicInParser, Finish, OpenOutput,
         MissingOutput, Rendering, WriteBuffer, FailToWrite, PanicInBackEnd, Render, LoseRest, scan, DropArguments, Exit
    <3> QED
      BY <1>1, <3>1 DEF ProgramTypeOK
  <2> QED
    BY <2>1, <2>2, <2>3
<1>4. /\ DOMAIN options' = DOMAIN Default
      /\ options'.help \in BOOLEAN /\ options'.implementation \in BOOLEAN
      /\ \A name \in DOMAIN ValuesOf : options'[name] \in ValuesOf[name]
      /\ options'.output # NoText => \E a \in Arguments : options'.output \in {a.text, a.value}
  <2>1. CASE ReadOption
    BY <2>1, OptionsTyped
  <2>2. CASE ~ReadOption
    <3>1. options' = options
      BY <2>2 DEF ProgramNext, RejectOption, ReadPositional, EndScan, ShowHelp,
         RejectPositionals, MissingInput, Panic, OpenInput, Analyze, PanicInParser, Finish, OpenOutput,
         MissingOutput, Rendering, WriteBuffer, FailToWrite, PanicInBackEnd, Render, LoseRest, scan
    <3> QED
      BY <1>1, <3>1 DEF ProgramTypeOK
  <2> QED
    BY <2>1, <2>2
<1>5. /\ stage' \in {"options", "main", "analyze", "render", "exit"}
      /\ target' \in {"old", "empty", "part", "whole"} /\ write_failed' \in BOOLEAN
      /\ exit' \in {EXIT_SUCCESS, EXIT_FAILURE, SIGABRT}
  BY <1>1 DEF ProgramTypeOK, ProgramNext, ReadOption, RejectOption, ReadPositional, EndScan, ShowHelp,
     RejectPositionals, MissingInput, Panic, OpenInput, Analyze, PanicInParser, Finish, OpenOutput,
     MissingOutput, Rendering, WriteBuffer, FailToWrite, PanicInBackEnd, Render, LoseRest, RenderVerdict, Exit
<1>6. target' # "old" \/ write_failed' => phase' = "done" /\ result' = EXIT_SUCCESS /\ Compiling'
  <2>1. CASE OpenOutput \/ stage = "render"
    BY <1>1, <2>1 DEF ProgramNext, ReadOption, RejectOption, ReadPositional, EndScan, ShowHelp, Scanning,
         RejectPositionals, MissingInput, Panic, OpenInput, Accepted, Analyze, PanicInParser, Finish,
         MissingOutput, WriteBuffer, FailToWrite, PanicInBackEnd, LoseRest, Rendering, Exit,
         OpenOutput, Render, Analysis, StageInv, Compiling, vars, scan
  <2>2. CASE ~OpenOutput /\ stage \in {"options", "main", "analyze"}
    <3>1. target' = target /\ write_failed' = write_failed
      BY <2>2 DEF ProgramNext, ReadOption, RejectOption, ReadPositional, EndScan, ShowHelp,
         RejectPositionals, MissingInput, Panic, OpenInput, Analyze, PanicInParser, Finish, MissingOutput,
         Rendering, WriteBuffer, FailToWrite, PanicInBackEnd, Render, LoseRest
    <3> QED
      BY <1>1, <2>2, <3>1 DEF StageInv
  <2>3. CASE ~OpenOutput /\ stage \notin {"options", "main", "analyze", "render"}
    BY <2>3 DEF ProgramNext, ReadOption, RejectOption, ReadPositional, EndScan, ShowHelp, Scanning,
         RejectPositionals, MissingInput, Panic, OpenInput, Accepted, Analyze, PanicInParser, Finish,
         MissingOutput, Analysis, Rendering, WriteBuffer, FailToWrite, PanicInBackEnd, Render, LoseRest
  <2> QED
    BY <2>1, <2>2, <2>3
<1> QED
  BY <1>1, <1>2, <1>3, <1>4, <1>5, <1>6 DEF ProgramTypeOK

LEMMA RunInit ==
    ASSUME ProgramInit PROVE RunInv
<1>1. /\ expected = <<>> /\ Init /\ argv = given /\ at = 1 /\ positional_count = 0
      /\ options = Default /\ stage = "options" /\ target = "old" /\ write_failed = FALSE
      /\ exit = EXIT_SUCCESS
  BY DEF ProgramInit
<1>2. ListInv /\ TypeOK /\ phase = "emit"
  BY <1>1, ListInit DEF ListInv, Init
<1>3. given \in Seq(Arguments) /\ Len(given) <= MaxArguments
  <2>1. PICK n \in 0 .. MaxArguments : given \in [1 .. n -> Arguments]
    BY DEF ProgramInit
  <2> QED
    BY <2>1, ArgumentsAssumption
<1>4. ArgumentsAreKept
  BY <1>1, <1>3 DEF ArgumentsAreKept
<1>5. /\ options.help \in BOOLEAN /\ options.implementation \in BOOLEAN
      /\ \A name \in DOMAIN ValuesOf : options[name] \in ValuesOf[name]
      /\ options.output = NoText
  BY <1>1 DEF Default, ValuesOf
<1>6. ProgramTypeOK
  <2>1. write_failed \in BOOLEAN /\ ~(target # "old" \/ write_failed)
    BY <1>1, Zenon
  <2> QED
    BY <1>1, <1>2, <1>5, <2>1 DEF ProgramTypeOK
<1>7. StageInv /\ OutputIsAccountedFor
  BY <1>1, <1>2 DEF StageInv, OutputIsAccountedFor
<1> QED
  BY <1>2, <1>4, <1>6, <1>7 DEF RunInv

\* A run that stutters.
LEMMA RunStutters ==
    ASSUME RunInv, UNCHANGED programVars PROVE RunInv'
<1>1. ListInv'
  BY ListUntouched DEF RunInv, programVars
<1>2. UNCHANGED <<given, argv, at, positional_count, options, stage, target, write_failed, exit, phase, result>>
  BY DEF programVars, scan, vars
<1>3. ProgramTypeOK'
  BY <1>1, <1>2 DEF RunInv, ListInv, ProgramTypeOK, Compiling
<1>4. StageInv' /\ ArgumentsAreKept' /\ OutputIsAccountedFor'
  BY <1>2 DEF RunInv, StageInv, ArgumentsAreKept, OutputIsAccountedFor, Compiling, ToFile
<1> QED
  BY <1>1, <1>3, <1>4 DEF RunInv

\* The inductive invariant of every run of the program.
THEOREM Invariance == ProgramSpec => []RunInv
<1>1. ASSUME RunInv, [ProgramNext]_programVars PROVE RunInv'
  BY <1>1, ListRuns, StageRuns, ArgumentsRun, TypesRun, RunStutters DEF RunInv
<1> QED
  BY <1>1, RunInit, PTL DEF ProgramSpec

\* The scan loses no argument and counts none it has not read, the options hold
\* legal values, and no output exists before an analysis has succeeded.
THEOREM TypeCorrect == ProgramSpec => []ProgramTypeOK
<1>1. RunInv => ProgramTypeOK
  BY DEF RunInv
<1> QED
  BY <1>1, Invariance, PTL

\* Whatever is emitted and expected: without an unexpected diagnostic a test
\* succeeds exactly when the codes emitted are those expected, each as often.
THEOREM TestVerdict == ProgramSpec => []VerdictIsRight
<1>1. RunInv => VerdictIsRight
  BY DEF RunInv, ListInv
<1> QED
  BY <1>1, Invariance, PTL

\* A success has printed the document or failed to write its end; a failure has
\* left the output, or emptied it for a language without a back end; anything else
\* follows a write that failed or an abort of the C back end.
THEOREM OutputAccountedFor == ProgramSpec => []OutputIsAccountedFor
<1>1. RunInv => OutputIsAccountedFor
  BY DEF RunInv
<1> QED
  BY <1>1, Invariance, PTL

-----------------------------------------------------------------------------
(* The linked list is a bag.                                               *)

\* Emitting a code puts one more of it into the list.
LEMMA EmitCounts ==
    ASSUME ListInv, NEW code \in Codes, Emit(code)
    PROVE  \A c : InList(c)' = IF c = code THEN InList(c) + 1 ELSE InList(c)
<1> SUFFICES ASSUME NEW c
             PROVE  InList(c)' = IF c = code THEN InList(c) + 1 ELSE InList(c)
  OBVIOUS
<1>1. PICK k \in Nat : k = Len(codes)
  BY DEF ListInv, TypeOK
<1>2. /\ Linked = 1 .. k /\ codes \in Seq(Codes) /\ codes' = Append(codes, code)
      /\ phase' = "emit" /\ Len(codes') = k + 1
  BY <1>1 DEF ListInv, EmitIsRight, TypeOK, Emit
<1>3. Linked' = 1 .. k + 1
  BY <1>2, EmitStep DEF ListInv, EmitIsRight
<1> DEFINE old == {n \in 1 .. k : codes[n] = c}
           new == {n \in 1 .. k + 1 : codes'[n] = c}
<1>4. InList(c) = Cardinality(old) /\ InList(c)' = Cardinality(new)
  BY <1>2, <1>3 DEF InList
<1>5. \A n \in 1 .. k : codes'[n] = codes[n]
  BY <1>1, <1>2
<1>6. codes'[k + 1] = code
  BY <1>1, <1>2
<1>7. \A n : n \in 1 .. k + 1 <=> n \in 1 .. k \/ n = k + 1
  BY <1>1
<1>8. IsFiniteSet(old) /\ k + 1 \notin old
  <2>1. IsFiniteSet(1 .. k) /\ old \subseteq 1 .. k
    BY FS_Interval
  <2>2. IsFiniteSet(old)
    BY <2>1, FS_Subset
  <2> QED
    BY <2>2
<1>9. CASE c = code
  <2>1. new = old \union {k + 1}
    BY <1>5, <1>6, <1>7, <1>9
  <2>2. Cardinality(old \union {k + 1}) = Cardinality(old) + 1
    BY <1>8, FS_AddElement
  <2> QED
    BY <1>4, <1>9, <2>1, <2>2
<1>10. CASE c # code
  <2>1. new = old
    BY <1>5, <1>6, <1>7, <1>10
  <2> QED
    BY <1>4, <1>10, <2>1
<1> QED
  BY <1>9, <1>10

\* Every step of the list is one of the bag, or leaves the bag as it is.
LEMMA BagStep ==
    ASSUME ListInv, Next PROVE [Bag!Next]_(<<[c \in Codes |-> InList(c)], ~met>>)
<1> DEFINE present == [c \in Codes |-> InList(c)]
<1>0. TypeOK /\ met \in BOOLEAN /\ \A c : InList(c) \in Nat
  BY Counts DEF ListInv, TypeOK
<1>1. ASSUME UNCHANGED list, met' = met, TypeOK'
      PROVE  present' = present /\ (~met)' = (~met)
  <2>1. \A c \in Codes : InList(c)' = InList(c)
    BY <1>0, <1>1, SameList DEF ListInv, list
  <2> QED
    BY <1>1, <2>1
<1>2. TypeOK'
  BY ListStep DEF ListInv
<1>3. ASSUME NEW code \in Codes, Emit(code)
      PROVE  Bag!Emit(code)
  <2>1. \A c \in Codes : InList(c)' = IF c = code THEN InList(c) + 1 ELSE InList(c)
    BY <1>3, EmitCounts
  <2>2. present' = [present EXCEPT ![code] = @ + 1]
    BY <2>1
  <2>3. (~met)' = ~met
    BY <1>3 DEF Emit
  <2> QED
    BY <2>2, <2>3 DEF Bag!Emit
<1>4. ASSUME RemoveNode PROVE Bag!Take(expected[index])
  <2>1. \A c : InList(c)' = IF c = expected[index] THEN InList(c) - 1 ELSE InList(c)
    BY <1>4, RemoveNodeCounts
  <2>2. expected[index] \in Codes /\ InList(expected[index]) > 0
    <3>1. iter \in Linked /\ codes[iter] = expected[index]
      BY <1>4, RemoveNodeLinks
    <3>2. codes[iter] \in Codes /\ InList(expected[index]) # 0
      BY <3>1, Counts DEF ListInv
    <3> QED
      BY <1>0, <3>1, <3>2
  <2>3. present' = [present EXCEPT ![expected[index]] = @ - 1]
    BY <2>1, <2>2
  <2>4. (~met)' = ~met
    BY <1>4 DEF RemoveNode
  <2> QED
    BY <2>2, <2>3, <2>4 DEF Bag!Take
<1>5. ASSUME Missing PROVE Bag!Miss(expected[index])
  <2>1. phase = "search" /\ iter = 0 /\ UNCHANGED <<expected, list>> /\ met' = FALSE
    BY <1>5 DEF Missing
  <2>2. index \in 1 .. Len(expected) /\ \A n \in Linked : n > iter => codes[n] # expected[index]
    BY <2>1 DEF ListInv, SearchIsRight
  <2>3. \A n \in Linked : codes[n] # expected[index]
    BY <2>1, <2>2 DEF ListInv, IsChain
  <2>4. InList(expected[index]) = 0 /\ expected[index] \in Codes
    BY <1>0, <2>2, <2>3, Counts DEF ListInv, TypeOK
  <2>5. \A c \in Codes : InList(c)' = InList(c)
    BY <1>2, <2>1, SameCounts
  <2>6. present' = present
    BY <2>5
  <2> QED
    BY <2>1, <2>4, <2>6 DEF Bag!Miss
<1>6. ASSUME (\E ok \in BOOLEAN : Analyzed(ok)) \/ Search \/ SkipNode \/ Conclude
      PROVE  UNCHANGED list /\ met' = met
  BY <1>6 DEF Analyzed, Search, SkipNode, Conclude, list
<1>7. expected[index] \in Codes \/ ~(RemoveNode \/ Missing)
  BY <1>0 DEF ListInv, SearchIsRight, TypeOK, RemoveNode, Missing
<1> QED
  BY <1>1, <1>2, <1>3, <1>4, <1>5, <1>6, <1>7 DEF Next, Bag!Next

\* The list of diagnostics implements the bag of codes: whatever is emitted, a
\* search takes one occurrence of the expected code out of it, and finds none only
\* when there is none.
THEOREM ListIsABag == ProgramSpec => ImplementsBag
<1> DEFINE bag == <<[c \in Codes |-> InList(c)], ~met>>
<1>1. ASSUME ProgramInit PROVE Bag!Init
  <2>1. ListInv /\ codes = <<>> /\ met = TRUE
    BY <1>1, RunInit DEF RunInv, ProgramInit, Init
  <2>2. \A c \in Codes : InList(c) = 0
    <3>1. Linked \subseteq 1 .. 0
      BY <2>1 DEF ListInv, IsChain
    <3> QED
      BY <2>1, <3>1, Counts DEF ListInv
  <2> QED
    BY <2>1, <2>2 DEF Bag!Init
<1>2. ASSUME RunInv, [ProgramNext]_programVars PROVE [Bag!Next]_bag
  <2>1. CASE Analyze
    BY <1>2, <2>1, BagStep DEF Analyze, RunInv
  <2>2. CASE ~Analyze
    <3>1. UNCHANGED list /\ met' = met
      BY <1>2, <2>2 DEF ProgramNext, ReadOption, RejectOption, ReadPositional, EndScan, ShowHelp,
         RejectPositionals, MissingInput, Panic, OpenInput, PanicInParser, Finish, OpenOutput,
         MissingOutput, Rendering, WriteBuffer, FailToWrite, PanicInBackEnd, Render, LoseRest, vars, list, programVars
    <3>2. TypeOK /\ IsChain(Linked) /\ TypeOK'
      <4>1. ListInv'
        BY <1>2, ListRuns, ListUntouched DEF RunInv, programVars
      <4> QED
        BY <1>2, <4>1 DEF RunInv, ListInv
    <3>3. \A c \in Codes : InList(c)' = InList(c)
      BY <3>1, <3>2, SameList DEF list
    <3> QED
      BY <3>1, <3>3
  <2> QED
    BY <2>1, <2>2
<1> QED
  BY <1>1, <1>2, Invariance, PTL DEF ProgramSpec, ImplementsBag, Bag!Spec

-----------------------------------------------------------------------------
(* The scan of an ordinary command line.                                   *)

\* Which arguments are values: the recursion over the numbers of the arguments
\* is well defined, whatever the command line.
LEMMA ValuesAreDefined ==
    ASSUME NEW m \in Nat, NEW g
    PROVE  LET v[i \in 1 .. m] == i > 1 /\ ~v[i - 1] /\ TakesNext(g[i - 1])
           IN  v = [i \in 1 .. m |-> i > 1 /\ ~v[i - 1] /\ TakesNext(g[i - 1])]
<1> DEFINE Step(f, i) == i > 1 /\ ~f[i - 1] /\ TakesNext(g[i - 1])
           Upto(f, l) == \A i \in 1 .. m : i <= l => f[i] = Step(f, i)
           S == {l \in Nat : \E f : f = [i \in 1 .. m |-> f[i]] /\ Upto(f, l)}
           V == CHOOSE f : f = [i \in 1 .. m |-> Step(f, i)]
<1>1. 0 \in S
  <2> DEFINE f == [i \in 1 .. m |-> FALSE]
  <2>1. f = [i \in 1 .. m |-> f[i]]
    OBVIOUS
  <2>2. Upto(f, 0)
    <3>1. \A i \in 1 .. m : ~(i <= 0)
      OBVIOUS
    <3> QED
      BY <3>1
  <2> HIDE DEF f, Upto
  <2> QED
    BY <2>1, <2>2
<1>2. ASSUME NEW l \in Nat, l \in S PROVE l + 1 \in S
  <2>1. PICK f : f = [i \in 1 .. m |-> f[i]] /\ Upto(f, l)
    BY <1>2
  <2> DEFINE h == [i \in 1 .. m |-> Step(f, i)]
  <2>2. h = [i \in 1 .. m |-> h[i]]
    OBVIOUS
  <2>3. \A i \in 1 .. m : i <= l => f[i] = h[i]
    BY <2>1
  <2>4. Upto(h, l + 1)
    <3> SUFFICES ASSUME NEW i \in 1 .. m, i <= l + 1 PROVE h[i] = Step(h, i)
      OBVIOUS
    <3>1. h[i] = Step(f, i)
      OBVIOUS
    <3> HIDE DEF h
    <3>2. CASE i = 1
      BY <3>1, <3>2
    <3>3. CASE i # 1
      <4>1. i - 1 \in 1 .. m /\ i - 1 <= l
        BY <3>3
      <4>2. f[i - 1] = h[i - 1]
        BY <2>3, <4>1
      <4> QED
        BY <3>1, <4>2
    <3> QED
      BY <3>2, <3>3
  <2> HIDE DEF h, Upto
  <2> QED
    BY <2>2, <2>4
<1>3. m \in S
  <2> HIDE DEF S
  <2> QED
    BY <1>1, <1>2, Induction
<1>4. PICK f : f = [i \in 1 .. m |-> f[i]] /\ Upto(f, m)
  BY <1>3
<1>5. f = [i \in 1 .. m |-> Step(f, i)]
  <2>0. \A i \in 1 .. m : i <= m
    OBVIOUS
  <2>1. \A i \in 1 .. m : f[i] = Step(f, i)
    BY <1>4, <2>0, Zenon
  <2> HIDE DEF Step
  <2> QED
    BY <1>4, <2>1
<1>6. V = [i \in 1 .. m |-> Step(V, i)]
  BY <1>5
<1> QED
  BY <1>6 DEF V

\* An argument is a value exactly when it follows one that takes it and is none.
LEMMA ValuesFollow ==
    ASSUME ArgumentsAreKept
    PROVE  \A i \in 1 .. Len(given) :
              IsValue[i] <=> i > 1 /\ ~IsValue[i - 1] /\ TakesNext(given[i - 1])
<1>1. MaxArguments \in Nat /\ Len(given) <= MaxArguments /\ Len(given) \in Nat
  BY ArgumentsAssumption DEF ArgumentsAreKept
<1>2. IsValue = [i \in 1 .. MaxArguments |-> i > 1 /\ ~IsValue[i - 1] /\ TakesNext(given[i - 1])]
  BY <1>1, ValuesAreDefined DEF IsValue
<1>3. \A i \in 1 .. Len(given) : i \in 1 .. MaxArguments
  BY <1>1
<1>4. \A i \in 1 .. MaxArguments : IsValue[i] = (i > 1 /\ ~IsValue[i - 1] /\ TakesNext(given[i - 1]))
  BY <1>2, Zenon
<1> QED
  BY <1>3, <1>4

\* What one more argument adds to the meaning of the command line.
LEMMA MeantNext ==
    ASSUME ArgumentsAreKept, NEW i \in 1 .. Len(given)
    PROVE  /\ i \notin Read => MeantBefore(i + 1) = MeantBefore(i)
           /\ i \in Read =>
                 MeantBefore(i + 1) =
                    [name \in DOMAIN Default |->
                        IF name \in Names(given[i]) THEN Setting(name, MeantValue(i))
                        ELSE MeantBefore(i)[name]]
           /\ NoWordBefore(i + 1) <=> NoWordBefore(i) /\ i \notin Words
<1>1. DOMAIN given = 1 .. Len(given) /\ Len(given) \in Nat /\ i \in Nat
  BY DEF ArgumentsAreKept
<1>2. \A j \in 1 .. Len(given) : j < i + 1 <=> j < i \/ j = i
  BY <1>1
<1>3. Read \subseteq 1 .. Len(given) /\ Words \subseteq Read /\ \A name : NamedAt(name) \subseteq Read
  BY <1>1 DEF Read, Words, NamedAt
<1>4. \A name : NamedBefore(name, i + 1) =
                  NamedBefore(name, i) \union (IF i \in NamedAt(name) THEN {i} ELSE {})
  BY <1>2, <1>3 DEF NamedBefore
<1>5. ASSUME i \notin Read PROVE MeantBefore(i + 1) = MeantBefore(i)
  <2>1. \A name : NamedBefore(name, i + 1) = NamedBefore(name, i)
    BY <1>3, <1>4, <1>5
  <2> QED
    BY <2>1 DEF MeantBefore
<1>6. ASSUME i \in Read
      PROVE  MeantBefore(i + 1) =
                [name \in DOMAIN Default |->
                    IF name \in Names(given[i]) THEN Setting(name, MeantValue(i))
                    ELSE MeantBefore(i)[name]]
  <2>1. ASSUME NEW name \in DOMAIN Default
        PROVE  (IF NamedBefore(name, i + 1) = {} THEN Default[name]
                ELSE Setting(name, MeantValue(LastOf(NamedBefore(name, i + 1)))))
             = (IF name \in Names(given[i]) THEN Setting(name, MeantValue(i))
                ELSE MeantBefore(i)[name])
    <3>1. CASE name \in Names(given[i])
      <4>1. i \in NamedBefore(name, i + 1)
        BY <1>2, <1>6, <3>1 DEF NamedBefore, NamedAt
      <4>2. \A j \in NamedBefore(name, i + 1) : j \in Nat /\ j <= i
        <5>1. \A j \in NamedAt(name) : j \in 1 .. Len(given)
          BY <1>3
        <5>2. \A j \in NamedBefore(name, i + 1) : j \in NamedAt(name) /\ j < i + 1
          BY DEF NamedBefore
        <5> QED
          BY <1>1, <5>1, <5>2
      <4>3. LastOf(NamedBefore(name, i + 1)) = i
        <5>1. PICK N : N = NamedBefore(name, i + 1)
          OBVIOUS
        <5>2. i \in N /\ \A j \in N : j \in Nat /\ j <= i
          BY <4>1, <4>2, <5>1
        <5>3. \A j \in N : (\A l \in N : l <= j) => j = i
          BY <1>1, <5>2
        <5>4. LastOf(N) = i
          BY <5>2, <5>3 DEF LastOf
        <5> QED
          BY <5>1, <5>4
      <4> QED
        BY <3>1, <4>1, <4>3
    <3>2. CASE name \notin Names(given[i])
      <4>1. i \notin NamedAt(name)
        BY <3>2 DEF NamedAt
      <4>2. NamedBefore(name, i + 1) = NamedBefore(name, i)
        BY <1>4, <4>1
      <4> QED
        BY <3>2, <4>2 DEF MeantBefore
    <3> QED
      BY <3>1, <3>2
  <2> QED
    BY <2>1 DEF MeantBefore
<1>7. NoWordBefore(i + 1) <=> NoWordBefore(i) /\ i \notin Words
  <2>1. \A j \in Words : j \in 1 .. Len(given) /\ (j >= i + 1 <=> j >= i /\ j # i)
    BY <1>1, <1>3
  <2> QED
    BY <2>1 DEF NoWordBefore
<1> QED
  BY <1>5, <1>6, <1>7

\* An option without its value is not legal, so that the scan does not pass over
\* the last argument.
LEMMA ValueIsThere ==
    ASSUME ArgumentsAreKept, Ordinary, ReadOption, at \in 1 .. Len(argv)
    PROVE  \/ /\ TakesNext(argv[at]) /\ at' = at + 2
              /\ at + 1 < Len(argv) /\ ValueFor(argv[at]) = argv[at + 1].text
           \/ ~TakesNext(argv[at]) /\ at' = at + 1
<1>1. PICK m \in 1 .. Len(given) : argv[at] = given[m]
  BY DEF ArgumentsAreKept
<1>2. PICK a \in Arguments : a = argv[at] /\ a = given[m]
  BY <1>1, ValuesAreGiven
<1>3. Consumed(a) <= 1 /\ Consumed(a) \in Nat /\ (Consumed(a) = 0 <=> ~TakesNext(a))
  <2>1. m \in DOMAIN given
    BY DEF ArgumentsAreKept
  <2>2. Consumed(given[m]) <= 1
    BY <2>1 DEF Ordinary
  <2> QED
    BY <1>2, <2>2, ConsumedCounts
<1>4. (\A name \in Names(a) : Legal(name, ValueFor(a))) /\ at' = at + 1 + Consumed(a)
  BY <1>2 DEF ReadOption
<1>5. CASE ~TakesNext(a)
  BY <1>2, <1>3, <1>4, <1>5
<1>6. CASE TakesNext(a)
  <2>1. Consumed(a) = 1
    BY <1>3, <1>6
  <2>2. PICK name \in Names(a) : name \in Consuming
    BY <1>6 DEF TakesNext
  <2>3. a.value = NoText /\ ValueFor(a) = FreeArgument
    BY <1>6 DEF TakesNext, ValueFor
  <2>4. Legal(name, FreeArgument)
    BY <1>4, <2>2, <2>3
  <2>5. FreeArgument # NoText
    BY <2>2, <2>4 DEF Legal, Consuming, ValuesOf, NoText
  <2> QED
    BY <1>2, <1>4, <1>6, <2>1, <2>3, <2>5 DEF FreeArgument
<1> QED
  BY <1>2, <1>5, <1>6

\* An option sets what it means.
LEMMA SettingIsMeant ==
    ASSUME ArgumentsAreKept, Ordinary, ReadOption, at \in 1 .. Len(argv), argv = given
    PROVE  \A name \in Names(given[at]) :
              name \in DOMAIN Default /\ Setting(name, ValueFor(given[at])) = Setting(name, MeantValue(at))
<1> SUFFICES ASSUME NEW name \in Names(given[at])
             PROVE  /\ name \in DOMAIN Default
                    /\ Setting(name, ValueFor(given[at])) = Setting(name, MeantValue(at))
  OBVIOUS
<1>1. Legal(name, ValueFor(given[at]))
  BY DEF ReadOption
<1>2. name \in DOMAIN Default
  BY <1>1 DEF Legal, Default, ValuesOf
<1>3. CASE name \notin Consuming
  BY <1>2, <1>3 DEF Setting
<1>4. CASE name \in Consuming
  <2>1. CASE TakesNext(given[at])
    <3>1. ValueFor(given[at]) = given[at + 1].text
      BY <2>1, ValueIsThere
    <3> QED
      BY <1>2, <2>1, <3>1 DEF MeantValue
  <2>2. CASE ~TakesNext(given[at])
    <3>1. given[at].value # NoText
      BY <1>4, <2>2 DEF TakesNext
    <3>2. ValueFor(given[at]) # NoText
      BY <1>1, <1>4 DEF Legal, Consuming, ValuesOf, NoText
    <3>3. ValueFor(given[at]) = given[at].value
      BY <3>1, <3>2 DEF ValueFor
    <3> QED
      BY <1>2, <2>2, <3>3 DEF MeantValue
  <2> QED
    BY <2>1, <2>2
<1> QED
  BY <1>3, <1>4

\* The meaning of a command line does not change while it is read.
LEMMA SameMeaning ==
    ASSUME given' = given, NEW n, n = at'
    PROVE  /\ IsValue' = IsValue /\ Words' = Words
           /\ NoWordBefore(at)' <=> NoWordBefore(n)
           /\ MeantBefore(at)' = MeantBefore(n)
           /\ Ordinary' <=> Ordinary
<1>1. IsValue' = IsValue
  BY DEF IsValue
<1>2. Read' = Read
  BY <1>1 DEF Read
<1>3. Words' = Words
  BY <1>2 DEF Words
<1>4. \A name : NamedAt(name)' = NamedAt(name)
  BY <1>2 DEF NamedAt
<1>5. \A name : NamedBefore(name, at)' = NamedBefore(name, n)
  BY <1>4 DEF NamedBefore
<1>6. MeantBefore(at)' = MeantBefore(n)
  BY <1>5 DEF MeantBefore, MeantValue
<1> QED
  BY <1>1, <1>3, <1>6 DEF NoWordBefore, Ordinary

\* The first part of the scan reads an option as it is given.
LEMMA ReadOptionScans ==
    ASSUME RunInv, ScanIsOrdinary, Ordinary, ReadOption PROVE ScanIsOrdinary'
<1>1. /\ ArgumentsAreKept /\ at \in 1 .. Len(argv) /\ stage = "options"
      /\ DOMAIN options = DOMAIN Default
      /\ UNCHANGED <<given, argv, positional_count, stage>>
      /\ Len(argv) = Len(given) /\ Len(given) \in Nat /\ DOMAIN given = 1 .. Len(given)
      /\ argv[at].kind # "word"
  <2>1. ArgumentsAreKept /\ at \in Nat \ {0} /\ DOMAIN options = DOMAIN Default
    BY DEF RunInv, ProgramTypeOK
  <2>2. /\ stage = "options" /\ at <= Len(argv) /\ argv[at].kind \in {"long", "short"}
        /\ UNCHANGED <<given, argv, positional_count, stage>>
    BY DEF ReadOption, Scanning
  <2>3. Len(argv) = Len(given) /\ Len(given) \in Nat /\ DOMAIN given = 1 .. Len(given)
    BY <2>1 DEF ArgumentsAreKept
  <2> QED
    BY <2>1, <2>2, <2>3
<1>2. \/ TakesNext(argv[at]) /\ at' = at + 2 /\ at + 1 < Len(argv)
      \/ ~TakesNext(argv[at]) /\ at' = at + 1
  BY <1>1, ValueIsThere
<1>3. ASSUME positional_count = 0
      PROVE  /\ at' <= Len(given) + 1
             /\ at' <= Len(given) => ~IsValue[at']
             /\ NoWordBefore(at') /\ options' = MeantBefore(at')
  <2>1. argv = given /\ ~IsValue[at] /\ NoWordBefore(at) /\ options = MeantBefore(at)
    BY <1>1, <1>3 DEF ScanIsOrdinary
  <2>2. at \in Read /\ at \notin Words
    BY <1>1, <2>1 DEF Read, Words
  <2>3. NoWordBefore(at + 1)
    BY <1>1, <2>1, <2>2, MeantNext
  <2>4. options' = MeantBefore(at + 1)
    <3>1. MeantBefore(at + 1) =
             [name \in DOMAIN Default |->
                 IF name \in Names(given[at]) THEN Setting(name, MeantValue(at))
                 ELSE MeantBefore(at)[name]]
      BY <1>1, <2>2, MeantNext
    <3>2. options' = [name \in DOMAIN Default |->
                 IF name \in Names(given[at]) THEN Setting(name, ValueFor(given[at]))
                 ELSE options[name]]
      BY <1>1, <2>1 DEF ReadOption
    <3>3. \A name \in Names(given[at]) :
              Setting(name, ValueFor(given[at])) = Setting(name, MeantValue(at))
      BY <1>1, <2>1, SettingIsMeant
    <3> QED
      BY <2>1, <3>1, <3>2, <3>3
  <2>5. \A i \in 1 .. Len(given) : IsValue[i] <=> i > 1 /\ ~IsValue[i - 1] /\ TakesNext(given[i - 1])
    BY <1>1, ValuesFollow
  <2>6. CASE ~TakesNext(argv[at])
    <3>1. at' = at + 1
      BY <1>2, <2>6
    <3>2. at + 1 <= Len(given) => ~IsValue[at + 1]
      <4> SUFFICES ASSUME at + 1 <= Len(given) PROVE ~IsValue[at + 1]
        OBVIOUS
      <4>1. at + 1 \in 1 .. Len(given) /\ (at + 1) - 1 = at
        BY <1>1
      <4> QED
        BY <2>1, <2>5, <2>6, <4>1
    <3> QED
      BY <1>1, <2>3, <2>4, <3>1, <3>2
  <2>7. CASE TakesNext(argv[at])
    <3>1. at' = at + 2 /\ at + 1 < Len(given) /\ at + 1 \in 1 .. Len(given) /\ at + 2 \in 1 .. Len(given)
          /\ (at + 1) - 1 = at /\ (at + 2) - 1 = at + 1 /\ (at + 1) + 1 = at + 2
      BY <1>1, <1>2, <2>7
    <3>2. IsValue[at + 1]
      BY <1>1, <2>1, <2>5, <2>7, <3>1
    <3>3. ~IsValue[at + 2]
      BY <2>5, <3>1, <3>2
    <3>4. at + 1 \notin Read /\ at + 1 \notin Words
      BY <3>2 DEF Read, Words
    <3>5. MeantBefore(at + 2) = MeantBefore(at + 1) /\ NoWordBefore(at + 2)
      BY <1>1, <2>3, <3>1, <3>4, MeantNext
    <3> QED
      BY <2>4, <3>1, <3>3, <3>5
  <2> QED
    BY <2>6, <2>7
<1>4. ASSUME positional_count = 1
      PROVE  at' <= Len(argv) /\ argv[Len(argv)].kind = "word"
  <2>1. at <= Len(argv) /\ argv[Len(argv)].kind = "word"
    BY <1>1, <1>4 DEF ScanIsOrdinary
  <2>2. at # Len(argv)
    BY <1>1, <2>1
  <2> QED
    BY <1>1, <1>2, <2>1, <2>2
<1>5. positional_count = 0 => argv = given
  BY <1>1 DEF ScanIsOrdinary
<1>6. PICK n : n = at'
  OBVIOUS
<1>7. /\ IsValue' = IsValue
      /\ NoWordBefore(at)' <=> NoWordBefore(n)
      /\ MeantBefore(at)' = MeantBefore(n)
  BY <1>1, <1>6, SameMeaning
<1> QED
  BY <1>1, <1>3, <1>4, <1>5, <1>6, <1>7 DEF ScanIsOrdinary

\* The first positional argument is moved to the end: read for good when it is
\* there already, and met again by every scan that goes on.
LEMMA ReadPositionalScans ==
    ASSUME RunInv, ScanIsOrdinary, Ordinary, ReadPositional PROVE ScanIsOrdinary'
<1>1. /\ ArgumentsAreKept /\ at \in 1 .. Len(argv) /\ stage = "options"
      /\ argv[at].kind = "word" /\ positional_count \in Nat
      /\ UNCHANGED <<given, options, stage>> /\ at' = at + 1 /\ positional_count' = positional_count + 1
  BY DEF RunInv, ProgramTypeOK, ArgumentsAreKept, ReadPositional, Scanning
<1>2. /\ Len(argv) = Len(given) /\ Len(given) \in Nat /\ DOMAIN given = 1 .. Len(given)
      /\ argv \in Seq(Arguments) /\ given \in Seq(Arguments)
  BY <1>1 DEF ArgumentsAreKept
<1>3. PICK k \in Nat : k = Len(argv)
  BY <1>2
<1>4. /\ Len(argv') = k /\ argv' \in Seq(Arguments)
      /\ \A n \in 1 .. k : argv'[n] = IF n < at THEN argv[n] ELSE IF n < k THEN argv[n + 1] ELSE argv[at]
  BY <1>1, <1>2, <1>3, MovedArguments DEF ReadPositional
<1>5. argv'[k] = argv[at]
  BY <1>1, <1>3, <1>4
<1>6. ASSUME positional_count = 0, at = k
      PROVE  /\ argv' = given' /\ at' = Len(given) + 1
             /\ Len(given) \in Words /\ NoWordBefore(Len(given)) /\ options' = MeantBefore(at + 1)
  <2>1. argv = given /\ ~IsValue[at] /\ NoWordBefore(at) /\ options = MeantBefore(at)
    BY <1>1, <1>2, <1>6 DEF ScanIsOrdinary
  <2>2. \A n \in 1 .. k : argv'[n] = argv[n]
    BY <1>3, <1>4, <1>5, <1>6
  <2>3. argv' = argv
    BY <1>2, <1>3, <1>4, <2>2
  <2>4. at \in Read /\ at \in Words
    BY <1>1, <1>2, <2>1 DEF Read, Words
  <2>5. given[at].names = <<>>
    BY <1>1, <1>2, <2>1, ArgumentsAssumption
  <2>6. Names(given[at]) = {}
    BY <2>5 DEF Names
  <2>7. MeantBefore(at + 1) = MeantBefore(at)
    <3>1. MeantBefore(at + 1) =
             [name \in DOMAIN Default |->
                 IF name \in Names(given[at]) THEN Setting(name, MeantValue(at))
                 ELSE MeantBefore(at)[name]]
      BY <1>1, <1>2, <2>4, MeantNext
    <3>2. MeantBefore(at) = [name \in DOMAIN Default |-> MeantBefore(at)[name]]
      BY DEF MeantBefore
    <3> QED
      BY <2>6, <3>1, <3>2
  <2> QED
    BY <1>1, <1>2, <1>3, <1>6, <2>1, <2>3, <2>4, <2>7
<1>7. ASSUME positional_count = 0, at # k
      PROVE  at' <= Len(argv') /\ argv'[Len(argv')].kind = "word"
  BY <1>1, <1>3, <1>4, <1>5, <1>7
<1>8. PICK n : n = at'
  OBVIOUS
<1>9. /\ Words' = Words
      /\ MeantBefore(at)' = MeantBefore(n)
  BY <1>1, <1>8, SameMeaning
<1>10. NoWordBefore(Len(given))' <=> NoWordBefore(Len(given))
  BY <1>1, <1>9 DEF NoWordBefore
<1>11. positional_count' = 1 => positional_count = 0
  BY <1>1
<1>12. positional_count' # 0
  BY <1>1
<1>13. CASE positional_count = 0 /\ at = k
  BY <1>1, <1>6, <1>8, <1>9, <1>10, <1>12, <1>13 DEF ScanIsOrdinary
<1>14. CASE ~(positional_count = 0 /\ at = k)
  BY <1>1, <1>7, <1>11, <1>12, <1>14 DEF ScanIsOrdinary
<1> QED
  BY <1>13, <1>14

\* The scan of an ordinary command line ends behind its last argument.
LEMMA EndScans ==
    ASSUME RunInv, ScanIsOrdinary, Ordinary, EndScan PROVE ScanIsOrdinary'
<1>1. /\ ArgumentsAreKept /\ at \in Nat \ {0} /\ stage = "options"
      /\ at <= Len(argv) => argv[at].kind = "separator"
      /\ UNCHANGED <<given, argv, at, positional_count, options>>
  BY DEF RunInv, ProgramTypeOK, EndScan, scan
<1>2. at > Len(argv)
  <2> SUFFICES ASSUME at <= Len(argv) PROVE FALSE
    BY <1>1 DEF ArgumentsAreKept
  <2>1. at \in 1 .. Len(argv) /\ argv[at].kind = "separator"
    BY <1>1
  <2>2. PICK m \in 1 .. Len(given) : argv[at] = given[m]
    BY <1>1, <2>1 DEF ArgumentsAreKept
  <2>3. m \in DOMAIN given
    BY <1>1 DEF ArgumentsAreKept
  <2> QED
    BY <2>1, <2>2, <2>3 DEF Ordinary
<1>3. ~(at <= Len(argv))
  BY <1>1, <1>2 DEF ArgumentsAreKept
<1>4. PICK n : n = at'
  OBVIOUS
<1>5. n = at
  BY <1>1, <1>4
<1>6. /\ IsValue' = IsValue /\ Words' = Words
      /\ NoWordBefore(at)' <=> NoWordBefore(at)
      /\ MeantBefore(at)' = MeantBefore(at)
  BY <1>1, <1>4, <1>5, SameMeaning
<1>7. NoWordBefore(Len(given))' <=> NoWordBefore(Len(given))
  BY <1>1, <1>6 DEF NoWordBefore
<1> QED
  BY <1>1, <1>3, <1>6, <1>7 DEF ScanIsOrdinary

\* What an accepted command line means.
LEMMA AcceptedIsMeant ==
    ASSUME RunInv, ScanIsOrdinary PROVE ReadAsGiven
<1> SUFFICES ASSUME Accepted, Ordinary
             PROVE  /\ Cardinality(Words) = 1
                    /\ \A i \in Words : argv[Len(argv)] = given[i]
                    /\ options = MeantOptions
  BY DEF ReadAsGiven
<1>1. /\ ArgumentsAreKept
      /\ argv = given /\ at = Len(given) + 1
      /\ Len(given) \in Words /\ NoWordBefore(Len(given))
      /\ options = MeantBefore(at)
  BY DEF RunInv, Accepted, ScanIsOrdinary
<1>2. Len(given) \in Nat /\ Read \subseteq 1 .. Len(given) /\ Words \subseteq 1 .. Len(given)
      /\ \A name : NamedAt(name) \subseteq 1 .. Len(given)
  BY <1>1 DEF ArgumentsAreKept, Read, Words, NamedAt
<1>3. Words = {Len(given)}
  <2>1. \A j \in Words : j \in 1 .. Len(given) /\ j >= Len(given)
    BY <1>1, <1>2 DEF NoWordBefore
  <2>2. \A j \in Words : j = Len(given)
    BY <1>2, <2>1
  <2> QED
    BY <1>1, <2>2
<1>4. Cardinality(Words) = 1
  BY <1>3, FS_Singleton
<1>5. \A name : NamedBefore(name, at) = NamedAt(name)
  BY <1>1, <1>2 DEF NamedBefore
<1>6. MeantBefore(at) = MeantOptions
  BY <1>5 DEF MeantBefore, MeantOptions
<1> QED
  BY <1>1, <1>3, <1>4, <1>6

LEMMA ScanStep ==
    ASSUME RunInv, ScanIsOrdinary, [ProgramNext]_programVars PROVE ScanIsOrdinary'
<1>1. CASE UNCHANGED programVars
  <2>1. UNCHANGED <<given, argv, at, positional_count, options, stage>>
    BY <1>1 DEF programVars, scan
  <2>2. PICK n : n = at'
    OBVIOUS
  <2>3. n = at
    BY <2>1, <2>2
  <2>4. /\ IsValue' = IsValue /\ Words' = Words
        /\ NoWordBefore(at)' <=> NoWordBefore(at)
        /\ MeantBefore(at)' = MeantBefore(at)
        /\ Ordinary' <=> Ordinary
    BY <2>1, <2>2, <2>3, SameMeaning
  <2>5. NoWordBefore(Len(given))' <=> NoWordBefore(Len(given))
    BY <2>1, <2>4 DEF NoWordBefore
  <2> QED
    BY <2>1, <2>4, <2>5 DEF ScanIsOrdinary
<1>2. CASE ReadOption \/ ReadPositional \/ EndScan
  <2>1. given' = given
    BY <1>2 DEF ReadOption, ReadPositional, EndScan, scan
  <2>2. Ordinary' <=> Ordinary
    BY <2>1, SameMeaning
  <2>3. CASE Ordinary
    BY <1>2, <2>3, ReadOptionScans, ReadPositionalScans, EndScans
  <2>4. CASE ~Ordinary
    BY <2>2, <2>4 DEF ScanIsOrdinary
  <2> QED
    BY <2>3, <2>4
<1>3. CASE ProgramNext /\ ~ReadOption /\ ~ReadPositional /\ ~EndScan
  <2>1. stage' \notin {"options", "main"}
    BY <1>3 DEF ProgramNext, RejectOption, ShowHelp, RejectPositionals, MissingInput, Panic,
       OpenInput, Analyze, PanicInParser, Finish, OpenOutput, MissingOutput, Rendering, WriteBuffer, FailToWrite, PanicInBackEnd, Render, LoseRest, Exit
  <2> QED
    BY <2>1 DEF ScanIsOrdinary
<1> QED
  BY <1>1, <1>2, <1>3

LEMMA ScanInit ==
    ASSUME ProgramInit PROVE ScanIsOrdinary
<1>1. /\ argv = given /\ at = 1 /\ positional_count = 0 /\ options = Default
  BY DEF ProgramInit
<1>2. ArgumentsAreKept
  BY RunInit DEF RunInv
<1>3. DOMAIN given = 1 .. Len(given) /\ Len(given) \in Nat
  BY <1>2 DEF ArgumentsAreKept
<1>4. 1 <= Len(given) => ~IsValue[1]
  <2>1. 1 <= Len(given) => 1 \in 1 .. Len(given)
    BY <1>3
  <2> QED
    BY <1>2, <2>1, ValuesFollow
<1>5. \A j \in Read : j \in Nat /\ j >= 1
  BY <1>3 DEF Read
<1>6. NoWordBefore(1)
  BY <1>5 DEF NoWordBefore, Words
<1>7. \A name : NamedBefore(name, 1) = {}
  BY <1>5 DEF NamedBefore, NamedAt
<1>8. MeantBefore(1) = Default
  <2>1. MeantBefore(1) = [name \in DOMAIN Default |-> Default[name]]
    BY <1>7 DEF MeantBefore
  <2>2. Default = [name \in DOMAIN Default |-> Default[name]]
    BY DEF Default
  <2> QED
    BY <2>1, <2>2
<1> QED
  BY <1>1, <1>3, <1>4, <1>6, <1>8 DEF ScanIsOrdinary

\* Every ordinary command line that is accepted, of any length, is read as it is
\* written: by an invariant on what the scan has read so far.
THEOREM CommandLine == ProgramSpec => []ReadAsGiven
<1>1. ASSUME RunInv, ScanIsOrdinary, [ProgramNext]_programVars PROVE ScanIsOrdinary'
  BY <1>1, ScanStep
<1>2. RunInv /\ ScanIsOrdinary => ReadAsGiven
  BY AcceptedIsMeant
<1> QED
  BY <1>1, <1>2, ScanInit, Invariance, PTL DEF ProgramSpec
=============================================================================
