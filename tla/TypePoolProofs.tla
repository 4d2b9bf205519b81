--------------------------- MODULE TypePoolProofs ---------------------------
(***************************************************************************)
(* Proofs about TypePool, for any names, pointers, sizes and parameters,   *)
(* any bound of the cache and types of any depth: the search of the cache  *)
(* finds a type iff it is there, so that the cache implements              *)
(* InternedTypes, and types of the same tree share one address.  Proofs    *)
(* about TypePrinting: the Zig text of a type is read back as that type,   *)
(* and its C text for exactly the types that prefix and suffix are enough  *)
(* for.                                                                    *)
(***************************************************************************)
EXTENDS TypePrinting, WellFoundedInduction, TLAPS

\* What a type says besides its parts has as many items as its outline asks for.
DataLength(t) ==
    IF t.id = "function" THEN Len(t.parts) - 1
    ELSE IF t.id = "array" \/ t.id \in SentinelledPointers THEN 1
    ELSE 0

Data == Sentinels \union Sizes \union Parameters

TypeOver(known) ==
    {t \in [id : PointerIds \union {"array", "function"}, parts : Seq(known), data : Seq(Data)] :
        /\ t.parts # <<>> /\ Len(t.data) = DataLength(t)
        /\ IF t.id = "function" THEN t.data \in Seq(Parameters) ELSE Len(t.parts) = 1}

\* What is in the cache, and what is being interned, is a type; parts come first.
TypesAreFormed ==
    /\ \A a \in Interned : cache[a] \in TypeOver(NamedTypes \union 1 .. a - 1)
    /\ unchecked # None => unchecked \in TypeOver(Canonical)

\* No type is in the cache twice.
NoDuplicates == \A a, b \in Interned : cache[a] = cache[b] => a = b

\* The entries that the search has left behind hold another type.
SearchedInVain ==
    unchecked # None =>
        /\ Len(cache) < MaxCached
        /\ \A a \in entry + 1 .. Len(cache) : cache[a] # unchecked

Left(c) == TypeAt(c.type1)
Right(c) == TypeAt(c.type2)
Decided(c) == c.type1 = c.type2 \/ {c.type1, c.type2} \intersect NamedTypes # {}

\* So far the two types of a call do not differ.
EqualSoFar(c) ==
    /\ Decided(c) => c.equal = 0
    /\ ~Decided(c) => c.equal <= Len(Left(c).parts)
    /\ \A m \in 0 .. c.equal - 1 :
          ~Differs(Left(c), Right(c), m) /\ Left(c).parts[m + 1] = Right(c).parts[m + 1]

\* A call that waits for another one compares the next part of its types.
WaitsFor(c, d) ==
    /\ ~Decided(c) /\ ~Differs(Left(c), Right(c), c.equal)
    /\ c.equal < Len(Left(c).parts)
    /\ d.type1 = Left(c).parts[c.equal + 1] /\ d.type2 = Right(c).parts[c.equal + 1]

\* The ith call is one about older types than the call before.
ComparesOlder(i, c) ==
    /\ c.type1 \in NamedTypes \union 1 .. entry + 1 - i
    /\ i = 1 => c.type1 = entry /\ c.type2 = Unchecked
    /\ i # 1 => c.type2 \in Canonical

CallRecords == [type1 : NamedTypes \union Int, type2 : NamedTypes \union Int, equal : Nat]

CallsOf(stack) ==
    /\ stack \in Seq(CallRecords)
    /\ stack # <<>> => unchecked # None /\ entry # 0
    /\ \A i \in 1 .. Len(stack) :
          /\ ComparesOlder(i, stack[i])
          /\ EqualSoFar(stack[i])
          /\ i < Len(stack) => WaitsFor(stack[i], stack[i + 1])

CallsAreRight == CallsOf(calls)

IInv ==
    /\ cache \in Seq(TypeOver(NamedTypes \union Nat))
    /\ entry \in 0 .. Len(cache)
    /\ answer \in Canonical \union {None}
    /\ TypesAreFormed
    /\ NoDuplicates
    /\ SearchedInVain
    /\ CallsAreRight

-----------------------------------------------------------------------------
(* Types.                                                                  *)

\* resolve_type_inner asks for types over the addresses it knows.
LEMMA AskedTypesAreFormed ==
    ASSUME NEW known, NEW t \in TypesOf(known)
    PROVE  t \in TypeOver(known)
<1>1. ASSUME NEW p \in PointerIds, NEW u \in known, NEW d \in Seq(Data),
             t = [id |-> p, parts |-> <<u>>, data |-> d],
             Len(d) = IF p \in SentinelledPointers THEN 1 ELSE 0
      PROVE  t \in TypeOver(known)
  <2>1. p # "function" /\ p # "array"
    BY PoolAssumption
  <2>2. <<u>> \in Seq(known) /\ <<u>> # <<>> /\ Len(<<u>>) = 1
    OBVIOUS
  <2>3. DataLength(t) = Len(d)
    BY <1>1, <2>1 DEF DataLength
  <2> QED
    BY <1>1, <2>1, <2>2, <2>3 DEF TypeOver
<1>2. CASE t \in PointersTo(known)
  <2>1. CASE \E p \in PointerIds \ SentinelledPointers, u \in known :
                t = [id |-> p, parts |-> <<u>>, data |-> <<>>]
    <3>1. PICK p \in PointerIds \ SentinelledPointers, u \in known :
                t = [id |-> p, parts |-> <<u>>, data |-> <<>>]
      BY <2>1
    <3>2. p # "function" /\ p # "array" /\ p \notin SentinelledPointers
      BY PoolAssumption
    <3>3. DataLength(t) = 0
      BY <3>1, <3>2 DEF DataLength
    <3>4. <<>> \in Seq(Data) /\ Len(<<>>) = 0 /\ <<u>> \in Seq(known) /\ <<u>> # <<>> /\ Len(<<u>>) = 1
      OBVIOUS
    <3> QED
      BY <3>1, <3>2, <3>3, <3>4 DEF TypeOver
  <2>2. CASE \E p \in PointerIds \intersect SentinelledPointers, u \in known, s \in Sentinels :
                t = [id |-> p, parts |-> <<u>>, data |-> <<s>>]
    <3>1. PICK p \in PointerIds \intersect SentinelledPointers, u \in known, s \in Sentinels :
                t = [id |-> p, parts |-> <<u>>, data |-> <<s>>]
      BY <2>2
    <3>2. <<s>> \in Seq(Data) /\ Len(<<s>>) = 1
      BY DEF Data
    <3> QED
      BY <1>1, <3>1, <3>2
  <2> QED
    BY <1>2, <2>1, <2>2 DEF PointersTo
<1>3. CASE t \in ArraysOf(known)
  <2>1. PICK u \in known, n \in Sizes : t = [id |-> "array", parts |-> <<u>>, data |-> <<n>>]
    BY <1>3 DEF ArraysOf
  <2>2. <<n>> \in Seq(Data) /\ Len(<<n>>) = 1 /\ <<u>> \in Seq(known) /\ <<u>> # <<>> /\ Len(<<u>>) = 1
    BY DEF Data
  <2>3. DataLength(t) = 1
    BY <2>1 DEF DataLength
  <2> QED
    BY <2>1, <2>2, <2>3 DEF TypeOver
<1>4. CASE t \in FunctionsOf(known)
  <2> DEFINE Function(u, us, ps) == [id |-> "function", parts |-> <<u>> \o us, data |-> ps]
             OfLength(n) == {Function(u, us, ps) :
                                u \in known, us \in [1 .. n -> known], ps \in [1 .. n -> Parameters]}
  <2>1. FunctionsOf(known) = UNION {OfLength(n) : n \in 0 .. MaxParameters}
    BY DEF FunctionsOf
  <2>2. PICK n \in 0 .. MaxParameters : t \in OfLength(n)
    <3> HIDE DEF OfLength
    <3> QED
      BY <1>4, <2>1
  <2>3. PICK u \in known, us \in [1 .. n -> known], ps \in [1 .. n -> Parameters] :
                   t = Function(u, us, ps)
    <3> HIDE DEF Function
    <3> QED
      BY <2>2
  <2>4. n \in Nat /\ us \in Seq(known) /\ ps \in Seq(Parameters) /\ Len(us) = n /\ Len(ps) = n
    BY PoolAssumption
  <2>5. ps \in Seq(Data)
    BY <2>4 DEF Data
  <2>6. <<u>> \o us \in Seq(known) /\ Len(<<u>> \o us) = n + 1
    BY <2>4
  <2>7. <<u>> \o us # <<>>
    BY <2>4, <2>6
  <2> QED
    BY <2>3, <2>4, <2>5, <2>6, <2>7 DEF TypeOver, DataLength
<1> QED
  BY <1>2, <1>3, <1>4 DEF TypesOf

\* More addresses make more types.
LEMMA MoreTypes ==
    ASSUME NEW known, NEW more, known \subseteq more, NEW t \in TypeOver(known)
    PROVE  t \in TypeOver(more)
BY DEF TypeOver

\* The facts about a type that the comparison needs.
LEMMA FormOfType ==
    ASSUME NEW known, NEW t \in TypeOver(known)
    PROVE  /\ t = [id |-> t.id, parts |-> t.parts, data |-> t.data]
           /\ t.parts \in Seq(known) /\ Len(t.parts) \in Nat \ {0}
           /\ t.data \in Seq(Data) /\ Len(t.data) \in Nat
           /\ Len(t.data) = DataLength(t)
           /\ Len(t.data) <= Len(t.parts)
           /\ \A i \in 1 .. Len(t.parts) : t.parts[i] \in known
           /\ IsTypeOf(known, t)
<1>1. /\ t \in [id : PointerIds \union {"array", "function"}, parts : Seq(known), data : Seq(Data)]
      /\ t.parts # <<>> /\ Len(t.data) = DataLength(t)
  BY DEF TypeOver
<1>2. t.parts \in Seq(known) /\ Len(t.parts) \in Nat \ {0}
  BY <1>1
<1>3. Len(t.data) <= Len(t.parts)
  BY <1>1, <1>2 DEF DataLength
<1> QED
  BY <1>1, <1>2, <1>3 DEF IsTypeOf, Data

\* Two types are the same if no part and no item of their data differs: the
\* data is as long as the outline says.
LEMMA NoDifference ==
    ASSUME NEW known, NEW x \in TypeOver(known), NEW y \in TypeOver(known),
           \A m \in 0 .. Len(x.parts) : ~Differs(x, y, m),
           \A m \in 0 .. Len(x.parts) - 1 : x.parts[m + 1] = y.parts[m + 1]
    PROVE  x = y
<1>1. Len(x.parts) \in Nat /\ Len(y.parts) \in Nat
  BY FormOfType
<1>2. x.id = y.id /\ Len(x.parts) = Len(y.parts)
  BY <1>1 DEF Differs
<1>3. Len(x.data) = Len(y.data)
  <2>1. Len(x.data) = DataLength(x) /\ Len(y.data) = DataLength(y)
    BY FormOfType
  <2>2. DataLength(x) = DataLength(y)
    BY <1>2, Zenon DEF DataLength
  <2> QED
    BY <2>1, <2>2, Zenon
<1>4. \A i \in 1 .. Len(x.parts) : x.parts[i] = y.parts[i]
  <2> SUFFICES ASSUME NEW i \in 1 .. Len(x.parts) PROVE x.parts[i] = y.parts[i]
    OBVIOUS
  <2>1. i - 1 \in 0 .. Len(x.parts) - 1 /\ (i - 1) + 1 = i
    BY <1>1
  <2> QED
    BY <2>1
<1>5. x.parts = y.parts
  <2>1. x.parts \in Seq(known) /\ y.parts \in Seq(known)
    BY FormOfType
  <2> QED
    BY <2>1, <1>2, <1>4
<1>6. x.data = y.data
  <2>1. x.data \in Seq(Data) /\ y.data \in Seq(Data) /\ Len(x.data) <= Len(x.parts)
    BY FormOfType
  <2>2. \A i \in 1 .. Len(x.data) : x.data[i] = y.data[i]
    BY <2>1, <1>1 DEF Differs
  <2> QED
    BY <2>1, <2>2, <1>3
<1> QED
  BY <1>2, <1>5, <1>6, FormOfType

-----------------------------------------------------------------------------
(* The calls of apigen_type_eql.                                           *)

\* What is in a sequence.
LEMMA ElementsOf ==
    ASSUME NEW S, NEW q \in Seq(S), NEW i \in 1 .. Len(q)
    PROVE  q[i] \in S
OBVIOUS

\* What is in a sequence with another element at one place.
LEMMA ReplacedElement ==
    ASSUME NEW S, NEW q \in Seq(S), NEW j \in 1 .. Len(q), NEW e \in S
    PROVE  LET r == [q EXCEPT ![j] = e]
           IN  /\ r \in Seq(S) /\ Len(r) = Len(q) /\ r[j] = e
               /\ \A i \in 1 .. Len(q) : i # j => r[i] = q[i]
OBVIOUS

\* The types of a call that addresses do not decide.
LEMMA ComparedTypes ==
    ASSUME IInv, NEW i \in 1 .. Len(calls), ~Decided(calls[i])
    PROVE  /\ calls[i].type1 \in 1 .. entry + 1 - i
           /\ calls[i].type1 \in Interned
           /\ Left(calls[i]) = cache[calls[i].type1]
           /\ Left(calls[i]) \in TypeOver(NamedTypes \union 1 .. calls[i].type1 - 1)
           /\ Left(calls[i]) \in TypeOver(Canonical)
           /\ Right(calls[i]) \in TypeOver(Canonical)
           /\ i # 1 => calls[i].type2 \in Interned /\ Right(calls[i]) = cache[calls[i].type2]
<1> DEFINE c == calls[i]
<1>1. /\ calls # <<>> /\ unchecked # None /\ entry \in 1 .. Len(cache) /\ i \in Nat /\ Len(cache) \in Nat
      /\ ComparesOlder(i, c)
  BY DEF IInv, CallsAreRight, CallsOf
<1>2. c.type1 \notin NamedTypes /\ c.type2 \notin NamedTypes
  BY DEF Decided
<1>3. c.type1 \in 1 .. entry + 1 - i /\ c.type1 \in 1 .. Len(cache) /\ c.type1 # 0
  BY <1>1, <1>2 DEF ComparesOlder
<1>4. /\ Left(c) = cache[c.type1] /\ Left(c) \in TypeOver(NamedTypes \union 1 .. c.type1 - 1)
      /\ c.type1 \in Interned
  BY <1>3 DEF Left, TypeAt, Unchecked, IInv, TypesAreFormed, Interned
<1>5. Left(c) \in TypeOver(Canonical)
  <2>1. NamedTypes \union 1 .. c.type1 - 1 \subseteq Canonical
    BY <1>1, <1>3 DEF Canonical, Interned
  <2> QED
    BY <1>4, <2>1, MoreTypes
<1>6. CASE i = 1
  <2>1. Right(c) = unchecked
    BY <1>1, <1>6 DEF ComparesOlder, Right, TypeAt
  <2> QED
    BY <1>1, <1>3, <1>4, <1>5, <1>6, <2>1 DEF IInv, TypesAreFormed
<1>7. CASE i # 1
  <2>1. c.type2 \in Interned /\ c.type2 # 0
    BY <1>1, <1>2, <1>7 DEF ComparesOlder, Canonical, Interned
  <2>2. Right(c) = cache[c.type2]
    BY <2>1 DEF Right, TypeAt, Unchecked
  <2>3. Right(c) \in TypeOver(NamedTypes \union 1 .. c.type2 - 1)
    BY <2>1, <2>2 DEF IInv, TypesAreFormed
  <2>4. NamedTypes \union 1 .. c.type2 - 1 \subseteq Canonical
    BY <1>1, <2>1 DEF Canonical, Interned
  <2> QED
    BY <1>3, <1>4, <1>5, <1>7, <2>1, <2>2, <2>3, <2>4, MoreTypes
<1> QED
  BY <1>6, <1>7

\* The last call.
LEMMA LastCall ==
    ASSUME IInv, calls # <<>>
    PROVE  /\ Len(calls) \in Nat /\ Len(calls) >= 1 /\ Len(calls) \in 1 .. Len(calls)
           /\ Top = calls[Len(calls)]
           /\ Top \in CallRecords
           /\ ComparesOlder(Len(calls), Top) /\ EqualSoFar(Top)
           /\ ByAddress <=> Decided(Top)
<1>1. Len(calls) \in Nat /\ Len(calls) >= 1 /\ Len(calls) \in 1 .. Len(calls)
  BY DEF IInv, CallsAreRight, CallsOf
<1>2. Top = calls[Len(calls)] /\ (ByAddress <=> Decided(Top))
  BY DEF Top, ByAddress, SameAddress, Decided
<1>3. /\ calls \in Seq(CallRecords)
      /\ ComparesOlder(Len(calls), calls[Len(calls)]) /\ EqualSoFar(calls[Len(calls)])
  BY <1>1 DEF IInv, CallsAreRight, CallsOf
<1>4. calls[Len(calls)] \in CallRecords
  BY <1>1, <1>3, ElementsOf
<1> QED
  BY <1>1, <1>2, <1>3, <1>4

\* A call that returns true has compared two equal types.
LEMMA EqualTypes ==
    ASSUME IInv, calls # <<>>, Equal, ~Decided(Top)
    PROVE  Left(Top) = Right(Top)
<1>1. ~Unequal /\ Top.equal = Len(Left(Top).parts)
  BY LastCall DEF Equal, Left
<1>2. ~Differs(Left(Top), Right(Top), Top.equal)
  BY <1>1, LastCall DEF Unequal, Left, Right
<1>3. Left(Top) \in TypeOver(Canonical) /\ Right(Top) \in TypeOver(Canonical)
  BY LastCall, ComparedTypes
<1>4. Len(Left(Top).parts) \in Nat
  BY <1>3, FormOfType
<1>5. \A m \in 0 .. Top.equal - 1 :
          ~Differs(Left(Top), Right(Top), m) /\ Left(Top).parts[m + 1] = Right(Top).parts[m + 1]
  BY LastCall DEF EqualSoFar
<1>6. \A m \in 0 .. Len(Left(Top).parts) : ~Differs(Left(Top), Right(Top), m)
  BY <1>1, <1>2, <1>4, <1>5
<1> QED
  BY <1>1, <1>3, <1>5, <1>6, NoDifference

\* Two addresses are only found equal if they are the same.
LEMMA EqualAddresses ==
    ASSUME IInv, Len(calls) > 1, Equal
    PROVE  Top.type1 = Top.type2
<1>1. calls # <<>> /\ Len(calls) # 1
  BY DEF IInv, CallsAreRight, CallsOf
<1>2. CASE Decided(Top)
  BY <1>1, <1>2, LastCall DEF Equal, SameAddress
<1>3. CASE ~Decided(Top)
  <2>1. Left(Top) = Right(Top)
    BY <1>1, <1>3, EqualTypes
  <2>2. /\ Left(Top) = cache[Top.type1] /\ Top.type1 \in Interned
        /\ Right(Top) = cache[Top.type2] /\ Top.type2 \in Interned
    BY <1>1, <1>3, LastCall, ComparedTypes
  <2> QED
    BY <2>1, <2>2 DEF IInv, NoDuplicates
<1> QED
  BY <1>2, <1>3

\* If the entry were the type looked for, no call would return false: the first
\* compares a type with itself, and the second already a part with itself.
LEMMA UnequalEntry ==
    ASSUME IInv, calls # <<>>, Unequal
    PROVE  cache[entry] # unchecked
<1> SUFFICES ASSUME cache[entry] = unchecked PROVE FALSE
  OBVIOUS
<1>1. Len(calls) \in Nat /\ Len(calls) >= 1 /\ 1 \in 1 .. Len(calls)
  BY LastCall
<1>2. calls[1].type1 = entry /\ calls[1].type2 = Unchecked /\ entry \in 1 .. Len(cache)
  BY <1>1 DEF IInv, CallsAreRight, CallsOf, ComparesOlder
<1>3. ~Decided(calls[1])
  <2>1. entry \in Int /\ entry # 0 /\ Unchecked \in Int
    BY <1>2 DEF Unchecked
  <2> QED
    BY <1>2, <2>1, PoolAssumption DEF Decided, Unchecked
<1>4. Left(calls[1]) = Right(calls[1])
  BY <1>2 DEF Left, Right, TypeAt, Unchecked
<1>5. CASE Len(calls) = 1
  <2>1. Differs(Left(Top), Right(Top), Top.equal)
    BY <1>3, <1>5, LastCall DEF Unequal, Left, Right
  <2> QED
    BY <1>4, <1>5, <2>1, LastCall DEF Differs
<1>6. CASE Len(calls) # 1
  <2>1. 2 \in 1 .. Len(calls) /\ 1 < Len(calls)
    BY <1>1, <1>6
  <2>2. WaitsFor(calls[1], calls[2])
    BY <1>1, <2>1 DEF IInv, CallsAreRight, CallsOf
  <2>3. calls[2].type1 = calls[2].type2
    BY <1>4, <2>2 DEF WaitsFor
  <2>4. CASE Len(calls) = 2
    BY <2>3, <2>4 DEF Unequal, ByAddress, SameAddress, Top
  <2>5. CASE Len(calls) # 2
    <3>1. WaitsFor(calls[2], calls[2 + 1])
      <4> DEFINE n == Len(calls)
      <4>1. n \in Nat /\ n >= 1 /\ n # 1 /\ n # 2
        BY <1>1, <1>6, <2>5
      <4>2. 2 < n
        <5> HIDE DEF n
        <5> QED
          BY <4>1
      <4> QED
        BY <2>1, <4>2 DEF IInv, CallsAreRight, CallsOf
    <3> QED
      BY <2>3, <3>1 DEF WaitsFor, Decided
  <2> QED
    BY <2>4, <2>5
<1> QED
  BY <1>5, <1>6

-----------------------------------------------------------------------------
(* The invariant.                                                          *)

\* The cache is empty.
LEMMA InitIInv == Init => IInv
<1> SUFFICES ASSUME Init PROVE IInv
  OBVIOUS
<1>1. cache = <<>> /\ Len(cache) = 0 /\ calls = <<>> /\ Len(calls) = 0
  BY DEF Init
<1>2. cache \in Seq(TypeOver(NamedTypes \union Nat)) /\ calls \in Seq(CallRecords)
  BY <1>1
<1> QED
  BY <1>1, <1>2 DEF Init, IInv, TypesAreFormed, NoDuplicates, SearchedInVain, CallsAreRight, CallsOf,
                    Interned

\* A step that only changes the calls.
LEMMA OtherCalls ==
    ASSUME IInv, UNCHANGED <<cache, unchecked, entry, answer>>, CallsOf(calls')
    PROVE  IInv'
<1>1. CallsAreRight'
  BY DEF CallsAreRight, CallsOf, ComparesOlder, EqualSoFar, WaitsFor, Decided, Left, Right, TypeAt,
         Canonical, Interned
<1> QED
  BY <1>1 DEF IInv, TypesAreFormed, NoDuplicates, SearchedInVain, Canonical, Interned

\* Nothing has been searched yet.
LEMMA InternStep ==
    ASSUME IInv, NEW t \in TypesOf(Canonical), Intern(t)
    PROVE  IInv'
<1>1. calls = <<>> /\ calls' = <<>> /\ Len(calls') = 0
  BY DEF Intern, IInv, CallsAreRight, CallsOf
<1>2. CallsAreRight'
  <2>1. calls' \in Seq(CallRecords)
    BY <1>1
  <2> QED
    BY <1>1, <2>1 DEF CallsAreRight, CallsOf
<1>3. TypesAreFormed'
  <2>1. t \in TypeOver(Canonical)
    BY AskedTypesAreFormed
  <2> QED
    BY <2>1 DEF Intern, IInv, TypesAreFormed, Canonical, Interned
<1>4. Len(cache) \in Nat /\ entry' = Len(cache) /\ cache' = cache
  BY DEF IInv, Intern
<1>5. SearchedInVain'
  BY <1>4 DEF Intern, SearchedInVain
<1> QED
  BY <1>2, <1>3, <1>4, <1>5 DEF IInv, Intern, NoDuplicates, Canonical, Interned

\* The first call compares the entry with the type looked for.
LEMMA CompareStep ==
    ASSUME IInv, Compare
    PROVE  IInv'
<1> DEFINE c == Call(entry, Unchecked)
<1>1. calls' = <<c>> /\ Len(calls') = 1 /\ calls'[1] = c
  BY DEF Compare
<1>2. c.type1 = entry /\ c.type2 = Unchecked /\ c.equal = 0 /\ c \in CallRecords
  BY DEF Call, CallRecords, Unchecked, IInv
<1>3. entry \in 1 .. Len(cache) /\ Len(cache) \in Nat /\ Unchecked \in Int
  BY DEF Compare, IInv, Unchecked
<1>4. ComparesOlder(1, c)
  BY <1>2, <1>3 DEF ComparesOlder
<1>5. EqualSoFar(c)
  <2>1. ~Decided(c)
    BY <1>2, <1>3, PoolAssumption DEF Decided, Unchecked
  <2>2. Left(c) = cache[entry]
    BY <1>2, <1>3 DEF Left, TypeAt, Unchecked
  <2>3. Len(Left(c).parts) \in Nat
    <3>1. cache[entry] \in TypeOver(NamedTypes \union 1 .. entry - 1)
      BY <1>3 DEF IInv, TypesAreFormed, Interned
    <3> QED
      BY <2>2, <3>1, FormOfType
  <2> QED
    BY <1>2, <2>1, <2>3 DEF EqualSoFar
<1>6. calls' \in Seq(CallRecords)
  BY <1>1, <1>2
<1>7. CallsOf(calls')
  BY <1>1, <1>3, <1>4, <1>5, <1>6 DEF CallsOf, CallRecords, Compare
<1> QED
  BY <1>7, OtherCalls DEF Compare

\* A call that returns neither true nor false has a part left to compare.
LEMMA ComparePartStep ==
    ASSUME IInv, ComparePart
    PROVE  IInv'
<1> DEFINE k == Len(calls)
           n == Top.equal + 1
           d == Call(Left(Top).parts[n], Right(Top).parts[n])
<1>1. calls # <<>> /\ ~Unequal /\ ~Equal /\ calls' = Append(calls, d)
  BY DEF ComparePart, Left, Right
<1>2. ~Decided(Top) /\ ~Differs(Left(Top), Right(Top), Top.equal) /\ Top.equal # Len(Left(Top).parts)
  BY <1>1, LastCall DEF Unequal, Equal, Left, Right
<1>3. /\ k \in Nat /\ k >= 1 /\ k \in 1 .. k /\ Top = calls[k] /\ Top \in CallRecords
      /\ ComparesOlder(k, Top) /\ EqualSoFar(Top)
  BY <1>1, LastCall
<1>4. /\ Top.type1 \in 1 .. entry + 1 - k
      /\ Left(Top) \in TypeOver(NamedTypes \union 1 .. Top.type1 - 1)
      /\ Left(Top) \in TypeOver(Canonical) /\ Right(Top) \in TypeOver(Canonical)
  BY <1>2, <1>3, ComparedTypes
<1>5. Top.equal \in Nat /\ Len(Left(Top).parts) \in Nat
  BY <1>3, <1>4, FormOfType DEF CallRecords
<1>6. Top.equal < Len(Left(Top).parts)
  BY <1>2, <1>3, <1>5 DEF EqualSoFar
<1>7. Len(Left(Top).parts) = Len(Right(Top).parts)
  <2>1. ~Differs(Left(Top), Right(Top), 0)
    BY <1>2, <1>3, <1>5 DEF EqualSoFar
  <2> QED
    BY <2>1 DEF Differs
<1>8. n \in 1 .. Len(Left(Top).parts) /\ n \in 1 .. Len(Right(Top).parts)
  BY <1>5, <1>6, <1>7
<1>9. /\ d.type1 = Left(Top).parts[n] /\ d.type2 = Right(Top).parts[n] /\ d.equal = 0
      /\ d = [type1 |-> d.type1, type2 |-> d.type2, equal |-> d.equal]
  BY DEF Call
<1>10. d.type1 \in NamedTypes \union 1 .. Top.type1 - 1 /\ d.type2 \in Canonical /\ d.type1 \in Canonical
  BY <1>4, <1>8, <1>9, FormOfType
<1>11. /\ entry \in 1 .. Len(cache) /\ Len(cache) \in Nat
       /\ calls \in Seq(CallRecords) /\ unchecked # None
  BY <1>1 DEF IInv, CallsAreRight, CallsOf
<1>12. ComparesOlder(k + 1, d)
  <2>1. d.type1 \in NamedTypes \union 1 .. entry + 1 - (k + 1)
    <3>1. Top.type1 \in 1 .. entry + 1 - k
      BY <1>4
    <3>2. \A m \in 1 .. Top.type1 - 1 : m \in 1 .. entry + 1 - (k + 1)
      BY <1>3, <1>11, <3>1
    <3> QED
      BY <1>10, <3>2, Zenon
  <2>2. k + 1 # 1
    BY <1>3
  <2> QED
    BY <1>10, <2>1, <2>2, Zenon DEF ComparesOlder
<1>13. EqualSoFar(d)
  <2>1. CASE Decided(d)
    BY <2>1, <1>9 DEF EqualSoFar
  <2>2. CASE ~Decided(d)
    <3>1. d.type1 \in Interned /\ d.type1 # 0
      BY <2>2, <1>10, <1>11 DEF Decided, Canonical, Interned
    <3>2. Left(d) \in TypeOver(NamedTypes \union 1 .. d.type1 - 1)
      BY <3>1 DEF Left, TypeAt, Unchecked, IInv, TypesAreFormed
    <3>3. Len(Left(d).parts) \in Nat
      BY <3>2, FormOfType
    <3> QED
      BY <1>9, <2>2, <3>3 DEF EqualSoFar
  <2> QED
    BY <2>1, <2>2
<1>14. WaitsFor(Top, d)
  BY <1>2, <1>6, <1>9 DEF WaitsFor
<1>15. d \in CallRecords
  BY <1>9, <1>10, <1>11 DEF CallRecords, Canonical, Interned
<1>16. /\ Len(calls') = k + 1 /\ calls'[k + 1] = d /\ calls' \in Seq(CallRecords)
       /\ \A i \in 1 .. k : calls'[i] = calls[i]
  BY <1>1, <1>11, <1>15
<1>17. ASSUME NEW i \in 1 .. k + 1
       PROVE  /\ ComparesOlder(i, calls'[i]) /\ EqualSoFar(calls'[i])
              /\ i < k + 1 => WaitsFor(calls'[i], calls'[i + 1])
  <2>1. CASE i = k + 1
    BY <2>1, <1>3, <1>12, <1>13, <1>16
  <2>2. CASE i = k
    BY <2>2, <1>3, <1>14, <1>16
  <2>3. CASE i < k
    <3>1. i \in 1 .. k /\ i + 1 \in 1 .. k /\ i < Len(calls)
      BY <1>3, <2>3
    <3> QED
      BY <3>1, <1>16 DEF IInv, CallsAreRight, CallsOf
  <2> QED
    BY <2>1, <2>2, <2>3, <1>3
<1>18. CallsOf(calls')
  BY <1>11, <1>16, <1>17 DEF CallsOf
<1> QED
  BY <1>18, OtherCalls DEF ComparePart

\* The part on which two calls agree is the same type, so the caller may go on.
LEMMA PartIsEqualStep ==
    ASSUME IInv, PartIsEqual
    PROVE  IInv'
<1> DEFINE k == Len(calls)
           c == calls[k - 1]
           e == [c EXCEPT !.equal = @ + 1]
<1>1. calls # <<>> /\ Len(calls) > 1 /\ Equal /\ Top.type1 = Top.type2
  BY EqualAddresses DEF PartIsEqual, IInv, CallsAreRight, CallsOf
<1>2. k \in Nat /\ k > 1 /\ k \in 1 .. k /\ k - 1 \in 1 .. k /\ k - 1 \in Nat /\ k - 1 >= 1 /\ Top = calls[k]
  BY <1>1, LastCall
<1>3. calls \in Seq(CallRecords) /\ entry # 0 /\ unchecked # None
  BY <1>1 DEF IInv, CallsAreRight, CallsOf
<1>4. ComparesOlder(k - 1, c) /\ EqualSoFar(c) /\ WaitsFor(c, calls[k])
  <2>1. k - 1 < k /\ (k - 1) + 1 = k
    BY <1>2
  <2>2. WaitsFor(c, calls[(k - 1) + 1])
    BY <1>2, <2>1 DEF IInv, CallsAreRight, CallsOf
  <2> QED
    BY <1>2, <2>1, <2>2 DEF IInv, CallsAreRight, CallsOf
<1>5. c \in CallRecords
  BY <1>2, <1>3, ElementsOf
<1>6. e \in CallRecords /\ e.type1 = c.type1 /\ e.type2 = c.type2 /\ e.equal = c.equal + 1
  BY <1>5 DEF CallRecords
<1>7. Left(e) = Left(c) /\ Right(e) = Right(c) /\ (Decided(e) <=> Decided(c))
  BY <1>6 DEF Left, Right, Decided
<1>8. ~Decided(c)
  BY <1>4 DEF WaitsFor
<1>9. c.equal \in Nat /\ Len(Left(c).parts) \in Nat
  <2>1. Left(c) \in TypeOver(Canonical)
    BY <1>2, <1>8, ComparedTypes
  <2> QED
    BY <1>5, <2>1, FormOfType DEF CallRecords
<1>10. Left(c).parts[c.equal + 1] = Right(c).parts[c.equal + 1]
  BY <1>1, <1>2, <1>4 DEF WaitsFor
<1>11. EqualSoFar(e)
  <2>1. c.equal < Len(Left(c).parts)
    BY <1>4 DEF WaitsFor
  <2>2. e.equal <= Len(Left(e).parts)
    BY <1>6, <1>7, <1>9, <2>1
  <2>3. ASSUME NEW m \in 0 .. e.equal - 1
        PROVE  ~Differs(Left(e), Right(e), m) /\ Left(e).parts[m + 1] = Right(e).parts[m + 1]
    <3>1. CASE m = c.equal
      BY <3>1, <1>4, <1>7, <1>10 DEF WaitsFor
    <3>2. CASE m # c.equal
      <4>1. m \in 0 .. c.equal - 1
        BY <1>6, <1>9, <3>2
      <4> QED
        BY <1>4, <1>7, <4>1 DEF EqualSoFar
    <3> QED
      BY <3>1, <3>2
  <2> QED
    BY <1>7, <1>8, <2>2, <2>3 DEF EqualSoFar
<1>12. ComparesOlder(k - 1, e)
  BY <1>4, <1>6 DEF ComparesOlder
<1>13. calls' = [SubSeq(calls, 1, k - 1) EXCEPT ![k - 1] = e]
  <2> DEFINE rest == SubSeq(calls, 1, k - 1)
  <2>1. rest[k - 1] = c
    BY <1>2, <1>3
  <2>2. calls' = [rest EXCEPT ![k - 1].equal = @ + 1]
    BY DEF PartIsEqual
  <2> QED
    BY <2>1, <2>2
<1>14. /\ calls' \in Seq(CallRecords) /\ Len(calls') = k - 1 /\ calls'[k - 1] = e
       /\ \A i \in 1 .. k - 2 : calls'[i] = calls[i]
  <2> DEFINE rest == SubSeq(calls, 1, k - 1)
  <2>1. rest \in Seq(CallRecords) /\ Len(rest) = k - 1 /\ \A i \in 1 .. k - 1 : rest[i] = calls[i]
    BY <1>2, <1>3
  <2>2. \A i \in 1 .. k - 2 : i \in 1 .. k - 1 /\ i # k - 1
    BY <1>2
  <2>3. k - 1 \in 1 .. k - 1
    BY <1>2
  <2> HIDE DEF rest, e, c
  <2>4. calls' = [rest EXCEPT ![k - 1] = e]
    BY <1>13 DEF rest
  <2>5. /\ calls' \in Seq(CallRecords) /\ Len(calls') = k - 1 /\ calls'[k - 1] = e
        /\ \A i \in 1 .. k - 1 : i # k - 1 => calls'[i] = rest[i]
    BY <1>6, <2>1, <2>3, <2>4, ReplacedElement
  <2> QED
    BY <2>1, <2>2, <2>5
<1>15. ASSUME NEW i \in 1 .. k - 1
       PROVE  /\ ComparesOlder(i, calls'[i]) /\ EqualSoFar(calls'[i])
              /\ i < k - 1 => WaitsFor(calls'[i], calls'[i + 1])
  <2>1. CASE i = k - 1
    BY <2>1, <1>2, <1>11, <1>12, <1>14
  <2>2. CASE i < k - 1
    <3>1. i \in 1 .. k /\ i \in 1 .. k - 2 /\ i < k /\ i + 1 \in 1 .. k - 1
      BY <1>2, <2>2
    <3>2. ComparesOlder(i, calls[i]) /\ EqualSoFar(calls[i]) /\ WaitsFor(calls[i], calls[i + 1])
      BY <3>1 DEF IInv, CallsAreRight, CallsOf
    <3>3. calls'[i + 1].type1 = calls[i + 1].type1 /\ calls'[i + 1].type2 = calls[i + 1].type2
      <4>1. CASE i + 1 = k - 1
        BY <4>1, <1>6, <1>14
      <4>2. CASE i + 1 # k - 1
        <5>1. i + 1 \in 1 .. k - 2
          BY <1>2, <3>1, <4>2
        <5> QED
          BY <5>1, <1>14
      <4> QED
        BY <4>1, <4>2
    <3> QED
      BY <3>1, <3>2, <3>3, <1>14 DEF WaitsFor
  <2> QED
    BY <2>1, <2>2, <1>2
<1>16. CallsOf(calls')
  BY <1>3, <1>14, <1>15 DEF CallsOf
<1> QED
  BY <1>16, OtherCalls DEF PartIsEqual

\* The search goes on behind an entry that is another type.
LEMMA EntryDiffersStep ==
    ASSUME IInv, EntryDiffers
    PROVE  IInv'
<1>1. calls # <<>> /\ Unequal /\ calls' = <<>> /\ Len(calls') = 0 /\ entry' = entry - 1
      /\ UNCHANGED <<cache, unchecked, answer>>
  BY DEF EntryDiffers, NextEntry
<1>2. /\ entry \in 1 .. Len(cache) /\ Len(cache) \in Nat
  BY <1>1 DEF IInv, CallsAreRight, CallsOf
<1>3. cache[entry] # unchecked
  BY <1>1, UnequalEntry
<1>4. SearchedInVain'
  <2> SUFFICES ASSUME unchecked' # None
               PROVE  Len(cache') < MaxCached /\ \A a \in entry' + 1 .. Len(cache') : cache'[a] # unchecked'
    BY DEF SearchedInVain
  <2>1. Len(cache) < MaxCached /\ \A a \in entry + 1 .. Len(cache) : cache[a] # unchecked
    BY <1>1 DEF IInv, SearchedInVain
  <2>2. \A a \in entry .. Len(cache) : a = entry \/ a \in entry + 1 .. Len(cache)
    BY <1>2
  <2> QED
    BY <1>1, <1>2, <1>3, <2>1, <2>2
<1>5. CallsAreRight'
  <2>1. calls' \in Seq(CallRecords)
    BY <1>1
  <2> QED
    BY <1>1, <2>1 DEF CallsAreRight, CallsOf, CallRecords
<1>6. entry' \in 0 .. Len(cache')
  BY <1>1, <1>2
<1> QED
  BY <1>1, <1>4, <1>5, <1>6 DEF IInv, TypesAreFormed, NoDuplicates, Canonical, Interned

\* The answer is an entry.
LEMMA CacheHitStep ==
    ASSUME IInv, CacheHit
    PROVE  IInv' /\ entry \in Interned /\ cache[entry] = unchecked
<1>1. calls # <<>> /\ Len(calls) = 1 /\ Equal
  BY DEF CacheHit
<1>2. /\ entry \in 1 .. Len(cache) /\ Len(cache) \in Nat
      /\ Top.type1 = entry /\ Top.type2 = Unchecked
  BY <1>1, LastCall DEF IInv, CallsAreRight, CallsOf, ComparesOlder
<1>3. ~Decided(Top)
  BY <1>2, PoolAssumption DEF Decided, Unchecked
<1>4. Left(Top) = Right(Top)
  BY <1>1, <1>3, EqualTypes
<1>5. cache[entry] = unchecked
  BY <1>2, <1>4 DEF Left, Right, TypeAt, Unchecked
<1>6. /\ answer' = entry /\ unchecked' = None /\ entry' = 0 /\ cache' = cache
      /\ calls' = <<>> /\ Len(calls') = 0
  BY DEF CacheHit
<1>7. calls' \in Seq(CallRecords)
  BY <1>6
<1> QED
  BY <1>2, <1>5, <1>6, <1>7 DEF IInv, TypesAreFormed, NoDuplicates, SearchedInVain, CallsAreRight,
                                CallsOf, Canonical, Interned

\* A type that no entry is gets an entry of its own.
LEMMA CacheMissStep ==
    ASSUME IInv, CacheMiss
    PROVE  /\ IInv'
           /\ Len(cache) \in Nat /\ Len(cache') = Len(cache) + 1 /\ answer' = Len(cache) + 1
           /\ cache'[Len(cache) + 1] = unchecked
           /\ \A a \in Interned : cache'[a] = cache[a] /\ cache[a] # unchecked
<1> DEFINE k == Len(cache)
<1>1. /\ unchecked # None /\ entry = 0 /\ unchecked' = None /\ entry' = 0 /\ calls' = calls
      /\ cache' = Append(cache, unchecked) /\ answer' = Len(cache')
  BY DEF CacheMiss, WithNewEntry
<1>2. cache \in Seq(TypeOver(NamedTypes \union Nat)) /\ k \in Nat
  BY DEF IInv
<1>3. calls = <<>> /\ Len(calls) = 0
  BY <1>1 DEF IInv, CallsAreRight, CallsOf
<1>4. unchecked \in TypeOver(Canonical) /\ unchecked \in TypeOver(NamedTypes \union Nat)
  <2>1. Canonical \subseteq NamedTypes \union Nat
    BY <1>2 DEF Canonical, Interned
  <2> QED
    BY <1>1, <2>1, MoreTypes DEF IInv, TypesAreFormed
<1>5. /\ Len(cache') = k + 1 /\ cache'[k + 1] = unchecked
      /\ \A a \in 1 .. k : cache'[a] = cache[a]
      /\ cache' \in Seq(TypeOver(NamedTypes \union Nat))
  BY <1>1, <1>2, <1>4
<1>6. \A a \in 1 .. k : cache[a] # unchecked
  BY <1>1, <1>2 DEF IInv, SearchedInVain
<1>7. TypesAreFormed'
  <2> SUFFICES ASSUME NEW a \in 1 .. k + 1
               PROVE  cache'[a] \in TypeOver(NamedTypes \union 1 .. a - 1)
    BY <1>1, <1>5 DEF TypesAreFormed, Interned
  <2>1. CASE a = k + 1
    <3>1. Canonical = NamedTypes \union 1 .. a - 1
      BY <1>2, <2>1 DEF Canonical, Interned
    <3> QED
      BY <2>1, <3>1, <1>4, <1>5
  <2>2. CASE a # k + 1
    <3>1. a \in 1 .. k
      BY <1>2, <2>2
    <3> QED
      BY <3>1, <1>5 DEF IInv, TypesAreFormed, Interned
  <2> QED
    BY <2>1, <2>2
<1>8. NoDuplicates'
  <2> SUFFICES ASSUME NEW a \in 1 .. k + 1, NEW b \in 1 .. k + 1, cache'[a] = cache'[b]
               PROVE  a = b
    BY <1>5 DEF NoDuplicates, Interned
  <2>1. a = k + 1 \/ a \in 1 .. k
    BY <1>2
  <2>2. b = k + 1 \/ b \in 1 .. k
    BY <1>2
  <2> QED
    BY <2>1, <2>2, <1>5, <1>6 DEF IInv, NoDuplicates, Interned
<1>9. CallsAreRight'
  <2>1. calls' \in Seq(CallRecords)
    BY <1>1, <1>3
  <2> QED
    BY <1>1, <1>3, <2>1 DEF CallsAreRight, CallsOf
<1>10. answer' \in Canonical' /\ entry' \in 0 .. Len(cache')
  BY <1>1, <1>2, <1>5 DEF Canonical, Interned
<1> QED
  BY <1>1, <1>2, <1>5, <1>6, <1>7, <1>8, <1>9, <1>10 DEF IInv, SearchedInVain, Interned

\* Every step of apigen_intern_type and of its comparisons keeps the invariant.
LEMMA NextIInv == IInv /\ [Next]_vars => IInv'
<1> SUFFICES ASSUME IInv, [Next]_vars PROVE IInv'
  OBVIOUS
<1>1. CASE \E t \in TypesOf(Canonical) : Intern(t)
  BY <1>1, InternStep
<1>2. CASE Compare
  BY <1>2, CompareStep
<1>3. CASE ComparePart
  BY <1>3, ComparePartStep
<1>4. CASE PartIsEqual
  BY <1>4, PartIsEqualStep
<1>5. CASE EntryDiffers
  BY <1>5, EntryDiffersStep
<1>6. CASE CacheHit
  BY <1>6, CacheHitStep
<1>7. CASE CacheMiss
  BY <1>7, CacheMissStep
<1>8. CASE UNCHANGED vars
  <2>1. CallsOf(calls')
    BY <1>8 DEF vars, IInv, CallsAreRight
  <2> QED
    BY <1>8, <2>1, OtherCalls DEF vars
<1> QED
  BY <1>1, <1>2, <1>3, <1>4, <1>5, <1>6, <1>7, <1>8 DEF Next

\* The search and the comparison, at every moment: what was passed over is
\* another type, what was compared so far is equal, and no type is kept twice.
THEOREM Invariance == Spec => []IInv
BY InitIInv, NextIInv, PTL DEF Spec

\* The parts of a type are older than it is, so that types are never cyclic, and
\* apigen_type_eql never recurses deeper than the cache is long.
THEOREM TypeCorrect == Spec => []TypeOK
<1>1. IInv => TypeOK
  <2> SUFFICES ASSUME IInv PROVE TypeOK
    OBVIOUS
  <2>1. Len(calls) <= Len(cache) + 1
    <3> DEFINE k == Len(calls)
    <3>1. Len(cache) \in Nat /\ k \in Nat /\ entry \in 0 .. Len(cache)
      BY DEF IInv, CallsAreRight, CallsOf
    <3>2. CASE k <= 1
      BY <3>1, <3>2
    <3>3. CASE k > 1
      <4>1. k - 1 \in 1 .. k /\ k - 1 < k
        BY <3>1, <3>3
      <4>2. ~Decided(calls[k - 1])
        BY <4>1 DEF IInv, CallsAreRight, CallsOf, WaitsFor
      <4>3. calls[k - 1].type1 \in 1 .. entry + 1 - (k - 1)
        BY <4>1, <4>2, ComparedTypes
      <4> QED
        BY <3>1, <4>3
    <3> QED
      BY <3>1, <3>2, <3>3
  <2>2. \A a \in Interned : IsTypeOf(NamedTypes \union 1 .. a - 1, cache[a])
    BY FormOfType DEF IInv, TypesAreFormed
  <2>3. unchecked = None \/ IsTypeOf(Canonical, unchecked)
    BY FormOfType DEF IInv, TypesAreFormed
  <2> QED
    BY <2>1, <2>2, <2>3 DEF IInv, TypeOK
<1> QED
  BY <1>1, Invariance, PTL

-----------------------------------------------------------------------------
(* The refinement.                                                         *)

\* A type in the cache has the address of its entry.
LEMMA AddressIsEntry ==
    ASSUME IInv
    PROVE  /\ DOMAIN AddressOf = {cache[a] : a \in Interned}
           /\ \A a \in Interned : AddressOf[cache[a]] = a
<1> SUFFICES ASSUME NEW a \in Interned PROVE AddressOf[cache[a]] = a
  BY DEF AddressOf
<1>1. AddressOf[cache[a]] = CHOOSE b \in Interned : cache[b] = cache[a]
  BY DEF AddressOf
<1>2. \A b \in Interned : cache[b] = cache[a] => b = a
  BY DEF IInv, NoDuplicates
<1> QED
  BY <1>1, <1>2

\* The cache, with the search and the recursive comparison, implements the
\* promise of include/apigen.h, "a canonical version of it for which pointer
\* equality is given": a known type is answered with its address, and only an
\* unknown type gets a new one.
THEOREM Refinement == Spec => ImplementsInternedTypes
<1>1. Init => Promise!Init
  <2> SUFFICES ASSUME Init PROVE Promise!Init
    OBVIOUS
  <2>1. Interned = {}
    BY DEF Init, Interned
  <2>2. AddressOf = [t \in {} |-> None]
    BY <2>1 DEF AddressOf
  <2> QED
    BY <2>2 DEF Init, Promise!Init
<1>2. IInv /\ IInv' /\ [Next]_vars => [Promise!Next]_<<AddressOf, unchecked, answer>>
  <2> SUFFICES ASSUME IInv, IInv', [Next]_vars
               PROVE  Promise!Next \/ UNCHANGED <<AddressOf, unchecked, answer>>
    OBVIOUS
  <2>1. cache' = cache => AddressOf' = AddressOf
    BY DEF AddressOf, Interned
  <2>2. CASE \E t \in TypesOf(Canonical) : Intern(t)
    BY <2>1, <2>2 DEF Intern, Promise!Next, Promise!Ask
  <2>3. CASE Compare \/ ComparePart \/ PartIsEqual \/ EntryDiffers \/ UNCHANGED vars
    BY <2>1, <2>3 DEF Compare, ComparePart, PartIsEqual, EntryDiffers, vars
  <2>4. CASE CacheHit
    <3>1. entry \in Interned /\ cache[entry] = unchecked /\ unchecked # None
      <4>1. calls # <<>>
        BY <2>4 DEF CacheHit
      <4> QED
        BY <2>4, <4>1, CacheHitStep DEF IInv, CallsAreRight, CallsOf
    <3>2. unchecked \in DOMAIN AddressOf /\ AddressOf[unchecked] = entry
      BY <3>1, AddressIsEntry
    <3> QED
      BY <2>1, <2>4, <3>1, <3>2 DEF CacheHit, Promise!Next, Promise!AnswerKnown, Promise!Known
  <2>5. CASE CacheMiss
    <3> DEFINE k == Len(cache)
    <3>1. /\ k \in Nat /\ Len(cache') = k + 1 /\ answer' = k + 1 /\ cache'[k + 1] = unchecked
          /\ \A a \in Interned : cache'[a] = cache[a] /\ cache[a] # unchecked
          /\ unchecked # None /\ unchecked' = None
      BY <2>5, CacheMissStep DEF CacheMiss
    <3>2. k + 1 \in 1 .. MaxCached
      BY <3>1, PoolAssumption DEF IInv, SearchedInVain
    <3>3. Interned' = Interned \union {k + 1} /\ k + 1 \notin Interned
      BY <3>1 DEF Interned
    <3>4. DOMAIN AddressOf = {cache[a] : a \in Interned} /\ \A a \in Interned : AddressOf[cache[a]] = a
      BY AddressIsEntry
    <3>5. DOMAIN AddressOf' = {cache'[a] : a \in Interned'} /\ \A a \in Interned' : AddressOf'[cache'[a]] = a
      <4>1. DOMAIN AddressOf' = {cache'[a] : a \in Interned'}
        BY DEF AddressOf
      <4>2. ASSUME NEW a \in Interned' PROVE AddressOf'[cache'[a]] = a
        <5>1. AddressOf'[cache'[a]] = CHOOSE b \in Interned' : cache'[b] = cache'[a]
          BY DEF AddressOf
        <5>2. \A b \in Interned' : cache'[b] = cache'[a] => b = a
          BY DEF IInv, NoDuplicates
        <5> QED
          BY <5>1, <5>2
      <4> QED
        BY <4>1, <4>2
    <3>6. unchecked \notin DOMAIN AddressOf
      BY <3>1, <3>4
    <3>7. DOMAIN AddressOf' = DOMAIN AddressOf \union {unchecked}
      BY <3>1, <3>3, <3>4, <3>5
    <3>8. \A t \in DOMAIN AddressOf' : AddressOf'[t] = IF t = unchecked THEN k + 1 ELSE AddressOf[t]
      BY <3>1, <3>3, <3>4, <3>5, <3>6, <3>7
    <3>9. AddressOf' = [t \in DOMAIN AddressOf \union {unchecked} |->
                           IF t = unchecked THEN k + 1 ELSE AddressOf[t]]
      <4>1. AddressOf' = [t \in DOMAIN AddressOf' |-> AddressOf'[t]]
        BY DEF AddressOf
      <4> QED
        BY <4>1, <3>7, <3>8
    <3>10. \A t \in DOMAIN AddressOf : AddressOf[t] # k + 1
      BY <3>3, <3>4
    <3>11. Promise!AnswerNew(k + 1)
      BY <3>1, <3>6, <3>9, <3>10 DEF Promise!AnswerNew, Promise!Known
    <3> QED
      BY <3>2, <3>11 DEF Promise!Next
  <2> QED
    BY <2>2, <2>3, <2>4, <2>5 DEF Next
<1> QED
  BY <1>1, <1>2, Invariance, PTL DEF Spec, ImplementsInternedTypes, Promise!Spec

-----------------------------------------------------------------------------
(* Trees.                                                                  *)

\* Induction over the natural numbers, for a set of them.
LEMMA Induction ==
    ASSUME NEW S, 0 \in S, \A n \in Nat : n \in S => n + 1 \in S
    PROVE  \A n \in Nat : n \in S
<1> SUFFICES ASSUME Nat \ S # {} PROVE FALSE
  OBVIOUS
<1> DEFINE Less == {ss \in Nat \X Nat : ss[1] < ss[2]}
<1>1. IsWellFoundedOn(Less, Nat)
  BY NatLessThanWellFounded DEF OpToRel
<1>2. PICK x \in Nat \ S : \A y \in Nat \ S : ~(<<y, x>> \in Less)
  <2>1. Nat \ S \subseteq Nat
    OBVIOUS
  <2> QED
    BY <1>1, <2>1, WFMin
<1>3. \A y \in Nat \ S : ~(y < x)
  BY <1>2
<1>4. x # 0 /\ x - 1 \in Nat
  BY <1>2
<1>5. x - 1 \in S
  BY <1>3, <1>4
<1> QED
  BY <1>2, <1>4, <1>5

\* What a type says of its tree, given the trees of its parts.
TreeOf(b, tree) ==
    IF b \in NamedTypes THEN [name |-> b]
    ELSE [id |-> cache[b].id, data |-> cache[b].data,
          parts |-> [i \in 1 .. Len(cache[b].parts) |-> tree[cache[b].parts[i]]]]

UpTo(n) == NamedTypes \union {a \in Interned : a <= n}

\* The tree of a type only depends on the trees of its parts.
LEMMA TreeNeedsParts ==
    ASSUME IInv, NEW n \in Nat, NEW b \in UpTo(n + 1), NEW t, NEW u,
           \A a \in UpTo(n) : t[a] = u[a]
    PROVE  TreeOf(b, t) = TreeOf(b, u)
<1>1. CASE b \in NamedTypes
  BY <1>1 DEF TreeOf
<1>2. CASE b \notin NamedTypes
  <2>1. b \in Interned /\ b <= n + 1 /\ Len(cache) \in Nat
    BY <1>2 DEF UpTo, IInv
  <2>2. cache[b] \in TypeOver(NamedTypes \union 1 .. b - 1)
    BY <2>1 DEF IInv, TypesAreFormed
  <2>3. \A i \in 1 .. Len(cache[b].parts) : cache[b].parts[i] \in UpTo(n)
    <3>1. NamedTypes \union 1 .. b - 1 \subseteq UpTo(n)
      BY <2>1 DEF UpTo, Interned
    <3> QED
      BY <2>2, <3>1, FormOfType
  <2> QED
    BY <1>2, <2>3 DEF TreeOf
<1> QED
  BY <1>1, <1>2

\* A type has a tree: it is built from the oldest entry to the newest.
LEMMA TreesExist ==
    ASSUME IInv
    PROVE  \E t : t = [b \in Canonical |-> TreeOf(b, t)]
<1> DEFINE Trees(t, n) == \A b \in UpTo(n) : t[b] = TreeOf(b, t)
           S == {n \in Nat : \E t : DOMAIN t = Canonical /\ t = [b \in Canonical |-> t[b]] /\ Trees(t, n)}
<1>0. Len(cache) \in Nat
  BY DEF IInv
<1>1. 0 \in S
  <2> DEFINE t == [b \in Canonical |-> TreeOf(b, <<>>)]
  <2>1. UpTo(0) = NamedTypes
    BY <1>0 DEF UpTo, Interned
  <2>2. \A b \in NamedTypes : b \in Canonical /\ TreeOf(b, <<>>) = TreeOf(b, t)
    BY DEF TreeOf, Canonical
  <2>3. Trees(t, 0)
    BY <2>1, <2>2
  <2> QED
    BY <2>3
<1>2. ASSUME NEW n \in Nat, n \in S PROVE n + 1 \in S
  <2>1. PICK t : DOMAIN t = Canonical /\ t = [b \in Canonical |-> t[b]] /\ Trees(t, n)
    BY <1>2
  <2> DEFINE u == [b \in Canonical |-> TreeOf(b, t)]
  <2>2. UpTo(n) \subseteq Canonical /\ UpTo(n + 1) \subseteq Canonical /\ UpTo(n) \subseteq UpTo(n + 1)
    BY <1>0 DEF UpTo, Canonical, Interned
  <2>3. \A a \in UpTo(n) : t[a] = u[a]
    BY <2>1, <2>2
  <2>4. \A b \in UpTo(n + 1) : TreeOf(b, t) = TreeOf(b, u)
    <3> HIDE DEF u
    <3> QED
      BY <2>3, TreeNeedsParts
  <2>5. Trees(u, n + 1)
    BY <2>2, <2>4
  <2>6. n + 1 \in Nat /\ DOMAIN u = Canonical /\ u = [b \in Canonical |-> u[b]]
    OBVIOUS
  <2> HIDE DEF u, Trees
  <2> QED
    BY <2>5, <2>6
<1>3. Len(cache) \in S
  <2> HIDE DEF S
  <2> QED
    BY <1>0, <1>1, <1>2, Induction
<1>4. PICK t : DOMAIN t = Canonical /\ t = [b \in Canonical |-> t[b]] /\ Trees(t, Len(cache))
  BY <1>3
<1>5. UpTo(Len(cache)) = Canonical
  BY <1>0 DEF UpTo, Canonical, Interned
<1>6. t = [b \in Canonical |-> TreeOf(b, t)]
  BY <1>4, <1>5
<1> QED
  BY <1>6

\* Tree is that function.
LEMMA TreeEquation ==
    ASSUME IInv, NEW a \in Canonical
    PROVE  Tree[a] = TreeOf(a, Tree)
<1> DEFINE t == CHOOSE t : t = [b \in Canonical |-> TreeOf(b, t)]
<1>1. t = [b \in Canonical |-> TreeOf(b, t)]
  BY TreesExist
<1>2. Tree = [b \in Canonical |-> t[b]]
  BY DEF Tree, TreeOf
<1> QED
  BY <1>1, <1>2

\* The fields of a tree.
LEMMA FieldsOfTree ==
    ASSUME NEW i, NEW d, NEW p, NEW t, t = [id |-> i, data |-> d, parts |-> p]
    PROVE  t.id = i /\ t.data = d /\ t.parts = p /\ DOMAIN t = {"id", "data", "parts"}
OBVIOUS

\* Equal trees are trees of one address, from the oldest entry to the newest: the
\* parts of the two types have equal trees, hence equal addresses, so the two
\* types are one entry.
LEMMA EqualTrees ==
    ASSUME IInv
    PROVE  \A a, b \in Canonical : Tree[a] = Tree[b] => a = b
<1> DEFINE Shared(n) == \A a, b \in UpTo(n) : Tree[a] = Tree[b] => a = b
           S == {n \in Nat : Shared(n)}
<1>0. Len(cache) \in Nat
  BY DEF IInv
<1>1. ASSUME NEW a \in NamedTypes, NEW b \in Canonical, Tree[a] = Tree[b] \/ Tree[b] = Tree[a]
      PROVE  a = b
  <2>1. a \in Canonical
    BY DEF Canonical
  <2>2. Tree[a] = [name |-> a]
    BY <2>1, TreeEquation DEF TreeOf
  <2>3. b \in NamedTypes
    <3> SUFFICES ASSUME b \notin NamedTypes PROVE FALSE
      OBVIOUS
    <3> DEFINE Parts == [i \in 1 .. Len(cache[b].parts) |-> Tree[cache[b].parts[i]]]
    <3>0. Tree[b] = [id |-> cache[b].id, data |-> cache[b].data, parts |-> Parts]
      BY TreeEquation DEF TreeOf
    <3>1. DOMAIN Tree[b] = {"id", "data", "parts"}
      <4> HIDE DEF Parts
      <4> QED
        BY <3>0, FieldsOfTree
    <3>2. DOMAIN Tree[a] = {"name"}
      BY <2>2
    <3> QED
      BY <1>1, <3>1, <3>2
  <2>4. Tree[b] = [name |-> b]
    BY <2>3, TreeEquation DEF TreeOf
  <2>5. Tree[a].name = a /\ Tree[b].name = b
    BY <2>2, <2>4
  <2> QED
    BY <1>1, <2>5
<1>2. 0 \in S
  <2>1. UpTo(0) = NamedTypes
    BY <1>0 DEF UpTo, Interned
  <2> QED
    BY <1>1, <2>1 DEF Canonical
<1>3. ASSUME NEW n \in Nat, n \in S PROVE n + 1 \in S
  <2> SUFFICES ASSUME NEW a \in UpTo(n + 1), NEW b \in UpTo(n + 1), Tree[a] = Tree[b]
               PROVE  a = b
    OBVIOUS
  <2>1. a \in Canonical /\ b \in Canonical
    BY DEF UpTo, Canonical
  <2>2. CASE a \in NamedTypes \/ b \in NamedTypes
    BY <1>1, <2>1, <2>2
  <2>3. CASE a \notin NamedTypes /\ b \notin NamedTypes
    <3>1. a \in Interned /\ b \in Interned /\ a <= n + 1 /\ b <= n + 1
      BY <2>3 DEF UpTo
    <3> DEFINE x == cache[a]
               y == cache[b]
               Parts(z) == [i \in 1 .. Len(z.parts) |-> Tree[z.parts[i]]]
    <3>2. x \in TypeOver(NamedTypes \union 1 .. a - 1) /\ y \in TypeOver(NamedTypes \union 1 .. b - 1)
      BY <3>1 DEF IInv, TypesAreFormed
    <3>3. /\ Tree[a] = [id |-> x.id, data |-> x.data, parts |-> Parts(x)]
          /\ Tree[b] = [id |-> y.id, data |-> y.data, parts |-> Parts(y)]
      BY <2>1, <2>3, TreeEquation DEF TreeOf
    <3>4. x.id = y.id /\ x.data = y.data /\ Parts(x) = Parts(y)
      <4> HIDE DEF Parts, x, y
      <4>1. Tree[a] = [id |-> x.id, data |-> x.data, parts |-> Parts(x)]
        BY <3>3
      <4>2. Tree[a] = [id |-> y.id, data |-> y.data, parts |-> Parts(y)]
        BY <3>3
      <4> DEFINE t == Tree[a]
      <4> HIDE DEF t
      <4>3. t.id = x.id /\ t.data = x.data /\ t.parts = Parts(x)
        BY <4>1, FieldsOfTree DEF t
      <4>4. t.id = y.id /\ t.data = y.data /\ t.parts = Parts(y)
        BY <4>2, FieldsOfTree DEF t
      <4> QED
        BY <4>3, <4>4
    <3>5. Len(x.parts) \in Nat /\ Len(y.parts) \in Nat
      BY <3>2, FormOfType
    <3>6. Len(x.parts) = Len(y.parts)
      <4>1. DOMAIN Parts(x) = 1 .. Len(x.parts) /\ DOMAIN Parts(y) = 1 .. Len(y.parts)
        OBVIOUS
      <4> QED
        BY <3>4, <3>5, <4>1
    <3>7. ASSUME NEW i \in 1 .. Len(x.parts) PROVE x.parts[i] = y.parts[i]
      <4>1. i \in 1 .. Len(y.parts)
        BY <3>6
      <4>2. Parts(x)[i] = Tree[x.parts[i]] /\ Parts(y)[i] = Tree[y.parts[i]]
        BY <4>1
      <4>3. x.parts[i] \in UpTo(n) /\ y.parts[i] \in UpTo(n)
        <5>1. NamedTypes \union 1 .. a - 1 \subseteq UpTo(n) /\ NamedTypes \union 1 .. b - 1 \subseteq UpTo(n)
          BY <3>1, <1>0 DEF UpTo, Interned
        <5>2. x.parts[i] \in NamedTypes \union 1 .. a - 1 /\ y.parts[i] \in NamedTypes \union 1 .. b - 1
          BY <3>2, <4>1, FormOfType
        <5> QED
          BY <5>1, <5>2
      <4>4. Tree[x.parts[i]] = Tree[y.parts[i]]
        BY <3>4, <4>2
      <4> QED
        BY <1>3, <4>3, <4>4
    <3>8. x.parts = y.parts
      <4>1. x.parts \in Seq(NamedTypes \union 1 .. a - 1) /\ y.parts \in Seq(NamedTypes \union 1 .. b - 1)
        BY <3>2, FormOfType
      <4> HIDE DEF x, y
      <4> QED
        BY <4>1, <3>6, <3>7
    <3>9. x = y
      BY <3>2, <3>4, <3>8, FormOfType
    <3> QED
      BY <3>1, <3>9 DEF IInv, NoDuplicates
  <2> QED
    BY <2>2, <2>3
<1>4. Len(cache) \in S
  <2> HIDE DEF S
  <2> QED
    BY <1>0, <1>2, <1>3, Induction
<1>5. UpTo(Len(cache)) = Canonical
  BY <1>0 DEF UpTo, Canonical, Interned
<1> QED
  BY <1>4, <1>5

\* "pointer equality is given": two types of the same tree, to any depth, have one
\* address, also while a type is being searched for.
THEOREM PointerEquality == Spec => []EqualTreesShareAddress
<1>1. IInv => EqualTreesShareAddress
  BY EqualTrees DEF EqualTreesShareAddress
<1> QED
  BY <1>1, Invariance, PTL


-----------------------------------------------------------------------------
(* The text of types: the recursive functions of the back ends.            *)

\* An address is that of a name, a pointer, an array or a function.
LEMMA KindOfType ==
    ASSUME IInv, NEW a \in Canonical
    PROVE  /\ IsNamed(a) => ~IsPointer(a) /\ ~Is(a, "array") /\ ~Is(a, "function")
           /\ ~IsNamed(a) => a \in Interned
           /\ IsPointer(a) => ~Is(a, "array") /\ ~Is(a, "function") /\ cache[a].id \in PointerIds
           /\ Is(a, "array") => ~Is(a, "function")
           /\ IsNamed(a) \/ IsPointer(a) \/ Is(a, "array") \/ Is(a, "function")
<1>1. CASE IsNamed(a)
  BY <1>1 DEF IsPointer, Is
<1>2. CASE ~IsNamed(a)
  <2>1. a \in Interned
    BY <1>2 DEF Canonical, IsNamed
  <2>2. cache[a].id \in PointerIds \union {"array", "function"}
    BY <2>1 DEF IInv, TypesAreFormed, TypeOver
  <2> QED
    BY <1>2, <2>1, <2>2 DEF IsPointer, Is
<1> QED
  BY <1>1, <1>2

\* The addresses a type is made of are older ones.
LEMMA PartsAreOlder ==
    ASSUME IInv, NEW n \in Nat, NEW a \in UpTo(n + 1), ~IsNamed(a)
    PROVE  /\ a \in Interned /\ a \in Canonical
           /\ Target(a) \in UpTo(n) /\ ReturnType(a) \in UpTo(n)
           /\ cache[a].data \in Seq(Data) /\ Len(cache[a].data) = DataLength(cache[a])
           /\ ~Is(a, "function") => Len(cache[a].parts) = 1
           /\ IsPointer(a) => Len(cache[a].data) = IF cache[a].id \in SentinelledPointers THEN 1 ELSE 0
           /\ Is(a, "array") => Len(cache[a].data) = 1
           /\ Is(a, "function") =>
                 /\ ParameterNames(a) \in Seq(Parameters)
                 /\ Len(ParameterNames(a)) = Len(cache[a].parts) - 1
                 /\ DOMAIN ParameterNames(a) = 1 .. Len(ParameterNames(a))
                 /\ \A i \in DOMAIN ParameterNames(a) :
                       ParameterNames(a)[i] \in Parameters /\ ParameterType(a, i) \in UpTo(n)
           /\ Len(cache[a].parts) \in Nat \ {0}
           /\ \A i \in 1 .. Len(cache[a].parts) : cache[a].parts[i] \in UpTo(n)
<1>1. a \in Interned /\ a \in Canonical /\ a <= n + 1 /\ Len(cache) \in Nat
  BY DEF UpTo, IsNamed, IInv, Canonical
<1> DEFINE t == cache[a]
<1>2. t \in TypeOver(NamedTypes \union 1 .. a - 1)
  BY <1>1 DEF IInv, TypesAreFormed
<1>3. NamedTypes \union 1 .. a - 1 \subseteq UpTo(n)
  BY <1>1 DEF UpTo, Interned
<1>4. /\ Len(t.parts) \in Nat \ {0} /\ \A i \in 1 .. Len(t.parts) : t.parts[i] \in UpTo(n)
      /\ t.data \in Seq(Data) /\ Len(t.data) = DataLength(t)
  BY <1>2, <1>3, FormOfType
<1>5. Target(a) \in UpTo(n) /\ ReturnType(a) \in UpTo(n)
  BY <1>4 DEF Target, ReturnType
<1>6. CASE Is(a, "function")
  <2>1. ParameterNames(a) \in Seq(Parameters) /\ Len(ParameterNames(a)) = Len(t.parts) - 1
    BY <1>2, <1>4, <1>6 DEF TypeOver, Is, DataLength, ParameterNames
  <2>2. DOMAIN ParameterNames(a) = 1 .. Len(ParameterNames(a))
    BY <2>1
  <2>3. \A i \in DOMAIN ParameterNames(a) :
           ParameterNames(a)[i] \in Parameters /\ ParameterType(a, i) \in UpTo(n)
    <3> SUFFICES ASSUME NEW i \in DOMAIN ParameterNames(a)
                 PROVE  ParameterNames(a)[i] \in Parameters /\ ParameterType(a, i) \in UpTo(n)
      OBVIOUS
    <3>1. i + 1 \in 1 .. Len(t.parts)
      BY <1>4, <2>1, <2>2
    <3> QED
      BY <1>4, <2>1, <2>2, <3>1, ElementsOf DEF ParameterType
  <2> QED
    BY <1>1, <1>4, <1>5, <1>6, <2>1, <2>2, <2>3 DEF IsPointer, Is
<1>7. CASE ~Is(a, "function")
  <2>1. t.id # "function" /\ Len(t.parts) = 1
    BY <1>2, <1>7 DEF Is, TypeOver
  <2> QED
    BY <1>1, <1>4, <1>5, <1>7, <2>1 DEF IsPointer, Is, DataLength
<1> QED
  BY <1>6, <1>7

\* The address of a type, up to the newest one.
LEMMA AllAddresses ==
    ASSUME IInv
    PROVE  /\ Len(cache) \in Nat /\ UpTo(Len(cache)) = Canonical /\ UpTo(0) = NamedTypes
           /\ \A n \in Nat : UpTo(n) \subseteq Canonical /\ UpTo(n) \subseteq UpTo(n + 1)
           /\ \A a \in Canonical : \E n \in Nat : n < Len(cache) + 1 /\ a \in UpTo(n)
<1>1. Len(cache) \in Nat
  BY DEF IInv
<1>2. UpTo(Len(cache)) = Canonical /\ UpTo(0) = NamedTypes
  BY <1>1 DEF UpTo, Canonical, Interned
<1>3. \A n \in Nat : UpTo(n) \subseteq Canonical /\ UpTo(n) \subseteq UpTo(n + 1)
  BY <1>1 DEF UpTo, Canonical, Interned
<1> QED
  BY <1>1, <1>2, <1>3

\* The shape of a type depends on the shape of older types only.
LEMMA ShapeNeedsParts ==
    ASSUME IInv, NEW n \in Nat, NEW b \in UpTo(n + 1), NEW t, NEW u,
           \A a \in UpTo(n) : t[a] = u[a]
    PROVE  ShapeOf(t, b) = ShapeOf(u, b)
<1>1. UpTo(n + 1) \subseteq Canonical
  BY AllAddresses
<1>2. CASE IsNamed(b)
  BY <1>1, <1>2, KindOfType DEF ShapeOf
<1>3. CASE ~IsNamed(b) /\ ~Is(b, "function")
  BY <1>1, <1>3, KindOfType, PartsAreOlder DEF ShapeOf
<1>4. CASE Is(b, "function")
  BY <1>1, <1>4, KindOfType, PartsAreOlder DEF ShapeOf, Is
<1> QED
  BY <1>2, <1>3, <1>4

\* Shape obeys its equation: a type is found plain or not from the oldest entry on.
LEMMA ShapeEquation ==
    ASSUME IInv, NEW a \in Canonical
    PROVE  Shape[a] = ShapeOf(Shape, a)
<1> DEFINE Solved(t, n) == \A b \in UpTo(n) : t[b] = ShapeOf(t, b)
           S == {n \in Nat : \E t : t = [b \in Canonical |-> t[b]] /\ Solved(t, n)}
<1>1. 0 \in S
  <2> DEFINE t == [b \in Canonical |-> ShapeOf(<<>>, b)]
  <2>1. Solved(t, 0)
    <3> SUFFICES ASSUME NEW b \in UpTo(0) PROVE t[b] = ShapeOf(t, b)
      OBVIOUS
    <3>1. b \in Canonical /\ IsNamed(b)
      BY AllAddresses DEF IsNamed, Canonical
    <3>2. ShapeOf(<<>>, b) = ShapeOf(t, b)
      BY <3>1, KindOfType DEF ShapeOf
    <3> QED
      BY <3>1, <3>2
  <2> QED
    BY <2>1
<1>2. ASSUME NEW n \in Nat, n \in S PROVE n + 1 \in S
  <2>1. PICK t : t = [b \in Canonical |-> t[b]] /\ Solved(t, n)
    BY <1>2
  <2> DEFINE u == [b \in Canonical |-> ShapeOf(t, b)]
  <2>2. UpTo(n) \subseteq Canonical /\ UpTo(n + 1) \subseteq Canonical
    BY AllAddresses
  <2>3. \A b \in UpTo(n) : t[b] = u[b]
    BY <2>1, <2>2
  <2>4. \A b \in UpTo(n + 1) : ShapeOf(t, b) = ShapeOf(u, b)
    <3> HIDE DEF u
    <3> QED
      BY <2>3, ShapeNeedsParts
  <2>5. Solved(u, n + 1)
    BY <2>2, <2>4
  <2>6. u = [b \in Canonical |-> u[b]]
    OBVIOUS
  <2> HIDE DEF u, Solved
  <2> QED
    BY <2>5, <2>6
<1>3. Len(cache) \in S
  <2> HIDE DEF S
  <2> QED
    BY <1>1, <1>2, AllAddresses, Induction
<1>4. PICK t : t = [b \in Canonical |-> t[b]] /\ Solved(t, Len(cache))
  BY <1>3
<1>5. t = [b \in Canonical |-> ShapeOf(t, b)]
  BY <1>4, AllAddresses
<1>6. Shape = CHOOSE f : f = [b \in Canonical |-> ShapeOf(f, b)]
  BY DEF Shape
<1>7. Shape = [b \in Canonical |-> ShapeOf(Shape, b)]
  BY <1>5, <1>6
<1> QED
  BY <1>7

\* The meaning of a type in C depends on the meaning of older types only.
LEMMA InCNeedsParts ==
    ASSUME IInv, NEW n \in Nat, NEW b \in UpTo(n + 1), NEW t, NEW u,
           \A a \in UpTo(n) : t[a] = u[a]
    PROVE  Meaning(t, b) = Meaning(u, b)
<1>1. UpTo(n + 1) \subseteq Canonical
  BY AllAddresses
<1>2. CASE IsNamed(b)
  BY <1>1, <1>2, KindOfType DEF Meaning
<1>3. CASE ~IsNamed(b) /\ ~Is(b, "function")
  BY <1>1, <1>3, KindOfType, PartsAreOlder DEF Meaning
<1>4. CASE Is(b, "function")
  BY <1>1, <1>4, KindOfType, PartsAreOlder DEF Meaning, Is
<1> QED
  BY <1>2, <1>3, <1>4

\* The meaning of a type in C is built from the meanings of its parts.
LEMMA InCEquation ==
    ASSUME IInv, NEW a \in Canonical
    PROVE  InC[a] = Meaning(InC, a)
<1> DEFINE Solved(t, n) == \A b \in UpTo(n) : t[b] = Meaning(t, b)
           S == {n \in Nat : \E t : t = [b \in Canonical |-> t[b]] /\ Solved(t, n)}
<1>1. 0 \in S
  <2> DEFINE t == [b \in Canonical |-> Meaning(<<>>, b)]
  <2>1. Solved(t, 0)
    <3> SUFFICES ASSUME NEW b \in UpTo(0) PROVE t[b] = Meaning(t, b)
      OBVIOUS
    <3>1. b \in Canonical /\ IsNamed(b)
      BY AllAddresses DEF IsNamed, Canonical
    <3>2. Meaning(<<>>, b) = Meaning(t, b)
      BY <3>1, KindOfType DEF Meaning
    <3> QED
      BY <3>1, <3>2
  <2> QED
    BY <2>1
<1>2. ASSUME NEW n \in Nat, n \in S PROVE n + 1 \in S
  <2>1. PICK t : t = [b \in Canonical |-> t[b]] /\ Solved(t, n)
    BY <1>2
  <2> DEFINE u == [b \in Canonical |-> Meaning(t, b)]
  <2>2. UpTo(n) \subseteq Canonical /\ UpTo(n + 1) \subseteq Canonical
    BY AllAddresses
  <2>3. \A b \in UpTo(n) : t[b] = u[b]
    BY <2>1, <2>2
  <2>4. \A b \in UpTo(n + 1) : Meaning(t, b) = Meaning(u, b)
    <3> HIDE DEF u
    <3> QED
      BY <2>3, InCNeedsParts
  <2>5. Solved(u, n + 1)
    BY <2>2, <2>4
  <2>6. u = [b \in Canonical |-> u[b]]
    OBVIOUS
  <2> HIDE DEF u, Solved
  <2> QED
    BY <2>5, <2>6
<1>3. Len(cache) \in S
  <2> HIDE DEF S
  <2> QED
    BY <1>1, <1>2, AllAddresses, Induction
<1>4. PICK t : t = [b \in Canonical |-> t[b]] /\ Solved(t, Len(cache))
  BY <1>3
<1>5. t = [b \in Canonical |-> Meaning(t, b)]
  BY <1>4, AllAddresses
<1>6. InC = CHOOSE f : f = [b \in Canonical |-> Meaning(f, b)]
  BY DEF InC
<1>7. InC = [b \in Canonical |-> Meaning(InC, b)]
  BY <1>5, <1>6
<1> QED
  BY <1>7

\* Whether a type is expressible depends on older types only.
LEMMA ExpressibleNeedsParts ==
    ASSUME IInv, NEW n \in Nat, NEW b \in UpTo(n + 1), NEW t, NEW u,
           \A a \in UpTo(n) : t[a] = u[a]
    PROVE  ExpressibleBy(t, b) = ExpressibleBy(u, b)
<1>1. UpTo(n + 1) \subseteq Canonical
  BY AllAddresses
<1>2. CASE IsNamed(b)
  BY <1>1, <1>2, KindOfType DEF ExpressibleBy
<1>3. CASE ~IsNamed(b) /\ ~Is(b, "function")
  BY <1>1, <1>3, KindOfType, PartsAreOlder DEF ExpressibleBy
<1>4. CASE Is(b, "function")
  BY <1>1, <1>4, KindOfType, PartsAreOlder DEF ExpressibleBy, Is
<1> QED
  BY <1>2, <1>3, <1>4

\* What is expressible, from the oldest entry on.
LEMMA ExpressibleEquation ==
    ASSUME IInv, NEW a \in Canonical
    PROVE  Expressible[a] = ExpressibleBy(Expressible, a)
<1> DEFINE Solved(t, n) == \A b \in UpTo(n) : t[b] = ExpressibleBy(t, b)
           S == {n \in Nat : \E t : t = [b \in Canonical |-> t[b]] /\ Solved(t, n)}
<1>1. 0 \in S
  <2> DEFINE t == [b \in Canonical |-> ExpressibleBy(<<>>, b)]
  <2>1. Solved(t, 0)
    <3> SUFFICES ASSUME NEW b \in UpTo(0) PROVE t[b] = ExpressibleBy(t, b)
      OBVIOUS
    <3>1. b \in Canonical /\ IsNamed(b)
      BY AllAddresses DEF IsNamed, Canonical
    <3>2. ExpressibleBy(<<>>, b) = ExpressibleBy(t, b)
      BY <3>1, KindOfType DEF ExpressibleBy
    <3> QED
      BY <3>1, <3>2
  <2> QED
    BY <2>1
<1>2. ASSUME NEW n \in Nat, n \in S PROVE n + 1 \in S
  <2>1. PICK t : t = [b \in Canonical |-> t[b]] /\ Solved(t, n)
    BY <1>2
  <2> DEFINE u == [b \in Canonical |-> ExpressibleBy(t, b)]
  <2>2. UpTo(n) \subseteq Canonical /\ UpTo(n + 1) \subseteq Canonical
    BY AllAddresses
  <2>3. \A b \in UpTo(n) : t[b] = u[b]
    BY <2>1, <2>2
  <2>4. \A b \in UpTo(n + 1) : ExpressibleBy(t, b) = ExpressibleBy(u, b)
    <3> HIDE DEF u
    <3> QED
      BY <2>3, ExpressibleNeedsParts
  <2>5. Solved(u, n + 1)
    BY <2>2, <2>4
  <2>6. u = [b \in Canonical |-> u[b]]
    OBVIOUS
  <2> HIDE DEF u, Solved
  <2> QED
    BY <2>5, <2>6
<1>3. Len(cache) \in S
  <2> HIDE DEF S
  <2> QED
    BY <1>1, <1>2, AllAddresses, Induction
<1>4. PICK t : t = [b \in Canonical |-> t[b]] /\ Solved(t, Len(cache))
  BY <1>3
<1>5. t = [b \in Canonical |-> ExpressibleBy(t, b)]
  BY <1>4, AllAddresses
<1>6. Expressible = CHOOSE f : f = [b \in Canonical |-> ExpressibleBy(f, b)]
  BY DEF Expressible
<1>7. Expressible = [b \in Canonical |-> ExpressibleBy(Expressible, b)]
  BY <1>5, <1>6
<1> QED
  BY <1>7

\* The Zig text of a type depends on the text of older types only.
LEMMA ZigTextNeedsParts ==
    ASSUME IInv, NEW n \in Nat, NEW b \in UpTo(n + 1), NEW t, NEW u,
           \A a \in UpTo(n) : t[a] = u[a]
    PROVE  ZigTextOf(t, b) = ZigTextOf(u, b)
<1>1. UpTo(n + 1) \subseteq Canonical
  BY AllAddresses
<1>2. CASE IsNamed(b)
  BY <1>1, <1>2, KindOfType DEF ZigTextOf
<1>3. CASE ~IsNamed(b) /\ ~Is(b, "function")
  BY <1>1, <1>3, KindOfType, PartsAreOlder DEF ZigTextOf
<1>4. CASE Is(b, "function")
  BY <1>1, <1>4, KindOfType, PartsAreOlder DEF ZigTextOf, ZigSignature, Is
<1> QED
  BY <1>2, <1>3, <1>4

\* The Zig text of a type is made of the texts of its parts.
LEMMA ZigTextEquation ==
    ASSUME IInv, NEW a \in Canonical
    PROVE  ZigText[a] = ZigTextOf(ZigText, a)
<1> DEFINE Solved(t, n) == \A b \in UpTo(n) : t[b] = ZigTextOf(t, b)
           S == {n \in Nat : \E t : t = [b \in Canonical |-> t[b]] /\ Solved(t, n)}
<1>1. 0 \in S
  <2> DEFINE t == [b \in Canonical |-> ZigTextOf(<<>>, b)]
  <2>1. Solved(t, 0)
    <3> SUFFICES ASSUME NEW b \in UpTo(0) PROVE t[b] = ZigTextOf(t, b)
      OBVIOUS
    <3>1. b \in Canonical /\ IsNamed(b)
      BY AllAddresses DEF IsNamed, Canonical
    <3>2. ZigTextOf(<<>>, b) = ZigTextOf(t, b)
      BY <3>1, KindOfType DEF ZigTextOf
    <3> QED
      BY <3>1, <3>2
  <2> QED
    BY <2>1
<1>2. ASSUME NEW n \in Nat, n \in S PROVE n + 1 \in S
  <2>1. PICK t : t = [b \in Canonical |-> t[b]] /\ Solved(t, n)
    BY <1>2
  <2> DEFINE u == [b \in Canonical |-> ZigTextOf(t, b)]
  <2>2. UpTo(n) \subseteq Canonical /\ UpTo(n + 1) \subseteq Canonical
    BY AllAddresses
  <2>3. \A b \in UpTo(n) : t[b] = u[b]
    BY <2>1, <2>2
  <2>4. \A b \in UpTo(n + 1) : ZigTextOf(t, b) = ZigTextOf(u, b)
    <3> HIDE DEF u
    <3> QED
      BY <2>3, ZigTextNeedsParts
  <2>5. Solved(u, n + 1)
    BY <2>2, <2>4
  <2>6. u = [b \in Canonical |-> u[b]]
    OBVIOUS
  <2> HIDE DEF u, Solved
  <2> QED
    BY <2>5, <2>6
<1>3. Len(cache) \in S
  <2> HIDE DEF S
  <2> QED
    BY <1>1, <1>2, AllAddresses, Induction
<1>4. PICK t : t = [b \in Canonical |-> t[b]] /\ Solved(t, Len(cache))
  BY <1>3
<1>5. t = [b \in Canonical |-> ZigTextOf(t, b)]
  BY <1>4, AllAddresses
<1>6. ZigText = CHOOSE f : f = [b \in Canonical |-> ZigTextOf(f, b)]
  BY DEF ZigText
<1>7. ZigText = [b \in Canonical |-> ZigTextOf(ZigText, b)]
  BY <1>5, <1>6
<1> QED
  BY <1>7

WrittenOf(written, a) == [prefix |-> PrefixOf(written, a), suffix |-> SuffixOf(written, a)]

\* Prefix and suffix of a type depend on those of older types only.
LEMMA WrittenNeedsParts ==
    ASSUME IInv, NEW n \in Nat, NEW b \in UpTo(n + 1), NEW t, NEW u,
           \A a \in UpTo(n) : t[a] = u[a]
    PROVE  WrittenOf(t, b) = WrittenOf(u, b)
<1>1. UpTo(n + 1) \subseteq Canonical
  BY AllAddresses
<1>2. CASE IsNamed(b)
  BY <1>1, <1>2, KindOfType DEF WrittenOf, PrefixOf, SuffixOf
<1>3. CASE ~IsNamed(b) /\ ~Is(b, "function")
  BY <1>1, <1>3, KindOfType, PartsAreOlder DEF WrittenOf, PrefixOf, SuffixOf
<1>4. CASE Is(b, "function")
  <2>1. b \in Canonical /\ ~IsNamed(b) /\ ~IsPointer(b) /\ ~Is(b, "array")
    BY <1>1, <1>4, KindOfType DEF Is
  <2>2. t[ReturnType(b)] = u[ReturnType(b)]
    BY <2>1, PartsAreOlder
  <2>3. ASSUME NEW i \in DOMAIN ParameterNames(b)
        PROVE  Declared(t, ParameterType(b, i), ParameterNames(b)[i], FALSE)
                 = Declared(u, ParameterType(b, i), ParameterNames(b)[i], FALSE)
    BY <1>4, <2>1, PartsAreOlder DEF Declared
  <2>4. ParameterList(t, b) = ParameterList(u, b)
    BY <2>3 DEF ParameterList
  <2> QED
    BY <1>4, <2>1, <2>2, <2>4 DEF WrittenOf, PrefixOf, SuffixOf
<1> QED
  BY <1>2, <1>3, <1>4

\* What is written for a type is made of what is written for its parts.
LEMMA WrittenEquation ==
    ASSUME IInv, NEW a \in Canonical
    PROVE  Written[a] = WrittenOf(Written, a)
<1> DEFINE Solved(t, n) == \A b \in UpTo(n) : t[b] = WrittenOf(t, b)
           S == {n \in Nat : \E t : t = [b \in Canonical |-> t[b]] /\ Solved(t, n)}
<1>1. 0 \in S
  <2> DEFINE t == [b \in Canonical |-> WrittenOf(<<>>, b)]
  <2>1. Solved(t, 0)
    <3> SUFFICES ASSUME NEW b \in UpTo(0) PROVE t[b] = WrittenOf(t, b)
      OBVIOUS
    <3>1. b \in Canonical /\ IsNamed(b)
      BY AllAddresses DEF IsNamed, Canonical
    <3>2. WrittenOf(<<>>, b) = WrittenOf(t, b)
      BY <3>1, KindOfType DEF WrittenOf, PrefixOf, SuffixOf
    <3> QED
      BY <3>1, <3>2
  <2> QED
    BY <2>1
<1>2. ASSUME NEW n \in Nat, n \in S PROVE n + 1 \in S
  <2>1. PICK t : t = [b \in Canonical |-> t[b]] /\ Solved(t, n)
    BY <1>2
  <2> DEFINE u == [b \in Canonical |-> WrittenOf(t, b)]
  <2>2. UpTo(n) \subseteq Canonical /\ UpTo(n + 1) \subseteq Canonical
    BY AllAddresses
  <2>3. \A b \in UpTo(n) : t[b] = u[b]
    BY <2>1, <2>2
  <2>4. \A b \in UpTo(n + 1) : WrittenOf(t, b) = WrittenOf(u, b)
    <3> HIDE DEF u
    <3> QED
      BY <2>3, WrittenNeedsParts
  <2>5. Solved(u, n + 1)
    BY <2>2, <2>4
  <2>6. u = [b \in Canonical |-> u[b]]
    OBVIOUS
  <2> HIDE DEF u, Solved
  <2> QED
    BY <2>5, <2>6
<1>3. Len(cache) \in S
  <2> HIDE DEF S
  <2> QED
    BY <1>1, <1>2, AllAddresses, Induction
<1>4. PICK t : t = [b \in Canonical |-> t[b]] /\ Solved(t, Len(cache))
  BY <1>3
<1>5. t = [b \in Canonical |-> WrittenOf(t, b)]
  BY <1>4, AllAddresses
<1>6. Written = CHOOSE f : f = [b \in Canonical |-> WrittenOf(f, b)]
  BY DEF Written, WrittenOf
<1>7. Written = [b \in Canonical |-> WrittenOf(Written, b)]
  BY <1>5, <1>6
<1> QED
  BY <1>7

Prefix(a) == Written[a].prefix
Suffix(a) == Written[a].suffix

\* The prefix and the suffix of a type, by its kind.
LEMMA Affixes ==
    ASSUME IInv, NEW a \in Canonical
    PROVE  /\ IsNamed(a) => Prefix(a) = << <<"type", a>> >> /\ Suffix(a) = <<>>
           /\ IsPointer(a) => Prefix(a) = Prefix(Target(a)) \o StarOf(a) /\ Suffix(a) = Suffix(Target(a))
           /\ Is(a, "array") => /\ Prefix(a) = Prefix(Target(a))
                                /\ Suffix(a) = Suffix(Target(a)) \o << <<"size", Size(a)>> >>
           /\ Is(a, "function") =>
                 /\ Prefix(a) = Prefix(ReturnType(a)) \o Suffix(ReturnType(a)) \o <<Open>>
                 /\ Suffix(a) = <<Close, ParameterList(Written, a)>>
<1>1. Prefix(a) = PrefixOf(Written, a) /\ Suffix(a) = SuffixOf(Written, a)
  <2> DEFINE p == PrefixOf(Written, a)
             s == SuffixOf(Written, a)
  <2>1. Written[a] = [prefix |-> p, suffix |-> s]
    BY WrittenEquation DEF WrittenOf
  <2> HIDE DEF p, s
  <2>2. Written[a].prefix = p /\ Written[a].suffix = s
    BY <2>1
  <2> QED
    BY <2>2 DEF p, s, Prefix, Suffix
<1>2. IsNamed(a) => PrefixOf(Written, a) = << <<"type", a>> >> /\ SuffixOf(Written, a) = <<>>
  BY KindOfType DEF PrefixOf, SuffixOf
<1>3. IsPointer(a) => /\ PrefixOf(Written, a) = Written[Target(a)].prefix \o StarOf(a)
                      /\ SuffixOf(Written, a) = Written[Target(a)].suffix
  BY KindOfType DEF PrefixOf, SuffixOf
<1>4. Is(a, "array") => /\ PrefixOf(Written, a) = Written[Target(a)].prefix
                        /\ SuffixOf(Written, a) = Written[Target(a)].suffix \o << <<"size", Size(a)>> >>
  BY KindOfType DEF PrefixOf, SuffixOf
<1>5. Is(a, "function") =>
         /\ PrefixOf(Written, a)
              = Written[ReturnType(a)].prefix \o Written[ReturnType(a)].suffix \o <<Open>>
         /\ SuffixOf(Written, a) = <<Close, ParameterList(Written, a)>>
  BY KindOfType DEF PrefixOf, SuffixOf
<1> QED
  BY <1>1, <1>2, <1>3, <1>4, <1>5 DEF Prefix, Suffix

-----------------------------------------------------------------------------
(* Texts are sequences.                                                    *)

\* A token in front of a text.
LEMMA TokenInFront ==
    ASSUME NEW T, NEW s \in Seq(T), NEW e \in T
    PROVE  /\ <<e>> \o s \in Seq(T) /\ <<e>> \o s # <<>>
           /\ Len(<<e>> \o s) = Len(s) + 1
           /\ (<<e>> \o s)[1] = e /\ Tail(<<e>> \o s) = s
           /\ \A i \in 1 .. Len(s) : (<<e>> \o s)[i + 1] = s[i]
<1>1. <<e>> \o s \in Seq(T) /\ Len(<<e>> \o s) = Len(s) + 1 /\ (<<e>> \o s)[1] = e
  OBVIOUS
<1>2. \A i \in 1 .. Len(s) : (<<e>> \o s)[i + 1] = s[i]
  OBVIOUS
<1>3. Tail(<<e>> \o s) = s
  <2>1. Tail(<<e>> \o s) \in Seq(T) /\ Len(Tail(<<e>> \o s)) = Len(s)
    BY <1>1
  <2>2. \A i \in 1 .. Len(s) : Tail(<<e>> \o s)[i] = s[i]
    BY <1>1, <1>2
  <2> QED
    BY <2>1, <2>2
<1> QED
  BY <1>1, <1>2, <1>3

\* A token behind a text.
LEMMA TokenBehind ==
    ASSUME NEW T, NEW s \in Seq(T), NEW e \in T
    PROVE  /\ s \o <<e>> \in Seq(T) /\ s \o <<e>> # <<>>
           /\ Len(s \o <<e>>) = Len(s) + 1
           /\ (s \o <<e>>)[Len(s) + 1] = e /\ Front(s \o <<e>>) = s
           /\ \A i \in 1 .. Len(s) : (s \o <<e>>)[i] = s[i]
<1> DEFINE se == s \o <<e>>
<1>1. /\ se \in Seq(T) /\ Len(se) = Len(s) + 1 /\ se[Len(s) + 1] = e
      /\ \A i \in 1 .. Len(s) : se[i] = s[i]
  OBVIOUS
<1>2. Front(se) = s
  <2>1. Front(se) = SubSeq(se, 1, Len(s))
    BY <1>1 DEF Front
  <2>2. Front(se) \in Seq(T) /\ Len(Front(se)) = Len(s)
    BY <1>1, <2>1
  <2>3. \A i \in 1 .. Len(s) : Front(se)[i] = s[i]
    BY <1>1, <2>1
  <2> QED
    BY <2>2, <2>3
<1> QED
  BY <1>1, <1>2

\* Joining texts.
LEMMA Regrouped ==
    ASSUME NEW T, NEW s \in Seq(T), NEW t \in Seq(T), NEW u \in Seq(T)
    PROVE  (s \o t) \o u = s \o (t \o u)
OBVIOUS

\* Nothing in front of a text and nothing behind it.
LEMMA EmptyText ==
    ASSUME NEW T, NEW s \in Seq(T)
    PROVE  <<>> \in Seq(T) /\ <<>> \o s = s /\ s \o <<>> = s
OBVIOUS

\* The Zig text of a type is a text, and does not begin with const.
IsZigText(ts) == \E T : ts \in Seq(T) /\ ts # <<>> /\ ts[1] # Const

\* A token in front of a Zig text.
LEMMA OneMoreToken ==
    ASSUME NEW ts, NEW e, IsZigText(ts)
    PROVE  \E T : e \in T /\ ts \in Seq(T) /\ <<>> \in Seq(T)
<1>1. PICK T : ts \in Seq(T)
  BY DEF IsZigText
<1>2. ts \in Seq(T \union {e}) /\ <<>> \in Seq(T \union {e})
  BY <1>1
<1> QED
  BY <1>2

Question == <<"?">>
ZigStar(a) == IF cache[a].id \in SinglePointers THEN Star ELSE <<"[*", SentinelOf(a)>>
BehindStar(a, ts) == IF cache[a].id \in ConstPointers THEN <<Const>> \o ts ELSE ts
ZigPointer(a, ts) ==
    IF cache[a].id \in NullablePointers THEN <<Question>> \o (<<ZigStar(a)>> \o BehindStar(a, ts))
    ELSE <<ZigStar(a)>> \o BehindStar(a, ts)

ZigParameters(a) ==
    <<"parameters", [i \in DOMAIN ParameterNames(a) |->
            <<ParameterNames(a)[i], ZigText[ParameterType(a, i)]>>]>>

\* The Zig text of a type, token by token.
LEMMA ZigTextByToken ==
    ASSUME IInv, NEW a \in Canonical, ~IsNamed(a), IsZigText(ZigText[Target(a)])
    PROVE  /\ IsPointer(a) => ZigText[a] = ZigPointer(a, ZigText[Target(a)])
           /\ Is(a, "array") => ZigText[a] = << <<"size", Size(a)>> >> \o ZigText[Target(a)]
           /\ Is(a, "function") =>
                 ZigText[a] = << <<"fn">> >> \o (<<ZigParameters(a)>> \o ZigText[Target(a)])
           /\ IsZigText(ZigText[a])
<1> DEFINE ts == ZigText[Target(a)]
           id == cache[a].id
<1>1. CASE IsPointer(a)
  <2>1. ZigText[a] =
            (IF id \in NullablePointers THEN << Question >> ELSE <<>>) \o << ZigStar(a) >>
            \o (IF id \in ConstPointers THEN <<Const>> ELSE <<>>) \o ts
    BY <1>1, KindOfType, ZigTextEquation DEF ZigTextOf, Question, ZigStar
  <2>2. PICK T0 : ts \in Seq(T0) /\ ts # <<>> /\ ts[1] # Const
    BY DEF IsZigText
  <2> DEFINE T == T0 \union {Question, Const, ZigStar(a)}
  <2>3. /\ ts \in Seq(T) /\ <<Question>> \in Seq(T) /\ <<ZigStar(a)>> \in Seq(T) /\ <<Const>> \in Seq(T)
        /\ Question \in T /\ Const \in T /\ ZigStar(a) \in T
    BY <2>2
  <2>4. ZigStar(a) # Const /\ Question # Const
    BY DEF ZigStar, Star, Const, Question
  <2> HIDE DEF T, ts
  <2>5. BehindStar(a, ts) \in Seq(T)
    BY <2>3, TokenInFront DEF BehindStar
  <2>6. <<ZigStar(a)>> \o BehindStar(a, ts) \in Seq(T)
    BY <2>3, <2>5, TokenInFront
  <2>7. ZigPointer(a, ts) \in Seq(T) /\ ZigPointer(a, ts) # <<>> /\ ZigPointer(a, ts)[1] # Const
    BY <2>3, <2>4, <2>5, <2>6, TokenInFront DEF ZigPointer
  <2>8. ZigText[a] = ZigPointer(a, ts)
    <3> DEFINE q == IF id \in NullablePointers THEN << Question >> ELSE <<>>
               c == IF id \in ConstPointers THEN <<Const>> ELSE <<>>
               s == <<ZigStar(a)>>
    <3>1. q \in Seq(T) /\ c \in Seq(T) /\ s \in Seq(T)
      BY <2>3
    <3>2. c \o ts = BehindStar(a, ts)
      BY <2>3, EmptyText DEF BehindStar
    <3> HIDE DEF q, c, s
    <3>3. ((q \o s) \o c) \o ts = q \o (s \o (c \o ts))
      <4>1. (q \o s) \in Seq(T) /\ c \o ts \in Seq(T) /\ s \o (c \o ts) \in Seq(T)
        BY <2>3, <3>1
      <4> DEFINE qs == q \o s
                 ct == c \o ts
      <4>2. qs \in Seq(T) /\ ct \in Seq(T)
        BY <4>1
      <4>3. qs \o ct = q \o (s \o ct)
        <5> HIDE DEF ct
        <5> QED
          BY <3>1, <4>2, Regrouped
      <4> HIDE DEF qs
      <4>4. (qs \o c) \o ts = qs \o ct
        BY <2>3, <3>1, <4>2, Regrouped
      <4> QED
        BY <4>3, <4>4 DEF qs
    <3>4. ZigText[a] = q \o (s \o BehindStar(a, ts))
      BY <2>1, <3>2, <3>3 DEF q, c, s
    <3>5. s \o BehindStar(a, ts) \in Seq(T)
      BY <2>6 DEF s
    <3> QED
      BY <3>4, <3>5, EmptyText DEF q, s, ZigPointer
  <2> QED
    BY <1>1, <2>7, <2>8, KindOfType DEF IsZigText, ts
<1>2. CASE Is(a, "array")
  <2>1. ZigText[a] = << <<"size", Size(a)>> >> \o ts
    BY <1>2, KindOfType, ZigTextEquation DEF ZigTextOf
  <2>2. PICK T : <<"size", Size(a)>> \in T /\ ts \in Seq(T)
    BY OneMoreToken
  <2>3. <<"size", Size(a)>> # Const
    BY DEF Const
  <2> HIDE DEF ts
  <2>4. ZigText[a] \in Seq(T) /\ ZigText[a] # <<>> /\ ZigText[a][1] # Const
    BY <2>1, <2>2, <2>3, TokenInFront
  <2> QED
    BY <1>2, <2>1, <2>4, KindOfType DEF IsZigText, ts
<1>3. CASE Is(a, "function")
  <2> DEFINE fn == <<"fn">>
             ps == ZigParameters(a)
  <2>1. ZigText[a] = <<fn>> \o (<<ps>> \o ts)
    BY <1>3, KindOfType, ZigTextEquation DEF ZigTextOf, ZigSignature, ZigParameters, Target, ReturnType
  <2>2. PICK T0 : ts \in Seq(T0)
    BY DEF IsZigText
  <2> HIDE DEF ts, ps
  <2> DEFINE T == T0 \union {fn, ps}
  <2>3. ts \in Seq(T) /\ fn \in T /\ ps \in T
    BY <2>2
  <2>4. fn # Const
    BY DEF Const
  <2> HIDE DEF T, fn
  <2>5. <<ps>> \o ts \in Seq(T)
    BY <2>3, TokenInFront
  <2>6. ZigText[a] \in Seq(T) /\ ZigText[a] # <<>> /\ ZigText[a][1] # Const
    BY <2>1, <2>3, <2>4, <2>5, TokenInFront
  <2> QED
    BY <1>3, <2>1, <2>6, KindOfType DEF IsZigText, ts, ps, fn
<1> QED
  BY <1>1, <1>2, <1>3, KindOfType

\* Every type has a text.
LEMMA ZigTextsAreTexts ==
    ASSUME IInv, NEW a \in Canonical
    PROVE  IsZigText(ZigText[a])
<1> DEFINE S == {n \in Nat : \A b \in UpTo(n) : IsZigText(ZigText[b])}
<1>1. ASSUME NEW b \in Canonical, IsNamed(b) PROVE IsZigText(ZigText[b])
  <2>1. ZigText[b] = << <<"type", b>> >>
    BY <1>1, KindOfType, ZigTextEquation DEF ZigTextOf
  <2> DEFINE e == <<"type", b>>
  <2>2. e # Const
    BY DEF Const
  <2> HIDE DEF e
  <2>3. <<e>> \in Seq({e}) /\ <<e>> # <<>> /\ <<e>>[1] # Const
    BY <2>2
  <2> QED
    BY <2>1, <2>3 DEF IsZigText, e
<1>2. 0 \in S
  BY <1>1, AllAddresses DEF IsNamed
<1>3. ASSUME NEW n \in Nat, n \in S PROVE n + 1 \in S
  <2> SUFFICES ASSUME NEW b \in UpTo(n + 1) PROVE IsZigText(ZigText[b])
    OBVIOUS
  <2>1. b \in Canonical
    BY AllAddresses
  <2>2. CASE ~IsNamed(b)
    BY <1>3, <2>1, <2>2, PartsAreOlder, ZigTextByToken
  <2> QED
    BY <1>1, <2>1, <2>2
<1>4. Len(cache) \in S
  <2> HIDE DEF S
  <2> QED
    BY <1>2, <1>3, AllAddresses, Induction
<1> QED
  BY <1>4, AllAddresses

\* What is written about a pointer tells which one it is.
LEMMA PointerIdsAreTold ==
    ASSUME NEW p \in Pointers
    PROVE  PointerId(p \in NullablePointers, p \in SinglePointers,
                     p \in SentinelledPointers, p \in ConstPointers) = p
<1>1. ASSUME NEW q \in Pointers,
             q \in NullablePointers <=> p \in NullablePointers,
             q \in SinglePointers <=> p \in SinglePointers,
             q \in SentinelledPointers <=> p \in SentinelledPointers,
             q \in ConstPointers <=> p \in ConstPointers
      PROVE  q = p
  BY <1>1 DEF Pointers, NullablePointers, SinglePointers, SentinelledPointers, ConstPointers
<1> HIDE DEF Pointers, NullablePointers, SinglePointers, SentinelledPointers, ConstPointers
<1> QED
  BY <1>1 DEF PointerId

AfterQuestion(text) == IF text[1] = <<"?">> THEN Tail(text) ELSE text
ConstantIn(text) == Len(AfterQuestion(text)) > 1 /\ AfterQuestion(text)[2] = Const
RestOf(text) ==
    IF ConstantIn(text) THEN Tail(Tail(AfterQuestion(text))) ELSE Tail(AfterQuestion(text))

\* The tokens of a pointer and what follows them.
LEMMA PointerTokens ==
    ASSUME NEW a, NEW ts, IsZigText(ts)
    PROVE  LET text == ZigPointer(a, ts)
           IN  /\ text[1] = <<"?">> <=> cache[a].id \in NullablePointers
               /\ AfterQuestion(text)[1] = ZigStar(a)
               /\ ConstantIn(text) <=> cache[a].id \in ConstPointers
               /\ RestOf(text) = ts
<1> DEFINE text == ZigPointer(a, ts)
           star == IF text[1] = Question THEN Tail(text) ELSE text
           constant == Len(star) > 1 /\ star[2] = Const
           nullable == cache[a].id \in NullablePointers
           const == cache[a].id \in ConstPointers
<1>1. PICK T0 : ts \in Seq(T0) /\ ts # <<>> /\ ts[1] # Const
  BY DEF IsZigText
<1> DEFINE T == T0 \union {Question, Const, ZigStar(a)}
           behind == BehindStar(a, ts)
           stars == <<ZigStar(a)>> \o behind
<1>2. ts \in Seq(T) /\ Question \in T /\ Const \in T /\ ZigStar(a) \in T /\ Len(ts) \in Nat /\ Len(ts) >= 1
  BY <1>1
<1>3. ZigStar(a) # Question
  BY DEF ZigStar, Star, Question
<1> HIDE DEF T
<1>4. /\ behind \in Seq(T) /\ Len(behind) \in Nat /\ Len(behind) >= 1
      /\ behind[1] = Const <=> const
      /\ (IF const THEN Tail(behind) ELSE behind) = ts
  <2>1. <<Const>> \o ts \in Seq(T) /\ Len(<<Const>> \o ts) = Len(ts) + 1
        /\ (<<Const>> \o ts)[1] = Const /\ Tail(<<Const>> \o ts) = ts
    BY <1>2, TokenInFront
  <2>2. behind = IF const THEN <<Const>> \o ts ELSE ts
    BY DEF BehindStar
  <2> DEFINE cts == <<Const>> \o ts
  <2> HIDE DEF cts, behind, const
  <2>3. CASE const
    BY <1>1, <1>2, <2>1, <2>2, <2>3 DEF cts
  <2>4. CASE ~const
    BY <1>1, <1>2, <2>2, <2>4
  <2> QED
    BY <2>3, <2>4
<1> HIDE DEF behind
<1>5. /\ stars \in Seq(T) /\ Len(stars) > 1 /\ stars[1] = ZigStar(a)
      /\ Tail(stars) = behind /\ stars[2] = behind[1]
  <2>1. /\ stars \in Seq(T) /\ Len(stars) = Len(behind) + 1 /\ stars[1] = ZigStar(a)
        /\ Tail(stars) = behind /\ \A i \in 1 .. Len(behind) : stars[i + 1] = behind[i]
    BY <1>2, <1>4, TokenInFront
  <2>2. 1 \in 1 .. Len(behind) /\ 1 + 1 = 2
    BY <1>4
  <2>3. stars[1 + 1] = behind[1]
    BY <2>1, <2>2, Zenon
  <2> HIDE DEF stars
  <2> QED
    BY <1>4, <2>1, <2>2, <2>3
<1>6. text = IF nullable THEN <<Question>> \o stars ELSE stars
  BY DEF ZigPointer, behind
<1> HIDE DEF stars
<1>7. (text[1] = Question <=> nullable) /\ star = stars
  <2>1. (<<Question>> \o stars)[1] = Question /\ Tail(<<Question>> \o stars) = stars
    BY <1>2, <1>5, TokenInFront
  <2> HIDE DEF text
  <2>2. CASE nullable
    BY <1>6, <2>1, <2>2
  <2>3. CASE ~nullable
    BY <1>3, <1>5, <1>6, <2>3
  <2> QED
    BY <2>2, <2>3
<1> HIDE DEF text, star
<1>8. star[1] = ZigStar(a) /\ (constant <=> const)
  BY <1>4, <1>5, <1>7
<1>9. (IF constant THEN Tail(Tail(star)) ELSE Tail(star)) = ts
  BY <1>4, <1>5, <1>7, <1>8
<1>10. AfterQuestion(text) = star
  BY DEF star, AfterQuestion, Question
<1>11. ConstantIn(text) <=> constant
  BY <1>10 DEF ConstantIn
<1> QED
  BY <1>7, <1>8, <1>9, <1>10, <1>11 DEF text, RestOf, Question

\* A reader that reads the parts of a type right reads the type right.
LEMMA ZigIsRead ==
    ASSUME IInv, NEW n \in Nat, NEW a \in UpTo(n + 1), ~IsNamed(a), NEW read,
           \A b \in UpTo(n) : read[ZigText[b]] = Tree[b]
    PROVE  ReadZig(read, ZigText[a]) = Tree[a]
<1> DEFINE text == ZigText[a]
           t == cache[a]
           ts == ZigText[Target(a)]
           nullable == text[1] = <<"?">>
           star == AfterQuestion(text)
           constant == ConstantIn(text)
           rest == RestOf(text)
<1>1. /\ a \in Canonical /\ Target(a) \in Canonical /\ Target(a) \in UpTo(n)
      /\ IsZigText(ts) /\ read[ts] = Tree[Target(a)]
  BY AllAddresses, PartsAreOlder, ZigTextsAreTexts
<1>2. Tree[a] = [id |-> t.id, data |-> t.data,
                 parts |-> [i \in 1 .. Len(t.parts) |-> Tree[t.parts[i]]]]
  BY <1>1, TreeEquation DEF TreeOf, IsNamed
<1>3. ASSUME ~Is(a, "function")
      PROVE  Tree[a] = [id |-> t.id, data |-> t.data, parts |-> <<read[ts]>>]
  <2>1. Len(t.parts) = 1
    BY <1>3, PartsAreOlder
  <2>2. [i \in 1 .. Len(t.parts) |-> Tree[t.parts[i]]] = <<Tree[t.parts[1]]>>
    BY <2>1
  <2> QED
    BY <1>1, <1>2, <2>2 DEF Target
<1>4. CASE IsPointer(a)
  <2>1. text = ZigPointer(a, ts)
    BY <1>1, <1>4, ZigTextByToken
  <2>2. /\ nullable <=> t.id \in NullablePointers
        /\ star[1] = ZigStar(a)
        /\ constant <=> t.id \in ConstPointers
        /\ rest = ts
    BY <1>1, <2>1, PointerTokens
  <2> HIDE DEF text, star, constant, rest, nullable
  <2>3. /\ t.id \in Pointers /\ ~Is(a, "function")
        /\ t.data \in Seq(Data)
        /\ Len(t.data) = IF t.id \in SentinelledPointers THEN 1 ELSE 0
    BY <1>1, <1>4, KindOfType, PartsAreOlder, TextAssumption
  <2>4. CASE t.id \in SinglePointers
    <3>1. star[1] = <<"*">>
      BY <2>2, <2>4 DEF ZigStar, Star
    <3>2. t.id \notin SentinelledPointers
      BY <2>4 DEF SinglePointers, SentinelledPointers
    <3>3. t.data = <<>>
      BY <2>3, <3>2
    <3>4. PointerId(nullable, TRUE, FALSE, constant) = t.id
      <4>1. (t.id \in SinglePointers) = TRUE /\ (t.id \in SentinelledPointers) = FALSE
        BY <2>4, <3>2
      <4>2. nullable = (t.id \in NullablePointers) /\ constant = (t.id \in ConstPointers)
        BY <2>2 DEF nullable, constant, ConstantIn
      <4>3. PointerId(t.id \in NullablePointers, t.id \in SinglePointers,
                      t.id \in SentinelledPointers, t.id \in ConstPointers) = t.id
        BY <2>3, PointerIdsAreTold
      <4> QED
        BY <4>1, <4>2, <4>3, Zenon
    <3>5. star[1][1] = "*"
      BY <3>1
    <3>6. ReadZig(read, text) = [id |-> PointerId(nullable, TRUE, FALSE, constant),
                                 data |-> <<>>, parts |-> <<read[rest]>>]
      BY <3>5 DEF ReadZig, star, constant, rest, nullable, AfterQuestion, ConstantIn, RestOf
    <3> QED
      BY <1>3, <2>2, <2>3, <3>3, <3>4, <3>6 DEF text
  <2>5. CASE t.id \notin SinglePointers
    <3>1. star[1] = <<"[*", t.data>>
      BY <2>2, <2>5 DEF ZigStar, SentinelOf
    <3>2. t.data # <<>> <=> t.id \in SentinelledPointers
      BY <2>3
    <3>4. PointerId(nullable, FALSE, t.data # <<>>, constant) = t.id
      <4>1. (t.id \in SinglePointers) = FALSE /\ (t.id \in SentinelledPointers) = (t.data # <<>>)
        BY <2>5, <3>2
      <4>2. nullable = (t.id \in NullablePointers) /\ constant = (t.id \in ConstPointers)
        BY <2>2 DEF nullable, constant, ConstantIn
      <4>3. PointerId(t.id \in NullablePointers, t.id \in SinglePointers,
                      t.id \in SentinelledPointers, t.id \in ConstPointers) = t.id
        BY <2>3, PointerIdsAreTold
      <4> QED
        BY <4>1, <4>2, <4>3, Zenon
    <3>5. star[1][1] = "[*" /\ star[1][2] = t.data
      BY <3>1
    <3>6. ReadZig(read, text) = [id |-> PointerId(nullable, FALSE, star[1][2] # <<>>, constant),
                                 data |-> star[1][2], parts |-> <<read[rest]>>]
      BY <3>5 DEF ReadZig, star, constant, rest, nullable, AfterQuestion, ConstantIn, RestOf
    <3> QED
      BY <1>3, <2>2, <2>3, <3>4, <3>5, <3>6 DEF text
  <2> QED
    BY <2>4, <2>5
<1>5. CASE Is(a, "array")
  <2> DEFINE e == <<"size", Size(a)>>
  <2>1. text = <<e>> \o ts
    BY <1>1, <1>5, ZigTextByToken
  <2>2. PICK T : e \in T /\ ts \in Seq(T)
    BY <1>1, OneMoreToken
  <2>3. text[1] = e /\ Tail(text) = ts /\ Len(text) = Len(ts) + 1 /\ Len(ts) \in Nat
        /\ \A i \in 1 .. Len(ts) : text[i + 1] = ts[i]
    <3> HIDE DEF ts, e, text
    <3> QED
      BY <2>1, <2>2, TokenInFront
  <2>4. ~nullable /\ e[1] = "size" /\ e[2] = Size(a)
    <3>1. e # <<"?">>
      OBVIOUS
    <3> QED
      BY <2>3, <3>1
  <2>5. ~constant
    <3>1. ts # <<>> /\ ts[1] # Const
      BY <1>1 DEF IsZigText
    <3> HIDE DEF ts, text
    <3>2. Len(ts) >= 1 /\ 1 \in 1 .. Len(ts) /\ text[1 + 1] = ts[1]
      BY <2>2, <2>3, <3>1
    <3>3. text[2] = ts[1]
      BY <3>2
    <3> QED
      BY <2>4, <3>1, <3>3 DEF AfterQuestion, ConstantIn, text
  <2>6. star[1] = e /\ rest = ts
    BY <2>3, <2>4, <2>5 DEF AfterQuestion, RestOf
  <2>7. t.data = <<Size(a)>> /\ t.id = "array" /\ ~Is(a, "function")
    <3>1. t.data \in Seq(Data) /\ Len(t.data) = 1
      BY <1>5, PartsAreOlder
    <3> QED
      BY <1>5, <3>1 DEF Size, Is
  <2> HIDE DEF text, star, constant, rest, nullable
  <2>8. star[1][1] = "size" /\ star[1][2] = Size(a)
    BY <2>4, <2>6
  <2>9. ReadZig(read, text) = [id |-> "array", data |-> <<star[1][2]>>, parts |-> <<read[rest]>>]
    BY <2>8 DEF ReadZig, star, constant, rest, nullable, AfterQuestion, ConstantIn, RestOf
  <2> QED
    BY <1>3, <2>6, <2>7, <2>8, <2>9 DEF text
<1>6. CASE Is(a, "function")
  <2> DEFINE fn == <<"fn">>
             names == ParameterNames(a)
             ps == [i \in DOMAIN names |-> <<names[i], ZigText[ParameterType(a, i)]>>]
             e == <<"parameters", ps>>
             tail == <<e>> \o ts
             trees == [i \in DOMAIN ps |-> read[ps[i][2]]]
  <2>1. text = <<fn>> \o tail
    BY <1>1, <1>6, ZigTextByToken DEF ZigParameters
  <2>2. PICK T0 : ts \in Seq(T0)
    BY <1>1 DEF IsZigText
  <2> DEFINE T == T0 \union {fn, e}
  <2>3. ts \in Seq(T) /\ fn \in T /\ e \in T
    BY <2>2
  <2>4. tail \in Seq(T) /\ tail[1] = e /\ Tail(tail) = ts /\ Len(tail) = Len(ts) + 1 /\ Len(ts) \in Nat
    <3> HIDE DEF T, e, ts
    <3> QED
      BY <2>3, TokenInFront
  <2>5. /\ text[1] = fn /\ Tail(text) = tail /\ Len(text) = Len(tail) + 1
        /\ \A i \in 1 .. Len(tail) : text[i + 1] = tail[i]
    <3> HIDE DEF T, tail, text, fn
    <3> QED
      BY <2>1, <2>3, <2>4, TokenInFront
  <2>6. text[2] = e
    <3>1. 1 \in 1 .. Len(tail) /\ 1 + 1 = 2
      BY <2>4
    <3>2. text[1 + 1] = tail[1]
      BY <2>5, <3>1, Zenon
    <3> HIDE DEF text, tail, e
    <3> QED
      BY <2>4, <3>1, <3>2
  <2>7. ~nullable
    BY <2>5
  <2>8. ~constant
    <3>1. e # Const
      BY DEF Const
    <3> HIDE DEF e
    <3> QED
      BY <2>6, <2>7, <3>1 DEF AfterQuestion, ConstantIn
  <2>9. star = text /\ rest = tail /\ star[1] = fn /\ star[2] = e
    BY <2>5, <2>6, <2>7, <2>8 DEF AfterQuestion, RestOf
  <2>10. /\ names \in Seq(Parameters) /\ Len(names) = Len(t.parts) - 1 /\ DOMAIN names = 1 .. Len(names)
         /\ Len(t.parts) \in Nat \ {0}
         /\ \A i \in DOMAIN names : ParameterType(a, i) \in UpTo(n)
    BY <1>6, PartsAreOlder
  <2>11. star[1][1] = "fn" /\ star[2][2] = ps
    <3> HIDE DEF ps, star
    <3> QED
      BY <2>9
  <2>12. ReadZig(read, text) = [id |-> "function", data |-> [i \in DOMAIN ps |-> ps[i][1]],
                                parts |-> <<read[Tail(rest)]>> \o trees]
    <3> HIDE DEF text, star, constant, rest, nullable, ps
    <3>1. ReadZig(read, text) =
              [id |-> "function", data |-> [i \in DOMAIN star[2][2] |-> star[2][2][i][1]],
               parts |-> <<read[Tail(rest)]>> \o [i \in DOMAIN star[2][2] |-> read[star[2][2][i][2]]]]
      BY <2>11 DEF ReadZig, star, constant, rest, nullable, AfterQuestion, ConstantIn, RestOf
    <3> QED
      BY <2>11, <3>1
  <2>13. [i \in DOMAIN ps |-> ps[i][1]] = t.data /\ t.id = "function"
    <3>1. [i \in DOMAIN ps |-> ps[i][1]] = [i \in DOMAIN names |-> names[i]]
      OBVIOUS
    <3>2. [i \in DOMAIN names |-> names[i]] = names
      <4> HIDE DEF names
      <4> QED
        BY <2>10
    <3> QED
      BY <1>6, <3>1, <3>2 DEF ParameterNames, Is
  <2>14. <<read[Tail(rest)]>> \o trees = [i \in 1 .. Len(t.parts) |-> Tree[t.parts[i]]]
    <3> DEFINE parts == [i \in 1 .. Len(t.parts) |-> Tree[t.parts[i]]]
               U == {Tree[t.parts[i]] : i \in 1 .. Len(t.parts)}
    <3>1. read[Tail(rest)] = parts[1] /\ parts[1] \in U
      <4>1. Tail(rest) = ts
        <5> HIDE DEF tail, rest, ts
        <5> QED
          BY <2>4, <2>9
      <4>2. 1 \in 1 .. Len(t.parts)
        BY <2>10
      <4> HIDE DEF rest
      <4> QED
        BY <1>1, <4>1, <4>2 DEF Target
    <3>2. ASSUME NEW i \in 1 .. Len(names)
          PROVE  trees[i] = parts[i + 1] /\ trees[i] \in U
      <4>1. ParameterType(a, i) \in UpTo(n) /\ i \in DOMAIN names /\ i + 1 \in 1 .. Len(t.parts)
        BY <2>10
      <4>2. ps[i][2] = ZigText[ParameterType(a, i)]
        BY <4>1
      <4>3. trees[i] = read[ps[i][2]]
        BY <4>1
      <4>4. read[ps[i][2]] = Tree[ParameterType(a, i)]
        BY <4>1, <4>2
      <4> QED
        BY <4>1, <4>3, <4>4 DEF ParameterType
    <3>3. trees \in Seq(U) /\ Len(trees) = Len(t.parts) - 1
      <4>1. DOMAIN trees = 1 .. Len(names)
        BY <2>10
      <4>2. trees = [i \in 1 .. Len(names) |-> trees[i]]
        BY <4>1
      <4>3. Len(names) \in Nat
        BY <2>10
      <4> HIDE DEF trees, U, names, parts
      <4>4. trees \in [1 .. Len(names) -> U]
        BY <4>2, <3>2
      <4>5. trees \in Seq(U) /\ Len(trees) = Len(names)
        BY <4>3, <4>4
      <4> QED
        BY <4>5, <2>10
    <3>4. parts \in Seq(U) /\ Len(parts) = Len(t.parts)
      BY <2>10
    <3> DEFINE x == read[Tail(rest)]
               joined == <<x>> \o trees
               l == Len(t.parts)
    <3>5. Len(names) = l - 1 /\ l \in Nat \ {0}
      BY <2>10
    <3> HIDE DEF trees, U, parts, names, x, l
    <3>6. /\ joined \in Seq(U) /\ Len(joined) = l /\ joined[1] = x
          /\ \A i \in 1 .. Len(trees) : joined[i + 1] = trees[i]
      <4>1. x \in U
        BY <3>1 DEF x
      <4>2. Len(trees) \in Nat /\ Len(trees) = l - 1
        BY <3>3, <3>5 DEF l
      <4> QED
        BY <3>3, <3>5, <4>1, <4>2, TokenInFront
    <3>7. ASSUME NEW i \in 1 .. l PROVE joined[i] = parts[i]
      <4>1. CASE i = 1
        BY <4>1, <3>1, <3>6 DEF x
      <4>2. CASE i # 1
        <5>1. i - 1 \in 1 .. Len(trees) /\ i - 1 \in 1 .. Len(names) /\ (i - 1) + 1 = i
          BY <3>3, <3>5, <4>2 DEF l
        <5>2. joined[(i - 1) + 1] = trees[i - 1] /\ trees[i - 1] = parts[(i - 1) + 1]
          BY <3>2, <3>6, <5>1, Zenon
        <5> HIDE DEF joined
        <5> QED
          BY <5>1, <5>2
      <4> QED
        BY <4>1, <4>2
    <3>8. joined = parts
      <4>1. Len(parts) = l
        BY <3>4 DEF l
      <4> HIDE DEF joined
      <4> QED
        BY <3>4, <3>6, <3>7, <4>1
    <3> QED
      BY <3>8 DEF parts, x
  <2> HIDE DEF ps, trees, text, rest
  <2> QED
    BY <1>2, <2>12, <2>13, <2>14 DEF text
<1> QED
  BY <1>1, <1>4, <1>5, <1>6, KindOfType

ZigReaderAt(f, n) == [ts \in ZigTexts |-> IF n = 0 THEN Illegal ELSE ReadZig(f[n - 1], ts)]

\* The Zig reader is built level by level.
LEMMA ZigReadersExist ==
    ASSUME IInv
    PROVE  \E f : f = [n \in 0 .. Len(cache) + 1 |-> ZigReaderAt(f, n)]
<1> DEFINE m == Len(cache) + 1
           Upto(f, k) == \A n \in 0 .. m : n <= k => f[n] = ZigReaderAt(f, n)
           S == {k \in Nat : \E f : f = [n \in 0 .. m |-> f[n]] /\ Upto(f, k)}
<1>0. m \in Nat
  BY AllAddresses
<1> HIDE DEF m
<1>1. 0 \in S
  <2> DEFINE f == [n \in 0 .. m |-> ZigReaderAt(<<>>, 0)]
  <2>1. Upto(f, 0)
    BY <1>0 DEF ZigReaderAt
  <2> QED
    BY <2>1
<1>2. ASSUME NEW k \in Nat, k \in S PROVE k + 1 \in S
  <2>1. PICK f : f = [n \in 0 .. m |-> f[n]] /\ Upto(f, k)
    BY <1>2
  <2> DEFINE g == [n \in 0 .. m |-> ZigReaderAt(f, n)]
  <2>2. \A n \in 0 .. m : n <= k => f[n] = g[n]
    BY <2>1
  <2>3. Upto(g, k + 1)
    <3> SUFFICES ASSUME NEW n \in 0 .. m, n <= k + 1 PROVE g[n] = ZigReaderAt(g, n)
      OBVIOUS
    <3>1. n # 0 => n - 1 \in 0 .. m /\ n - 1 <= k
      BY <1>0
    <3>2. g[n] = ZigReaderAt(f, n)
      OBVIOUS
    <3>3. n # 0 => f[n - 1] = g[n - 1]
      BY <2>2, <3>1
    <3> HIDE DEF g
    <3>4. ZigReaderAt(f, n) = ZigReaderAt(g, n)
      BY <3>3 DEF ZigReaderAt
    <3> QED
      BY <3>2, <3>4
  <2>4. g = [n \in 0 .. m |-> g[n]]
    OBVIOUS
  <2>5. \E h : h = [n \in 0 .. m |-> h[n]] /\ Upto(h, k + 1)
    <3> HIDE DEF g, Upto
    <3> QED
      BY <2>3, <2>4
  <2> HIDE DEF Upto
  <2>6. k + 1 \in Nat
    OBVIOUS
  <2> QED
    BY <2>5, <2>6
<1>3. m \in S
  <2> HIDE DEF S
  <2> QED
    BY <1>0, <1>1, <1>2, Induction
<1>4. PICK f : f = [n \in 0 .. m |-> f[n]] /\ Upto(f, m)
  BY <1>3
<1>5. f = [n \in 0 .. m |-> ZigReaderAt(f, n)]
  <2>1. \A n \in 0 .. m : f[n] = ZigReaderAt(f, n)
    BY <1>0, <1>4
  <2> QED
    BY <1>4, <2>1
<1> QED
  BY <1>5 DEF m

\* The Zig reader on each level.
LEMMA ZigReaderEquation ==
    ASSUME IInv, NEW n \in 0 .. Len(cache), NEW a \in Canonical
    PROVE  ZigReader[n + 1][ZigText[a]] = ReadZig(ZigReader[n], ZigText[a])
<1>1. ZigReader = CHOOSE f : f = [m \in 0 .. Len(cache) + 1 |-> ZigReaderAt(f, m)]
  BY DEF ZigReader, ZigReaderAt
<1>2. ZigReader = [m \in 0 .. Len(cache) + 1 |-> ZigReaderAt(ZigReader, m)]
  BY <1>1, ZigReadersExist
<1>3. n + 1 \in 0 .. Len(cache) + 1 /\ n + 1 # 0 /\ (n + 1) - 1 = n
  BY AllAddresses
<1>4. ZigText[a] \in ZigTexts
  BY DEF ZigTexts
<1>5. ZigReader[n + 1] = ZigReaderAt(ZigReader, n + 1)
  BY <1>2, <1>3
<1> QED
  BY <1>3, <1>4, <1>5 DEF ZigReaderAt

\* Types that lie up to n levels deep are read back by n + 1 levels of reading.
LEMMA ZigIsReadBack ==
    ASSUME IInv, NEW a \in Canonical
    PROVE  ZigReader[Len(cache) + 1][ZigText[a]] = Tree[a]
<1> DEFINE Back(n) == \A b \in UpTo(n) : ZigReader[n + 1][ZigText[b]] = Tree[b]
           S == {n \in Nat : n <= Len(cache) => Back(n)}
<1>1. ASSUME NEW n \in 0 .. Len(cache), NEW b \in Canonical, IsNamed(b)
      PROVE  ZigReader[n + 1][ZigText[b]] = Tree[b]
  <2> DEFINE e == <<"type", b>>
             text == ZigText[b]
  <2>1. text = <<e>>
    BY <1>1, KindOfType, ZigTextEquation DEF ZigTextOf
  <2>2. AfterQuestion(text) = text /\ AfterQuestion(text)[1][1] = "type" /\ text[1][2] = b
    BY <2>1 DEF AfterQuestion
  <2> HIDE DEF text
  <2>3. ReadZig(ZigReader[n], text) = [name |-> AfterQuestion(text)[1][2]]
    BY <2>2 DEF ReadZig, AfterQuestion
  <2>4. Tree[b] = [name |-> b]
    BY <1>1, TreeEquation DEF TreeOf, IsNamed
  <2> QED
    BY <2>2, <2>3, <2>4, ZigReaderEquation DEF text
<1>2. 0 \in S
  BY <1>1, AllAddresses DEF IsNamed
<1>3. ASSUME NEW n \in Nat, n \in S PROVE n + 1 \in S
  <2> SUFFICES ASSUME n + 1 <= Len(cache), NEW b \in UpTo(n + 1)
               PROVE  ZigReader[(n + 1) + 1][ZigText[b]] = Tree[b]
    OBVIOUS
  <2>1. b \in Canonical /\ n + 1 \in 0 .. Len(cache) /\ n <= Len(cache)
    BY AllAddresses
  <2>2. CASE ~IsNamed(b)
    <3>1. \A c \in UpTo(n) : ZigReader[n + 1][ZigText[c]] = Tree[c]
      BY <1>3, <2>1
    <3>2. ReadZig(ZigReader[n + 1], ZigText[b]) = Tree[b]
      BY <2>2, <3>1, ZigIsRead
    <3> QED
      BY <2>1, <3>2, ZigReaderEquation
  <2> QED
    BY <1>1, <2>1, <2>2
<1>4. Len(cache) \in S
  <2> HIDE DEF S
  <2> QED
    BY <1>2, <1>3, AllAddresses, Induction
<1> QED
  BY <1>4, AllAddresses

\* What the Zig back end writes for a type (render_type) is read back as that type,
\* whatever it is made of: no flag of a pointer, no sentinel, size or parameter is lost.
THEOREM ZigIsRight == Spec => []ZigTextIsRight
<1>1. IInv => ZigTextIsRight
  <2> SUFFICES ASSUME IInv, NEW a \in Printed
               PROVE  ZigReader[Len(cache) + 1][ZigText[a]] = Tree[a]
    BY DEF ZigTextIsRight
  <2>1. a \in Canonical
    BY DEF Printed, IInv
  <2> QED
    BY <2>1, ZigIsReadBack
<1> QED
  BY <1>1, Invariance, PTL

-----------------------------------------------------------------------------
(* How a C compiler reads a declarator, token by token.                    *)

RunAt(read, c, ts, f, n) == IF n = 0 THEN <<c, ts>> ELSE ReadOn(read, f[n - 1])

\* A declarator is read in steps.
LEMMA RunsExist ==
    ASSUME NEW read, NEW c, NEW ts, Len(ts) \in Nat
    PROVE  \E f : f = [n \in 0 .. Len(ts) |-> RunAt(read, c, ts, f, n)]
<1> DEFINE m == Len(ts)
           Upto(f, k) == \A n \in 0 .. m : n <= k => f[n] = RunAt(read, c, ts, f, n)
           S == {k \in Nat : \E f : f = [n \in 0 .. m |-> f[n]] /\ Upto(f, k)}
<1>0. m \in Nat
  BY DEF RunAt
<1> HIDE DEF m
<1>1. 0 \in S
  <2> DEFINE f == [n \in 0 .. m |-> RunAt(read, c, ts, <<>>, 0)]
  <2>1. Upto(f, 0)
    BY <1>0 DEF RunAt
  <2> QED
    BY <2>1
<1>2. ASSUME NEW k \in Nat, k \in S PROVE k + 1 \in S
  <2>1. PICK f : f = [n \in 0 .. m |-> f[n]] /\ Upto(f, k)
    BY <1>2
  <2> DEFINE g == [n \in 0 .. m |-> RunAt(read, c, ts, f, n)]
  <2>2. \A n \in 0 .. m : n <= k => f[n] = g[n]
    BY <2>1
  <2>3. Upto(g, k + 1)
    <3> SUFFICES ASSUME NEW n \in 0 .. m, n <= k + 1 PROVE g[n] = RunAt(read, c, ts, g, n)
      OBVIOUS
    <3>1. n # 0 => n - 1 \in 0 .. m /\ n - 1 <= k
      BY <1>0
    <3>2. g[n] = RunAt(read, c, ts, f, n)
      OBVIOUS
    <3>3. n # 0 => f[n - 1] = g[n - 1]
      BY <2>2, <3>1
    <3> HIDE DEF g
    <3>4. RunAt(read, c, ts, f, n) = RunAt(read, c, ts, g, n)
      BY <3>3 DEF RunAt
    <3> QED
      BY <3>2, <3>4
  <2>4. g = [n \in 0 .. m |-> g[n]]
    OBVIOUS
  <2>5. \E h : h = [n \in 0 .. m |-> h[n]] /\ Upto(h, k + 1)
    <3> HIDE DEF g, Upto
    <3> QED
      BY <2>3, <2>4
  <2> HIDE DEF Upto
  <2>6. k + 1 \in Nat
    OBVIOUS
  <2> QED
    BY <2>5, <2>6
<1>3. m \in S
  <2> HIDE DEF S
  <2> QED
    BY <1>0, <1>1, <1>2, Induction
<1>4. PICK f : f = [n \in 0 .. m |-> f[n]] /\ Upto(f, m)
  BY <1>3
<1>5. f = [n \in 0 .. m |-> RunAt(read, c, ts, f, n)]
  <2>1. \A n \in 0 .. m : f[n] = RunAt(read, c, ts, f, n)
    BY <1>0, <1>4
  <2> QED
    BY <1>4, <2>1
<1> QED
  BY <1>5 DEF m

StepsTo(read, c, ts, f, k) ==
    /\ f[0] = <<c, ts>>
    /\ \A n \in 0 .. k - 1 : f[n + 1] = ReadOn(read, f[n])
    /\ ReadDeclarator(read, c, ts) = f[k][1]

\* The steps of reading a declarator: as many as it has tokens.
LEMMA StepsOfReading ==
    ASSUME NEW read, NEW c, NEW ts, NEW k \in Nat, Len(ts) = k
    PROVE  \E f : StepsTo(read, c, ts, f, k)
<1> DEFINE f == CHOOSE f : f = [n \in 0 .. Len(ts) |-> RunAt(read, c, ts, f, n)]
<1>1. f = [n \in 0 .. Len(ts) |-> RunAt(read, c, ts, f, n)]
  BY RunsExist
<1>2. ReadDeclarator(read, c, ts) = f[Len(ts)][1]
  BY DEF ReadDeclarator, RunAt
<1> HIDE DEF f
<1>3. f[0] = <<c, ts>>
  BY <1>1 DEF RunAt
<1>4. \A n \in 0 .. Len(ts) - 1 : f[n + 1] = ReadOn(read, f[n])
  <2> SUFFICES ASSUME NEW n \in 0 .. Len(ts) - 1 PROVE f[n + 1] = ReadOn(read, f[n])
    OBVIOUS
  <2>1. n + 1 \in 0 .. Len(ts) /\ n + 1 # 0 /\ (n + 1) - 1 = n
    OBVIOUS
  <2>2. f[n + 1] = RunAt(read, c, ts, f, n + 1)
    BY <1>1, <2>1
  <2> QED
    BY <2>1, <2>2 DEF RunAt
<1> QED
  BY <1>2, <1>3, <1>4 DEF StepsTo

\* Where nothing is left to be read, the type is known.
LEMMA NothingToRead ==
    ASSUME NEW read, NEW c
    PROVE  ReadDeclarator(read, c, <<>>) = c
<1>1. Len(<<>>) = 0
  OBVIOUS
<1>2. PICK f : StepsTo(read, c, <<>>, f, 0)
  BY <1>1, StepsOfReading
<1> QED
  BY <1>2 DEF StepsTo

\* What is left of a text is shorter.
LEMMA ShorterByOne ==
    ASSUME NEW T, NEW ts \in Seq(T), ts # <<>>
    PROVE  /\ Len(ts) \in Nat \ {0}
           /\ Tail(ts) \in Seq(T) /\ Len(Tail(ts)) = Len(ts) - 1
           /\ \A i \in 1 .. Len(ts) - 1 : Tail(ts)[i] = ts[i + 1]
           /\ Front(ts) \in Seq(T) /\ Len(Front(ts)) = Len(ts) - 1
           /\ \A i \in 1 .. Len(ts) - 1 : Front(ts)[i] = ts[i]
<1>1. Len(ts) \in Nat \ {0}
  OBVIOUS
<1>2. /\ Tail(ts) \in Seq(T) /\ Len(Tail(ts)) = Len(ts) - 1
      /\ \A i \in 1 .. Len(ts) - 1 : Tail(ts)[i] = ts[i + 1]
  BY <1>1
<1>3. Front(ts) = SubSeq(ts, 1, Len(ts) - 1)
  BY DEF Front
<1>4. Front(ts) \in Seq(T) /\ Len(Front(ts)) = Len(ts) - 1
  <2> DEFINE m == Len(ts)
  <2>0. m \in Nat \ {0}
    BY <1>1
  <2>1. PICK k \in Nat : k = m - 1 /\ k <= m
    <3> HIDE DEF m
    <3> QED
      BY <2>0
  <2>2. \A i \in 1 .. k : ts[i] \in T
    BY <2>1
  <2>3. SubSeq(ts, 1, k) = [i \in 1 .. k |-> ts[i]]
    BY <2>1
  <2>4. SubSeq(ts, 1, k) \in Seq(T) /\ Len(SubSeq(ts, 1, k)) = k
    BY <2>2, <2>3
  <2> QED
    BY <1>3, <2>1, <2>4
<1>5. \A i \in 1 .. Len(ts) - 1 : Front(ts)[i] = ts[i]
  BY <1>1, <1>3
<1> QED
  BY <1>1, <1>2, <1>4, <1>5

\* Without the const in front a text is no longer than with it.
LEMMA ShorterUnqualified ==
    ASSUME NEW T, NEW ts \in Seq(T)
    PROVE  Unqualified(ts) \in Seq(T) /\ Len(Unqualified(ts)) <= Len(ts)
<1>1. CASE ts = <<>>
  BY <1>1 DEF Unqualified
<1>2. CASE ts # <<>>
  BY <1>2, ShorterByOne DEF Unqualified
<1> QED
  BY <1>1, <1>2

\* Every step of reading takes something off the text.
LEMMA ShorterStep ==
    ASSUME NEW read, NEW c, NEW T, NEW ts \in Seq(T), ts # <<>>
    PROVE  LET s == DeclaratorStep(read, c, ts)
           IN  s = <<s[1], s[2]>> /\ s[2] \in Seq(T) /\ Len(s[2]) < Len(ts)
<1> DEFINE s == DeclaratorStep(read, c, ts)
           last == ts[Len(ts)]
           Shorter(u) == u[2] \in Seq(T) /\ Len(u[2]) < Len(ts) /\ u = <<u[1], u[2]>>
<1>1. /\ Len(ts) \in Nat \ {0}
      /\ Tail(ts) \in Seq(T) /\ Len(Tail(ts)) = Len(ts) - 1
      /\ Front(ts) \in Seq(T) /\ Len(Front(ts)) = Len(ts) - 1
  BY ShorterByOne
<1>2. Unqualified(Tail(ts)) \in Seq(T) /\ Len(Unqualified(Tail(ts))) < Len(ts)
  <2> DEFINE u == Unqualified(Tail(ts))
  <2>1. u \in Seq(T) /\ Len(u) <= Len(Tail(ts))
    BY <1>1, ShorterUnqualified
  <2>2. Len(u) \in Nat
    BY <2>1
  <2> HIDE DEF u
  <2> QED
    BY <1>1, <2>1, <2>2 DEF u
<1>3. \A t1, t2 : t2 \in Seq(T) /\ Len(t2) < Len(ts) => Shorter(<<t1, t2>>)
  OBVIOUS
<1>4. \A t1 : Shorter(<<t1, <<>> >>)
  BY <1>1
<1>5. ASSUME ts[1] = Open, last = Close
      PROVE  Shorter(<<c, SubSeq(ts, 2, Len(ts) - 1)>>)
  <2>1. Len(ts) # 1
    BY <1>5 DEF Open, Close
  <2>2. SubSeq(ts, 2, Len(ts) - 1) \in Seq(T) /\ Len(SubSeq(ts, 2, Len(ts) - 1)) < Len(ts)
    BY <1>1, <2>1
  <2> QED
    BY <1>3, <2>2
<1> HIDE DEF Shorter
<1>6. Shorter(s)
  BY <1>1, <1>2, <1>3, <1>4, <1>5 DEF DeclaratorStep
<1> QED
  BY <1>6 DEF Shorter

\* A step of reading, and then the rest of the text.
LEMMA ReadingOn ==
    ASSUME NEW read, NEW c, NEW T, NEW ts \in Seq(T), ts # <<>>
    PROVE  LET s == DeclaratorStep(read, c, ts)
           IN  ReadDeclarator(read, c, ts) = ReadDeclarator(read, s[1], s[2])
<1> DEFINE s == DeclaratorStep(read, c, ts)
           c2 == s[1]
           ts2 == s[2]
           k == Len(ts2)
           m == Len(ts)
<1>1. s = <<c2, ts2>> /\ ts2 \in Seq(T) /\ k < m /\ k \in Nat /\ m \in Nat \ {0}
  BY ShorterStep, ShorterByOne
<1>2. ReadOn(read, <<c, ts>>) = s
  BY DEF ReadOn
<1>a. PICK f : StepsTo(read, c, ts, f, m)
  <2> HIDE DEF s, m, k
  <2> QED
    BY <1>1, StepsOfReading DEF m
<1>b. PICK g : StepsTo(read, c2, ts2, g, k)
  <2> HIDE DEF s, c2, ts2, m, k
  <2> QED
    BY <1>1, StepsOfReading DEF k
<1> HIDE DEF s, c2, ts2, k, m
<1>3. /\ f[0] = <<c, ts>> /\ ReadDeclarator(read, c, ts) = f[m][1]
      /\ \A n \in 0 .. m - 1 : f[n + 1] = ReadOn(read, f[n])
  BY <1>a DEF StepsTo
<1>4. /\ g[0] = <<c2, ts2>> /\ ReadDeclarator(read, c2, ts2) = g[k][1]
      /\ \A n \in 0 .. k - 1 : g[n + 1] = ReadOn(read, g[n])
  BY <1>b DEF StepsTo
<1>5. f[1] = g[0]
  <2>1. 0 \in 0 .. m - 1 /\ 0 + 1 = 1
    BY <1>1
  <2>2. f[0 + 1] = ReadOn(read, f[0])
    BY <1>3, <2>1
  <2> QED
    BY <1>1, <1>2, <1>3, <1>4, <2>1, <2>2
<1>6. \A n \in Nat : n <= k =>
         /\ f[n + 1] = g[n]
         /\ g[n][2] \in Seq(T) /\ Len(g[n][2]) <= k - n
  <2> DEFINE S == {n \in Nat : n <= k => /\ f[n + 1] = g[n]
                                         /\ g[n][2] \in Seq(T) /\ Len(g[n][2]) <= k - n}
  <2>1. 0 \in S
    <3>1. g[0][2] = ts2 /\ 0 + 1 = 1 /\ k - 0 = k
      BY <1>1, <1>4
    <3> QED
      BY <1>1, <1>5, <3>1 DEF k
  <2>2. ASSUME NEW n \in Nat, n \in S PROVE n + 1 \in S
    <3> SUFFICES ASSUME n + 1 <= k
                 PROVE  /\ f[(n + 1) + 1] = g[n + 1]
                        /\ g[n + 1][2] \in Seq(T) /\ Len(g[n + 1][2]) <= k - (n + 1)
      OBVIOUS
    <3>1. n \in 0 .. k - 1 /\ n + 1 \in 0 .. m - 1 /\ n <= k
      BY <1>1
    <3>2. f[n + 1] = g[n] /\ g[n][2] \in Seq(T) /\ Len(g[n][2]) <= k - n
      BY <2>2, <3>1
    <3>3. f[(n + 1) + 1] = ReadOn(read, f[n + 1]) /\ g[n + 1] = ReadOn(read, g[n])
      BY <1>3, <1>4, <3>1
    <3> DEFINE u == g[n]
               v == g[n + 1]
    <3>4. CASE u[2] = <<>>
      <4>1. v = u
        BY <3>3, <3>4 DEF ReadOn
      <4> QED
        <5>1. Len(u[2]) = 0 /\ u[2] \in Seq(T)
          BY <3>4
        <5>2. f[(n + 1) + 1] = v
          BY <3>2, <3>3
        <5> HIDE DEF u, v
        <5>3. Len(v[2]) <= k - (n + 1) /\ v[2] \in Seq(T)
          BY <1>1, <4>1, <5>1
        <5> QED
          BY <5>2, <5>3 DEF u, v
    <3>5. CASE u[2] # <<>>
      <4>1. v = DeclaratorStep(read, u[1], u[2])
        BY <3>3, <3>5 DEF ReadOn
      <4> HIDE DEF u, v
      <4>2. v[2] \in Seq(T) /\ Len(v[2]) < Len(u[2]) /\ Len(u[2]) \in Nat /\ Len(v[2]) \in Nat
        BY <3>2, <3>5, <4>1, ShorterStep DEF u
      <4> QED
        BY <1>1, <3>1, <3>2, <3>3, <4>2 DEF u, v
    <3> QED
      BY <3>4, <3>5
  <2> HIDE DEF S
  <2>3. \A n \in Nat : n \in S
    BY <2>1, <2>2, Induction
  <2> QED
    BY <2>3 DEF S
<1>7. f[k + 1] = g[k] /\ g[k][2] = <<>>
  <2>1. f[k + 1] = g[k] /\ g[k][2] \in Seq(T) /\ Len(g[k][2]) <= k - k
    BY <1>1, <1>6
  <2> DEFINE w == g[k][2]
  <2>2. w = <<>>
    <3> HIDE DEF w
    <3> QED
      BY <1>1, <2>1 DEF w
  <2> QED
    BY <2>1, <2>2
<1>8. \A n \in Nat : k + 1 + n <= m => f[k + 1 + n] = g[k]
  <2> DEFINE S == {n \in Nat : k + 1 + n <= m => f[k + 1 + n] = g[k]}
  <2>1. 0 \in S
    BY <1>1, <1>7
  <2>2. ASSUME NEW n \in Nat, n \in S PROVE n + 1 \in S
    <3> SUFFICES ASSUME k + 1 + (n + 1) <= m PROVE f[k + 1 + (n + 1)] = g[k]
      OBVIOUS
    <3>1. /\ k + 1 + n \in 0 .. m - 1 /\ k + 1 + n <= m
          /\ k + 1 + (n + 1) = (k + 1 + n) + 1
      BY <1>1
    <3>2. f[k + 1 + n] = g[k]
      BY <2>2, <3>1
    <3>3. f[(k + 1 + n) + 1] = ReadOn(read, f[k + 1 + n])
      BY <1>3, <3>1
    <3> QED
      BY <1>7, <3>1, <3>2, <3>3 DEF ReadOn
  <2> HIDE DEF S
  <2>3. \A n \in Nat : n \in S
    BY <2>1, <2>2, Induction
  <2> QED
    BY <2>3 DEF S
<1>9. f[m] = g[k]
  <2>1. PICK j \in Nat : j = m - (k + 1)
    BY <1>1
  <2>2. k + 1 + j = m /\ k + 1 + j <= m
    BY <1>1, <2>1
  <2>3. f[k + 1 + j] = g[k]
    BY <1>8, <2>2
  <2> QED
    BY <2>2, <2>3
<1> QED
  BY <1>3, <1>4, <1>9 DEF s, c2, ts2

\* A star in front binds to the type.
LEMMA StarIsRead ==
    ASSUME NEW read, NEW c, NEW T, NEW d \in Seq(T), Star \in T
    PROVE  ReadDeclarator(read, c, <<Star>> \o d)
             = ReadDeclarator(read, Qualified(PointerTo(c), d), Unqualified(d))
<1> DEFINE ts == <<Star>> \o d
           s == DeclaratorStep(read, c, ts)
           q == Qualified(PointerTo(c), d)
           u == Unqualified(d)
<1>1. ts \in Seq(T) /\ ts # <<>> /\ ts[1] = Star /\ Tail(ts) = d
  BY TokenInFront
<1> HIDE DEF ts
<1>2. s = <<q, u>>
  BY <1>1 DEF DeclaratorStep
<1>3. s[1] = q /\ s[2] = u
  <2> HIDE DEF s, q, u
  <2> QED
    BY <1>2
<1>4. ReadDeclarator(read, c, ts) = ReadDeclarator(read, s[1], s[2])
  <2> HIDE DEF q, u
  <2> QED
    BY <1>1, ReadingOn
<1> QED
  BY <1>3, <1>4 DEF ts

\* A name that is left alone ends a declarator.
LEMMA NameIsRead ==
    ASSUME NEW read, NEW c, NEW x
    PROVE  ReadDeclarator(read, c, << <<"name", x>> >>) = <<"declared", x, c>>
<1> DEFINE e == <<"name", x>>
           ts == <<e>>
           s == DeclaratorStep(read, c, ts)
           r == <<"declared", x, c>>
<1>1. ts \in Seq({e}) /\ ts # <<>> /\ Len(ts) = 1 /\ ts[1] = e
  OBVIOUS
<1>2. e # Star /\ e[1] = "name" /\ e[2] = x
  BY DEF Star
<1> HIDE DEF ts, e
<1>3. s = <<r, <<>> >>
  BY <1>1, <1>2 DEF DeclaratorStep
<1>4. s[1] = r /\ s[2] = <<>>
  <2> HIDE DEF s, r
  <2> QED
    BY <1>3
<1>5. ReadDeclarator(read, c, ts) = ReadDeclarator(read, s[1], s[2])
  <2> HIDE DEF r
  <2> QED
    BY <1>1, ReadingOn
<1> QED
  BY <1>4, <1>5, NothingToRead DEF ts, e

\* A size behind makes an array of what is not a function.
LEMMA SizeIsRead ==
    ASSUME NEW read, NEW c, NEW T, NEW x \in Seq(T), NEW n, <<"size", n>> \in T,
           x # <<>>, x[1] # Star, c.of[1] # "function"
    PROVE  ReadDeclarator(read, c, x \o << <<"size", n>> >>) = ReadDeclarator(read, ArrayOf(n, c), x)
<1> DEFINE e == <<"size", n>>
           ts == x \o <<e>>
           s == DeclaratorStep(read, c, ts)
           q == ArrayOf(n, c)
<1>1. /\ ts \in Seq(T) /\ ts # <<>> /\ ts[1] = x[1] /\ Len(ts) = Len(x) + 1
      /\ ts[Len(ts)] = e /\ Front(ts) = x
  <2>1. 1 \in 1 .. Len(x) /\ e \in T
    OBVIOUS
  <2> HIDE DEF e
  <2> QED
    BY <2>1, TokenBehind
<1>2. e[1] = "size" /\ e[2] = n
  OBVIOUS
<1> HIDE DEF ts, e
<1>3. s = <<q, x>>
  BY <1>1, <1>2 DEF DeclaratorStep
<1>4. s[1] = q /\ s[2] = x
  <2> HIDE DEF s, q
  <2> QED
    BY <1>3
<1>5. ReadDeclarator(read, c, ts) = ReadDeclarator(read, s[1], s[2])
  <2> HIDE DEF q
  <2> QED
    BY <1>1, ReadingOn
<1> QED
  BY <1>4, <1>5 DEF ts, e

Called(read, c, ps) == FunctionOf(c, [i \in DOMAIN ps |-> read[ps[i]]])

\* Parameters behind make a function, of what a function can return.
LEMMA ParametersAreRead ==
    ASSUME NEW read, NEW c, NEW T, NEW x \in Seq(T), NEW ps, <<"parameters", ps>> \in T,
           x # <<>>, x[1] # Star
    PROVE  ReadDeclarator(read, c, x \o << <<"parameters", ps>> >>)
             = IF Returnable(c) THEN ReadDeclarator(read, Called(read, c, ps), x) ELSE Illegal
<1> DEFINE e == <<"parameters", ps>>
           ts == x \o <<e>>
           s == DeclaratorStep(read, c, ts)
           q == Called(read, c, ps)
<1>1. /\ ts \in Seq(T) /\ ts # <<>> /\ ts[1] = x[1] /\ Len(ts) = Len(x) + 1
      /\ ts[Len(ts)] = e /\ Front(ts) = x
  <2>1. 1 \in 1 .. Len(x) /\ e \in T
    OBVIOUS
  <2> HIDE DEF e
  <2> QED
    BY <2>1, TokenBehind
<1>2. e[1] = "parameters" /\ e[2] = ps /\ e # Close
  BY DEF Close
<1> HIDE DEF ts, e
<1>3. s = IF Returnable(c) THEN <<q, x>> ELSE <<Illegal, <<>> >>
  BY <1>1, <1>2 DEF DeclaratorStep, Called
<1>4. IF Returnable(c) THEN s[1] = q /\ s[2] = x ELSE s[1] = Illegal /\ s[2] = <<>>
  <2> HIDE DEF s, q
  <2> QED
    BY <1>3
<1>5. ReadDeclarator(read, c, ts) = ReadDeclarator(read, s[1], s[2])
  <2> HIDE DEF q
  <2> QED
    BY <1>1, ReadingOn
<1> QED
  BY <1>4, <1>5, NothingToRead DEF ts, e

\* Parentheses around all of a declarator do not count.
LEMMA GroupIsRead ==
    ASSUME NEW read, NEW c, NEW T, NEW y \in Seq(T), Open \in T, Close \in T
    PROVE  ReadDeclarator(read, c, <<Open>> \o (y \o <<Close>>)) = ReadDeclarator(read, c, y)
<1> DEFINE yc == y \o <<Close>>
           ts == <<Open>> \o yc
           s == DeclaratorStep(read, c, ts)
<1>1. /\ yc \in Seq(T) /\ Len(yc) = Len(y) + 1 /\ yc[Len(y) + 1] = Close /\ Len(y) \in Nat
      /\ \A i \in 1 .. Len(y) : yc[i] = y[i]
  BY TokenBehind
<1> HIDE DEF yc
<1>2. /\ ts \in Seq(T) /\ ts # <<>> /\ Len(ts) = Len(yc) + 1 /\ ts[1] = Open
      /\ \A i \in 1 .. Len(yc) : ts[i + 1] = yc[i]
  BY <1>1, TokenInFront
<1> HIDE DEF ts
<1>3. Len(ts) = Len(y) + 2 /\ ts[Len(ts)] = Close
  <2>1. Len(y) + 1 \in 1 .. Len(yc) /\ (Len(y) + 1) + 1 = Len(ts)
    BY <1>1, <1>2
  <2>2. ts[(Len(y) + 1) + 1] = yc[Len(y) + 1]
    BY <1>2, <2>1
  <2> QED
    BY <1>1, <2>1, <2>2
<1>4. SubSeq(ts, 2, Len(ts) - 1) = y
  <2> DEFINE k == Len(y)
             sub == SubSeq(ts, 2, Len(ts) - 1)
  <2>0. \A i \in 1 .. k : i + 1 \in 1 .. Len(ts) /\ ts[i + 1] = y[i]
    BY <1>1, <1>2, <1>3
  <2>1. Len(ts) - 1 = k + 1 /\ k \in Nat
    BY <1>1, <1>3
  <2>2. sub = [i \in 1 .. k |-> ts[i + 1]]
    <3>1. SubSeq(ts, 2, k + 1) = [i \in 1 .. k |-> ts[i + 1]]
      <4> HIDE DEF k
      <4> QED
        BY <2>1
    <3> QED
      BY <2>1, <3>1
  <2>3. y = [i \in 1 .. k |-> y[i]]
    OBVIOUS
  <2> HIDE DEF sub, k
  <2> QED
    BY <2>0, <2>2, <2>3 DEF sub
<1>5. Open # Star /\ Close[1] = ")"
  BY DEF Open, Close, Star
<1>6. s = <<c, y>>
  BY <1>2, <1>3, <1>4, <1>5 DEF DeclaratorStep
<1>7. s[1] = c /\ s[2] = y
  <2> HIDE DEF s
  <2> QED
    BY <1>6
<1>8. ReadDeclarator(read, c, ts) = ReadDeclarator(read, s[1], s[2])
  BY <1>2, ReadingOn
<1> QED
  BY <1>7, <1>8 DEF ts, yc

-----------------------------------------------------------------------------
(* The C text of a type: what leads to a name, then names or functions.    *)

\* What holds for a type if it holds for its target holds for every type.
LEMMA FromTheOldest ==
    ASSUME IInv, NEW S,
           \A a \in Canonical : (~IsNamed(a) => Target(a) \in Canonical /\ Target(a) \in S) => a \in S
    PROVE  Canonical \subseteq S
<1> DEFINE R == {n \in Nat : UpTo(n) \subseteq S}
<1>1. 0 \in R
  BY AllAddresses DEF IsNamed
<1>2. ASSUME NEW n \in Nat, n \in R PROVE n + 1 \in R
  <2> SUFFICES ASSUME NEW a \in UpTo(n + 1) PROVE a \in S
    OBVIOUS
  <2>1. ~IsNamed(a) => Target(a) \in UpTo(n)
    BY PartsAreOlder
  <2> QED
    BY <1>2, <2>1, AllAddresses
<1>3. Len(cache) \in R
  <2> HIDE DEF R
  <2> QED
    BY <1>1, <1>2, AllAddresses, Induction
<1> QED
  BY <1>3, AllAddresses

\* The parts of a type are types, and older.
LEMMA PartsOfType ==
    ASSUME IInv, NEW a \in Canonical, ~IsNamed(a)
    PROVE  /\ a \in Interned /\ Target(a) \in Canonical /\ ReturnType(a) = Target(a)
           /\ Target(a) \in Interned => Target(a) < a
           /\ Is(a, "array") => Size(a) \in Data
           /\ Is(a, "function") =>
                 /\ DOMAIN ParameterNames(a) = 1 .. Len(ParameterNames(a))
                 /\ ParameterNames(a) \in Seq(Parameters)
                 /\ \A i \in DOMAIN ParameterNames(a) :
                       /\ ParameterNames(a)[i] \in Parameters
                       /\ ParameterType(a, i) \in Canonical
                       /\ ParameterType(a, i) \in Interned => ParameterType(a, i) < a
<1>1. a \in Interned /\ a \in Nat /\ a - 1 \in Nat /\ (a - 1) + 1 = a /\ a >= 1
  BY AllAddresses DEF Canonical, IsNamed, Interned
<1>2. a \in UpTo((a - 1) + 1)
  BY <1>1 DEF UpTo
<1>3. \A b \in UpTo(a - 1) : b \in Canonical /\ (b \in Interned => b < a)
  <2>1. \A b \in UpTo(a - 1) : b \in Canonical
    BY <1>1, AllAddresses
  <2>2. \A b \in UpTo(a - 1) : b \in NamedTypes \/ b < a
    BY <1>1, AllAddresses DEF UpTo, Interned
  <2>3. \A b \in Interned : b \notin NamedTypes
    BY PoolAssumption DEF Interned
  <2> QED
    BY <2>1, <2>2, <2>3
<1>4. /\ Target(a) \in UpTo(a - 1) /\ ReturnType(a) = Target(a)
      /\ cache[a].data \in Seq(Data)
      /\ Is(a, "array") => Len(cache[a].data) = 1
  BY <1>1, <1>2, PartsAreOlder DEF Target, ReturnType
<1>5. Is(a, "array") => Size(a) \in Data
  BY <1>4 DEF Size
<1>6. Is(a, "function") =>
         /\ DOMAIN ParameterNames(a) = 1 .. Len(ParameterNames(a))
         /\ ParameterNames(a) \in Seq(Parameters)
         /\ \A i \in DOMAIN ParameterNames(a) :
               ParameterNames(a)[i] \in Parameters /\ ParameterType(a, i) \in UpTo(a - 1)
  BY <1>1, <1>2, PartsAreOlder
<1> QED
  BY <1>1, <1>3, <1>4, <1>5, <1>6

SizeTokens == {<<"size", n>> : n \in Data}
DeclaredParameters(a) ==
    [i \in DOMAIN ParameterNames(a) |->
        Declaration(ParameterType(a, i), ParameterNames(a)[i], FALSE)]
ParameterTokens == {<<"parameters", DeclaredParameters(a)>> : a \in Canonical}
Names == Parameters \union {"x"}
NameTokens == {<<"name", x>> : x \in Names}
Tokens ==
    {Star, Const, Open, Close} \union {<<"type", a>> : a \in NamedTypes}
        \union SizeTokens \union ParameterTokens \union NameTokens

\* A suffix begins with a size or with the parenthesis that ends a group.
IsCText(a) ==
    /\ Prefix(a) \in Seq(Tokens) /\ Prefix(a) # <<>> /\ Prefix(a)[1][1] = "type"
    /\ Suffix(a) \in Seq(Tokens)
    /\ Suffix(a) # <<>> => Suffix(a)[1] \in SizeTokens \union {Close}

\* Joined texts.
LEMMA Joined ==
    ASSUME NEW T, NEW s \in Seq(T), NEW t \in Seq(T)
    PROVE  /\ s \o t \in Seq(T) /\ Len(s \o t) = Len(s) + Len(t)
           /\ s # <<>> => s \o t # <<>> /\ (s \o t)[1] = s[1]
           /\ t # <<>> => s \o t # <<>> /\ (s \o t)[Len(s) + 1] = t[1]
           /\ s \o t = <<>> => s = <<>> /\ t = <<>>
           /\ \A i \in 1 .. Len(s) : (s \o t)[i] = s[i]
           /\ \A i \in 1 .. Len(t) : (s \o t)[Len(s) + i] = t[i]
<1> DEFINE st == s \o t
<1>1. st \in Seq(T) /\ Len(st) = Len(s) + Len(t) /\ Len(s) \in Nat /\ Len(t) \in Nat
  OBVIOUS
<1>2. /\ \A i \in 1 .. Len(s) : st[i] = s[i]
      /\ \A i \in 1 .. Len(t) : st[Len(s) + i] = t[i]
  OBVIOUS
<1>3. s # <<>> => Len(s) >= 1
  OBVIOUS
<1>4. t # <<>> => Len(t) >= 1
  OBVIOUS
<1>5. st = <<>> => Len(st) = 0
  OBVIOUS
<1> HIDE DEF st
<1>6. st = <<>> => s = <<>> /\ t = <<>>
  BY <1>1, <1>3, <1>4, <1>5
<1>7. s # <<>> => st # <<>> /\ st[1] = s[1]
  BY <1>1, <1>2, <1>3, <1>6
<1>8. t # <<>> => st # <<>> /\ st[Len(s) + 1] = t[1]
  BY <1>1, <1>2, <1>4, <1>6
<1> QED
  BY <1>1, <1>2, <1>6, <1>7, <1>8 DEF st

\* What StarOf prints are tokens.
LEMMA TokensOfStar ==
    ASSUME NEW a
    PROVE  StarOf(a) \in Seq(Tokens) /\ StarOf(a) # <<>>
<1>1. Star \in Tokens /\ Const \in Tokens
  BY DEF Tokens
<1>2. StarOf(a) = <<Const, Star>> \/ StarOf(a) = <<Star>>
  BY DEF StarOf
<1>3. <<Const, Star>> \in Seq(Tokens) /\ <<Const, Star>> # <<>>
  BY <1>1
<1>4. <<Star>> \in Seq(Tokens) /\ <<Star>> # <<>>
  BY <1>1
<1> QED
  BY <1>2, <1>3, <1>4

\* What is written for a type are tokens.
LEMMA CTexts ==
    ASSUME IInv, NEW a \in Canonical
    PROVE  IsCText(a)
<1> DEFINE S == {b \in Canonical : IsCText(b)}
<1>1. ASSUME NEW b \in Canonical, ~IsNamed(b) => Target(b) \in Canonical /\ Target(b) \in S
      PROVE  b \in S
  <2> SUFFICES IsCText(b)
    OBVIOUS
  <2> DEFINE t == Target(b)
  <2>1. CASE IsNamed(b)
    <3> DEFINE e == <<"type", b>>
    <3>1. Prefix(b) = <<e>> /\ Suffix(b) = <<>>
      BY <2>1, Affixes
    <3>2. e \in Tokens /\ e[1] = "type"
      BY <2>1 DEF IsNamed, Tokens
    <3> HIDE DEF e
    <3>3. <<e>> \in Seq(Tokens) /\ <<e>> # <<>> /\ <<e>>[1] = e /\ <<>> \in Seq(Tokens)
      BY <3>2
    <3> QED
      BY <3>1, <3>2, <3>3 DEF IsCText
  <2>2. CASE IsPointer(b)
    <3>1. Prefix(b) = Prefix(t) \o StarOf(b) /\ Suffix(b) = Suffix(t)
      BY <2>2, Affixes
    <3>2. IsCText(t)
      BY <1>1, <2>2, KindOfType
    <3> DEFINE star == StarOf(b)
    <3>3. star \in Seq(Tokens)
      BY TokensOfStar
    <3> HIDE DEF t, star
    <3>4. Prefix(t) \o star \in Seq(Tokens) /\ Prefix(t) \o star # <<>> /\ (Prefix(t) \o star)[1] = Prefix(t)[1]
      BY <3>2, <3>3, Joined DEF IsCText
    <3> QED
      BY <3>1, <3>2, <3>4 DEF IsCText, star
  <2>3. CASE Is(b, "array")
    <3> DEFINE e == <<"size", Size(b)>>
    <3>1. Prefix(b) = Prefix(t) /\ Suffix(b) = Suffix(t) \o <<e>>
      BY <2>3, Affixes
    <3>2. IsCText(t)
      BY <1>1, <2>3, KindOfType
    <3>3. e \in SizeTokens /\ e \in Tokens
      BY <2>3, KindOfType, PartsOfType DEF SizeTokens, Tokens
    <3> HIDE DEF e, t
    <3>4. <<e>> \in Seq(Tokens) /\ <<e>> # <<>> /\ <<e>>[1] = e
      BY <3>3
    <3>5. Suffix(b) \in Seq(Tokens) /\ Suffix(b) # <<>>
      BY <3>1, <3>2, <3>4, Joined DEF IsCText
    <3>6. CASE Suffix(t) = <<>>
      <4>1. Suffix(b) = <<e>>
        BY <3>1, <3>4, <3>6, EmptyText
      <4> QED
        BY <3>1, <3>2, <3>3, <3>4, <4>1 DEF IsCText
    <3>7. CASE Suffix(t) # <<>>
      <4>1. Suffix(b)[1] = Suffix(t)[1]
        BY <3>1, <3>2, <3>4, <3>7, Joined DEF IsCText
      <4> QED
        BY <3>1, <3>2, <3>5, <3>7, <4>1 DEF IsCText
    <3> QED
      BY <3>6, <3>7
  <2>4. CASE Is(b, "function")
    <3> DEFINE e == ParameterList(Written, b)
    <3>1. Prefix(b) = (Prefix(t) \o Suffix(t)) \o <<Open>> /\ Suffix(b) = <<Close, e>>
      BY <2>4, Affixes DEF Target, ReturnType
    <3>2. IsCText(t)
      BY <1>1, <2>4, KindOfType
    <3>3. e \in Tokens /\ Open \in Tokens /\ Close \in Tokens
      BY DEF Tokens, ParameterTokens, ParameterList, DeclaredParameters, Declaration
    <3> HIDE DEF e, t
    <3>4. Suffix(b) \in Seq(Tokens) /\ Suffix(b)[1] = Close
      BY <3>1, <3>3
    <3>5. /\ Prefix(t) \o Suffix(t) \in Seq(Tokens) /\ Prefix(t) \o Suffix(t) # <<>>
          /\ (Prefix(t) \o Suffix(t))[1][1] = "type"
      BY <3>2, Joined DEF IsCText
    <3> DEFINE pre == Prefix(t) \o Suffix(t)
    <3>6. <<Open>> \in Seq(Tokens)
      BY <3>3
    <3>7. Prefix(b) = pre \o <<Open>> /\ pre \in Seq(Tokens) /\ pre # <<>> /\ pre[1][1] = "type"
      BY <3>1, <3>5
    <3> HIDE DEF pre
    <3>8. Prefix(b) \in Seq(Tokens) /\ Prefix(b) # <<>> /\ Prefix(b)[1][1] = "type"
      BY <3>6, <3>7, Joined
    <3> QED
      BY <3>4, <3>8 DEF IsCText
  <2> QED
    BY <2>1, <2>2, <2>3, <2>4, KindOfType
<1>2. Canonical \subseteq S
  <2> HIDE DEF S
  <2> QED
    BY <1>1, FromTheOldest
<1> QED
  BY <1>2

IsCType(c) == c = [sizes |-> c.sizes, of |-> c.of] /\ c.sizes \in Seq(Data)
Pointed(a, c) == IF cache[a].id \in ConstPointers /\ ~IsFunction(Target(a)) THEN ConstOf(c) ELSE c
DeclaredIn(a) ==
    [i \in DOMAIN ParameterNames(a) |->
        <<"declared", ParameterNames(a)[i], InC[ParameterType(a, i)]>>]

\* What a type means in C, by its kind.
LEMMA MeaningByKind ==
    ASSUME IInv, NEW a \in Canonical
    PROVE  /\ IsNamed(a) => InC[a] = Named(a)
           /\ IsPointer(a) => InC[a] = PointerTo(Pointed(a, InC[Target(a)]))
           /\ Is(a, "array") => InC[a] = ArrayOf(Size(a), InC[Target(a)])
           /\ Is(a, "function") => InC[a] = FunctionOf(InC[Target(a)], DeclaredIn(a))
<1>1. InC[a] = Meaning(InC, a)
  BY InCEquation
<1>2. IsNamed(a) => Meaning(InC, a) = Named(a)
  BY KindOfType DEF Meaning
<1>3. IsPointer(a) => Meaning(InC, a) = PointerTo(Pointed(a, InC[Target(a)]))
  BY KindOfType DEF Meaning, Pointed
<1>4. Is(a, "array") => Meaning(InC, a) = ArrayOf(Size(a), InC[Target(a)])
  BY KindOfType DEF Meaning
<1>5. Is(a, "function") => Meaning(InC, a) = FunctionOf(InC[Target(a)], DeclaredIn(a))
  BY KindOfType DEF Meaning, DeclaredIn, Target, ReturnType
<1> QED
  BY <1>1, <1>2, <1>3, <1>4, <1>5

\* The types of C that are no arrays.
LEMMA SingleTypes ==
    ASSUME NEW c
    PROVE  /\ Single(c) = [sizes |-> Single(c).sizes, of |-> Single(c).of]
           /\ Single(c).sizes = <<>> /\ Single(c).of = c
           /\ IsCType(Single(c))
<1>1. Single(c) = [sizes |-> Single(c).sizes, of |-> Single(c).of]
      /\ Single(c).sizes = <<>> /\ Single(c).of = c
  BY DEF Single
<1>2. <<>> \in Seq(Data)
  OBVIOUS
<1> QED
  BY <1>1, <1>2 DEF IsCType

\* The meaning of a type is a type of C.
LEMMA MeaningsAreTypes ==
    ASSUME IInv, NEW a \in Canonical
    PROVE  IsCType(InC[a])
<1> DEFINE S == {b \in Canonical : IsCType(InC[b])}
<1>1. ASSUME NEW b \in Canonical, ~IsNamed(b) => Target(b) \in Canonical /\ Target(b) \in S
      PROVE  b \in S
  <2> SUFFICES IsCType(InC[b])
    OBVIOUS
  <2>1. CASE Is(b, "array")
    <3> DEFINE c == InC[Target(b)]
               n == Size(b)
               ns == <<n>> \o c.sizes
    <3>1. IsCType(c)
      BY <1>1, <2>1, KindOfType
    <3>2. InC[b] = [sizes |-> ns, of |-> c.of]
      BY <2>1, MeaningByKind DEF ArrayOf
    <3>3. n \in Data
      BY <2>1, KindOfType, PartsOfType
    <3> HIDE DEF n, c
    <3>4. ns \in Seq(Data)
      BY <3>1, <3>3, TokenInFront DEF IsCType
    <3> DEFINE o == c.of
    <3> HIDE DEF ns, o
    <3>5. InC[b].sizes = ns /\ InC[b].of = o
      BY <3>2 DEF o
    <3> QED
      BY <3>2, <3>4, <3>5 DEF IsCType, o
  <2>2. CASE ~Is(b, "array")
    <3>1. \E c : InC[b] = Single(c)
      BY <2>2, KindOfType, MeaningByKind DEF Named, PointerTo, FunctionOf
    <3> QED
      BY <3>1, SingleTypes
  <2> QED
    BY <2>1, <2>2
<1>2. Canonical \subseteq S
  <2> HIDE DEF S
  <2> QED
    BY <1>1, FromTheOldest
<1> QED
  BY <1>2

\* Which types are plain, arrays, or expressible, by their kind.
LEMMA ShapeByKind ==
    ASSUME IInv, NEW a \in Canonical
    PROVE  /\ IsNamed(a) => Shape[a] = "plain" /\ Expressible[a]
           /\ IsPointer(a) =>
                 /\ Shape[a] = IF Shape[Target(a)] = "plain" THEN "plain" ELSE "other"
                 /\ Expressible[a] <=> Expressible[Target(a)] /\ ~Is(Target(a), "array")
           /\ Is(a, "array") =>
                 /\ Shape[a] = IF Shape[Target(a)] = "other" THEN "other" ELSE "arrays"
                 /\ Expressible[a] <=> Shape[a] = "arrays" /\ InC[a].sizes = Reverse(InC[a].sizes)
           /\ Is(a, "function") =>
                 /\ Shape[a] = "other"
                 /\ Expressible[a] <=>
                       /\ Shape[Target(a)] = "plain"
                       /\ \A i \in DOMAIN ParameterNames(a) : Expressible[ParameterType(a, i)]
<1>1. Shape[a] = ShapeOf(Shape, a) /\ Expressible[a] = ExpressibleBy(Expressible, a)
  BY ShapeEquation, ExpressibleEquation
<1>2. CASE IsNamed(a)
  BY <1>1, <1>2, KindOfType DEF ShapeOf, ExpressibleBy
<1>3. CASE IsPointer(a)
  BY <1>1, <1>3, KindOfType DEF ShapeOf, ExpressibleBy
<1>4. CASE Is(a, "array")
  BY <1>1, <1>4, KindOfType DEF ShapeOf, ExpressibleBy
<1>5. CASE Is(a, "function")
  <2>1. Shape[a] = "other"
    BY <1>1, <1>5, KindOfType DEF ShapeOf
  <2>2. Expressible[a] = (/\ Shape[Target(a)] = "plain"
                          /\ \A i \in DOMAIN ParameterNames(a) : Expressible[ParameterType(a, i)])
    BY <1>1, <1>5, KindOfType DEF ExpressibleBy, Target, ReturnType
  <2> QED
    BY <1>5, <2>1, <2>2, KindOfType
<1> QED
  BY <1>2, <1>3, <1>4, <1>5, KindOfType

\* The star of a pointer, with its const, makes a pointer to what the pointer says.
LEMMA StarsAreRead ==
    ASSUME NEW read, NEW c, NEW a, NEW d \in Seq(Tokens)
    PROVE  LET e == StarOf(a) \o d
           IN  /\ e \in Seq(Tokens) /\ Unqualified(e) # <<>>
               /\ ReadDeclarator(read, Qualified(c, e), Unqualified(e))
                    = ReadDeclarator(read, Qualified(PointerTo(Pointed(a, c)), d), Unqualified(d))
<1> DEFINE sd == <<Star>> \o d
           e == StarOf(a) \o d
           p == PointerTo(Pointed(a, c))
<1>1. Star \in Tokens /\ Const \in Tokens /\ Star # Const
  BY DEF Tokens, Star, Const
<1>2. sd \in Seq(Tokens) /\ sd # <<>> /\ sd[1] = Star
  BY <1>1, TokenInFront
<1>3. e \in Seq(Tokens)
  BY TokensOfStar, Joined
<1>4. \A k : ReadDeclarator(read, k, sd) = ReadDeclarator(read, Qualified(PointerTo(k), d), Unqualified(d))
  BY <1>1, StarIsRead
<1> DEFINE IsReadOn == /\ Unqualified(e) # <<>>
                       /\ ReadDeclarator(read, Qualified(c, e), Unqualified(e))
                            = ReadDeclarator(read, Qualified(p, d), Unqualified(d))
<1>5. CASE cache[a].id \in ConstPointers /\ ~IsFunction(Target(a))
  <2> SUFFICES IsReadOn
    BY <1>3
  <2>1. StarOf(a) = <<Const, Star>> /\ Pointed(a, c) = ConstOf(c)
    BY <1>5 DEF StarOf, Pointed
  <2>2. <<Const, Star>> = <<Const>> \o <<Star>>
    OBVIOUS
  <2>3. <<Const>> \in Seq(Tokens) /\ <<Star>> \in Seq(Tokens)
    BY <1>1
  <2> DEFINE cc == <<Const>>
             ss == <<Star>>
  <2>4. (cc \o ss) \o d = cc \o (ss \o d)
    <3> HIDE DEF cc, ss
    <3> QED
      BY <2>3, Regrouped DEF cc, ss
  <2>5. e = <<Const>> \o sd
    BY <2>1, <2>2, <2>4
  <2> HIDE DEF sd, e
  <2>6. e # <<>> /\ e[1] = Const /\ Tail(e) = sd
    BY <1>1, <1>2, <2>5, TokenInFront
  <2>7. Qualified(c, e) = ConstOf(c) /\ Unqualified(e) = sd
    BY <2>6 DEF Qualified, Unqualified
  <2> QED
    BY <1>2, <1>4, <2>1, <2>7
<1>6. CASE ~(cache[a].id \in ConstPointers /\ ~IsFunction(Target(a)))
  <2> SUFFICES IsReadOn
    BY <1>3
  <2>1. e = sd /\ Pointed(a, c) = c
    BY <1>6 DEF StarOf, Pointed
  <2> HIDE DEF sd, e
  <2>2. Qualified(c, sd) = c /\ Unqualified(sd) = sd
    BY <1>1, <1>2 DEF Qualified, Unqualified
  <2> QED
    BY <1>2, <1>4, <2>1, <2>2
<1> QED
  BY <1>5, <1>6

\* The prefix of type a says that a declarator is one of type c.
Leads(read, a, c) ==
    \A d \in Seq(Tokens) : Unqualified(d) # <<>> =>
        ReadDeclaration(read, Prefix(a) \o d) = ReadDeclarator(read, Qualified(c, d), Unqualified(d))

\* A name leads to what it names.
LEMMA NameLeads ==
    ASSUME IInv, NEW read, NEW a \in Canonical, IsNamed(a)
    PROVE  Leads(read, a, Named(a))
<1> SUFFICES ASSUME NEW d \in Seq(Tokens), Unqualified(d) # <<>>
             PROVE  ReadDeclaration(read, Prefix(a) \o d)
                      = ReadDeclarator(read, Qualified(Named(a), d), Unqualified(d))
  BY DEF Leads
<1> DEFINE e == <<"type", a>>
           ts == <<e>> \o d
<1>1. Prefix(a) \o d = ts
  BY Affixes
<1>2. e[1] = "type" /\ e[2] = a /\ e \in Tokens
  BY DEF Tokens, IsNamed
<1> HIDE DEF e
<1>3. ts # <<>> /\ ts[1] = e /\ Tail(ts) = d
  BY <1>2, TokenInFront
<1> HIDE DEF ts
<1> QED
  BY <1>1, <1>2, <1>3 DEF ReadDeclaration

\* A pointer leads to a pointer to what its target leads to.
LEMMA PointerLeads ==
    ASSUME IInv, NEW read, NEW a \in Canonical, IsPointer(a), NEW c, Leads(read, Target(a), c)
    PROVE  Leads(read, a, PointerTo(Pointed(a, c)))
<1> SUFFICES ASSUME NEW d \in Seq(Tokens), Unqualified(d) # <<>>
             PROVE  ReadDeclaration(read, Prefix(a) \o d)
                      = ReadDeclarator(read, Qualified(PointerTo(Pointed(a, c)), d), Unqualified(d))
  BY DEF Leads
<1> DEFINE e == StarOf(a) \o d
           t == Target(a)
<1>1. t \in Canonical
  BY KindOfType, PartsOfType
<1>2. Prefix(a) \o d = Prefix(t) \o e
  <2>1. Prefix(a) = Prefix(t) \o StarOf(a)
    BY Affixes
  <2>2. Prefix(t) \in Seq(Tokens) /\ StarOf(a) \in Seq(Tokens)
    BY <1>1, CTexts, TokensOfStar DEF IsCText
  <2> QED
    BY <2>1, <2>2, Regrouped
<1>3. e \in Seq(Tokens) /\ Unqualified(e) # <<>>
  BY StarsAreRead
<1>4. ReadDeclaration(read, Prefix(t) \o e) = ReadDeclarator(read, Qualified(c, e), Unqualified(e))
  <2> HIDE DEF e, t
  <2> QED
    BY <1>3 DEF Leads, t
<1> QED
  BY <1>2, <1>4, StarsAreRead

\* The sizes that a suffix says.
SizesOf(ts) == [i \in 1 .. Len(ts) |-> ts[i][2]]

\* The sizes of a suffix with one more size.
LEMMA MoreSizes ==
    ASSUME NEW n \in Data, NEW ts \in Seq(SizeTokens)
    PROVE  SizesOf(ts \o << <<"size", n>> >>) = SizesOf(ts) \o <<n>>
<1> DEFINE e == <<"size", n>>
           more == ts \o <<e>>
<1>1. e \in SizeTokens /\ e[2] = n
  BY DEF SizeTokens
<1> HIDE DEF e
<1>2. /\ Len(more) = Len(ts) + 1 /\ Len(ts) \in Nat /\ more[Len(ts) + 1] = e
      /\ \A i \in 1 .. Len(ts) : more[i] = ts[i]
  BY <1>1, TokenBehind
<1> HIDE DEF more
<1>3. SizesOf(more) = SizesOf(ts) \o <<n>>
  BY <1>1, <1>2 DEF SizesOf
<1> QED
  BY <1>3 DEF more, e

\* The reverse of a sequence with one more element.
LEMMA MoreReversed ==
    ASSUME NEW T, NEW n \in T, NEW s \in Seq(T)
    PROVE  Reverse(<<n>> \o s) = Reverse(s) \o <<n>>
<1> DEFINE ns == <<n>> \o s
           k == Len(s)
<1>1. /\ Len(ns) = k + 1 /\ k \in Nat /\ ns[1] = n
      /\ \A i \in 1 .. k : ns[i + 1] = s[i]
  BY TokenInFront
<1> HIDE DEF ns
<1>2. Reverse(ns) = [i \in 1 .. k + 1 |-> ns[((k + 1) - i) + 1]]
  BY <1>1 DEF Reverse
<1>3. Reverse(s) = [i \in 1 .. k |-> s[(k - i) + 1]]
  BY DEF Reverse
<1>4. \A i \in 1 .. k : ns[((k + 1) - i) + 1] = s[(k - i) + 1]
  <2> SUFFICES ASSUME NEW i \in 1 .. k PROVE ns[((k + 1) - i) + 1] = s[(k - i) + 1]
    OBVIOUS
  <2> DEFINE j == (k - i) + 1
  <2>1. j \in 1 .. k /\ ((k + 1) - i) + 1 = j + 1
    BY <1>1
  <2> QED
    BY <1>1, <2>1
<1>5. ns[((k + 1) - (k + 1)) + 1] = n
  BY <1>1
<1> HIDE DEF k
<1>6. [i \in 1 .. k + 1 |-> ns[((k + 1) - i) + 1]] = [i \in 1 .. k |-> s[(k - i) + 1]] \o <<n>>
  BY <1>1, <1>4, <1>5
<1> QED
  BY <1>2, <1>3, <1>6 DEF ns

\* The reverse of the empty sequence, its sizes and its length.
LEMMA EmptyReversed == Reverse(<<>>) = <<>> /\ SizesOf(<<>>) = <<>> /\ Len(<<>>) = 0
BY DEF Reverse, SizesOf

\* The length of a sequence tells whether it is empty.
LEMMA EmptySequence ==
    ASSUME NEW T, NEW s \in Seq(T)
    PROVE  /\ Len(s) \in Nat
           /\ Len(s) <= 0 <=> s = <<>>
OBVIOUS

\* What prefix and suffix of a type over a name say, compared with what it means.
Fits(a, c) ==
    /\ c = Single(c.of) /\ c.of[1] # "function"
    /\ Suffix(a) \in Seq(SizeTokens) /\ Len(InC[a].sizes) <= Len(Suffix(a))
    /\ Shape[a] \in {"plain", "arrays", "other"}
    /\ Shape[a] = "plain" <=> Suffix(a) = <<>>
    /\ Shape[a] = "arrays" <=> Is(a, "array") /\ Shape[a] # "other"
    /\ Shape[a] # "other" =>
          /\ c.of = InC[a].of /\ SizesOf(Suffix(a)) = Reverse(InC[a].sizes)
          /\ Expressible[a] <=> InC[a].sizes = Reverse(InC[a].sizes)
    /\ Shape[a] = "other" => ~Expressible[a] /\ Len(InC[a].sizes) < Len(Suffix(a))

\* A name fits what it names.
LEMMA NameFits ==
    ASSUME IInv, NEW a \in Canonical, IsNamed(a)
    PROVE  Fits(a, Named(a))
<1> DEFINE c == Named(a)
           o == <<"named", a>>
<1>1. c = Single(o) /\ o[1] = "named"
  BY DEF Named
<1> HIDE DEF o
<1>2. c = Single(c.of) /\ c.of = o /\ c.sizes = <<>>
  BY <1>1, SingleTypes
<1>3. Suffix(a) = <<>> /\ InC[a] = c
  BY Affixes, MeaningByKind
<1>4. Shape[a] = "plain" /\ Expressible[a] /\ ~Is(a, "array")
  BY KindOfType, ShapeByKind
<1>5. <<>> \in Seq(SizeTokens)
  OBVIOUS
<1> HIDE DEF c
<1>6. c.of[1] # "function"
  BY <1>1, <1>2
<1>7. InC[a].sizes = <<>>
  BY <1>2, <1>3
<1>8. c.of = InC[a].of
  BY <1>3
<1>9. Fits(a, c)
  BY <1>2, <1>3, <1>4, <1>5, <1>6, <1>7, <1>8, EmptyReversed DEF Fits
<1> QED
  BY <1>9 DEF c

\* A plain type is read as what it means.
LEMMA PlainFits ==
    ASSUME IInv, NEW a \in Canonical, NEW c, Fits(a, c), Shape[a] = "plain"
    PROVE  c = InC[a] /\ InC[a].sizes = <<>> /\ InC[a].of[1] # "function"
<1>1. Suffix(a) = <<>> /\ Len(InC[a].sizes) <= Len(Suffix(a)) /\ c.of = InC[a].of
  BY DEF Fits
<1>2. IsCType(InC[a])
  BY MeaningsAreTypes
<1>3. InC[a].sizes = <<>>
  BY <1>1, <1>2, EmptySequence, EmptyReversed DEF IsCType
<1>4. c = Single(c.of) /\ c.of[1] # "function"
  BY DEF Fits
<1>5. InC[a] = Single(InC[a].of)
  BY <1>2, <1>3 DEF IsCType, Single
<1> QED
  BY <1>1, <1>3, <1>4, <1>5

\* The text of a pointer, if its target lies over a name.
LEMMA PointerFits ==
    ASSUME IInv, NEW a \in Canonical, IsPointer(a), NEW c, Fits(Target(a), c)
    PROVE  Fits(a, PointerTo(Pointed(a, c)))
<1> DEFINE t == Target(a)
           p == PointerTo(Pointed(a, c))
           o == <<"pointer", Pointed(a, c)>>
<1>1. t \in Canonical /\ Suffix(a) = Suffix(t) /\ ~Is(a, "array")
  BY KindOfType, PartsOfType, Affixes
<1>2. p = Single(o) /\ o[1] = "pointer"
  BY DEF PointerTo
<1>3. p = Single(p.of) /\ p.of = o /\ p.sizes = <<>>
  <2> HIDE DEF o
  <2> QED
    BY <1>2, SingleTypes
<1>4. InC[a] = PointerTo(Pointed(a, InC[t]))
  BY MeaningByKind
<1>5. InC[a].sizes = <<>>
  BY <1>4, SingleTypes DEF PointerTo
<1>6. Suffix(t) \in Seq(SizeTokens) /\ Len(Suffix(t)) \in Nat
  BY EmptySequence DEF Fits
<1>7. Shape[a] = IF Shape[t] = "plain" THEN "plain" ELSE "other"
  BY ShapeByKind
<1>8. Expressible[a] <=> Expressible[t] /\ ~Is(t, "array")
  BY ShapeByKind
<1>9. p.of[1] # "function"
  <2> HIDE DEF p, o
  <2> QED
    BY <1>2, <1>3
<1>10. CASE Shape[t] = "plain"
  <2>1. c = InC[t] /\ InC[t].sizes = <<>>
    BY <1>1, <1>10, PlainFits
  <2>2. p = InC[a]
    BY <1>4, <2>1
  <2>3. Suffix(a) = <<>> /\ Expressible[t] /\ ~Is(t, "array")
    BY <1>1, <1>10, <2>1, EmptyReversed DEF Fits
  <2> HIDE DEF p, t, o
  <2>4. p.of = InC[a].of
    BY <2>2
  <2> QED
    <3>1. Shape[a] = "plain" /\ Expressible[a] /\ Len(Suffix(a)) = 0 /\ Suffix(a) \in Seq(SizeTokens)
      BY <1>1, <1>6, <1>7, <1>8, <1>10, <2>3, EmptyReversed DEF t
    <3>2. SizesOf(Suffix(a)) = Reverse(InC[a].sizes) /\ InC[a].sizes = Reverse(InC[a].sizes)
      BY <1>5, <2>3, EmptyReversed
    <3>3. Len(InC[a].sizes) = 0
      BY <1>5, EmptyReversed
    <3>4. Fits(a, p)
      BY <1>1, <1>3, <1>9, <2>3, <2>4, <3>1, <3>2, <3>3 DEF Fits
    <3> QED
      BY <3>4 DEF p
<1>11. CASE Shape[t] # "plain"
  <2>1. Suffix(t) # <<>> /\ Len(Suffix(t)) > 0
    BY <1>6, <1>11, EmptySequence DEF Fits
  <2>2. ~(Expressible[t] /\ ~Is(t, "array"))
    BY <1>11 DEF Fits
  <2> HIDE DEF p, t, o
  <2> QED
    <3>1. Shape[a] = "other" /\ ~Expressible[a] /\ Suffix(a) \in Seq(SizeTokens) /\ Suffix(a) # <<>>
      BY <1>1, <1>6, <1>7, <1>8, <1>11, <2>1, <2>2 DEF t
    <3>2. Len(InC[a].sizes) < Len(Suffix(a)) /\ Len(InC[a].sizes) <= Len(Suffix(a))
      BY <1>1, <1>5, <1>6, <2>1, EmptyReversed
    <3>3. Fits(a, p)
      BY <1>1, <1>3, <1>9, <3>1, <3>2 DEF Fits
    <3> QED
      BY <3>3 DEF p
<1> QED
  BY <1>10, <1>11

\* The text of an array, if its target lies over a name.
LEMMA ArrayFits ==
    ASSUME IInv, NEW a \in Canonical, Is(a, "array"), NEW c, Fits(Target(a), c)
    PROVE  Fits(a, c)
<1> DEFINE t == Target(a)
           n == Size(a)
           e == <<"size", n>>
           szs == InC[t].sizes
           of == InC[t].of
<1>1. t \in Canonical /\ Suffix(a) = Suffix(t) \o <<e>> /\ n \in Data /\ e \in SizeTokens
  BY KindOfType, PartsOfType, Affixes DEF SizeTokens
<1>2. InC[a] = [sizes |-> <<n>> \o szs, of |-> of]
  BY MeaningByKind DEF ArrayOf
<1>3. szs \in Seq(Data)
  BY <1>1, MeaningsAreTypes DEF IsCType
<1>4. Suffix(t) \in Seq(SizeTokens)
  BY DEF Fits
<1>5. Shape[a] = IF Shape[t] = "other" THEN "other" ELSE "arrays"
  BY ShapeByKind
<1>6. Expressible[a] <=> Shape[a] = "arrays" /\ InC[a].sizes = Reverse(InC[a].sizes)
  BY ShapeByKind
<1> HIDE DEF t, n
<1>7. SizesOf(Suffix(a)) = SizesOf(Suffix(t)) \o <<n>>
  BY <1>1, <1>4, MoreSizes
<1> HIDE DEF e
<1>8. Suffix(a) \in Seq(SizeTokens) /\ Suffix(a) # <<>> /\ Len(Suffix(a)) = Len(Suffix(t)) + 1
  BY <1>1, <1>4, TokenBehind
<1> HIDE DEF szs, of
<1> DEFINE more == <<n>> \o szs
<1>9. Len(more) = Len(szs) + 1 /\ Reverse(more) = Reverse(szs) \o <<n>>
  BY <1>1, <1>3, TokenInFront, MoreReversed
<1> HIDE DEF more
<1>10. InC[a].sizes = more /\ InC[a].of = of
  BY <1>2 DEF more
<1>11. Len(szs) \in Nat /\ Len(Suffix(t)) \in Nat
  BY <1>3, <1>4, EmptySequence
<1>12. /\ c = Single(c.of) /\ c.of[1] # "function"
       /\ Len(szs) <= Len(Suffix(t))
       /\ Shape[t] # "other" => c.of = of /\ SizesOf(Suffix(t)) = Reverse(szs)
       /\ Shape[t] = "other" => Len(szs) < Len(Suffix(t))
  BY DEF Fits, szs, of, t
<1>13. Len(InC[a].sizes) <= Len(Suffix(a)) /\ (Shape[t] = "other" => Len(InC[a].sizes) < Len(Suffix(a)))
  BY <1>8, <1>9, <1>10, <1>11, <1>12
<1>14. Shape[t] # "other" => c.of = InC[a].of /\ SizesOf(Suffix(a)) = Reverse(InC[a].sizes)
  BY <1>7, <1>9, <1>10, <1>12
<1> QED
  BY <1>5, <1>6, <1>8, <1>12, <1>13, <1>14 DEF Fits

\* A text is what stands before its last token, and that token.
LEMMA FrontAndLast ==
    ASSUME NEW T, NEW ts \in Seq(T), ts # <<>>
    PROVE  ts[Len(ts)] \in T /\ ts = Front(ts) \o <<ts[Len(ts)]>>
<1> DEFINE e == ts[Len(ts)]
           f == Front(ts)
           m == Len(ts)
<1>1. /\ m \in Nat \ {0} /\ f \in Seq(T) /\ Len(f) = m - 1
      /\ \A i \in 1 .. m - 1 : f[i] = ts[i]
  BY ShorterByOne
<1>2. m \in 1 .. m /\ e \in T
  <2>1. m \in 1 .. m
    BY <1>1
  <2> QED
    BY <2>1, ElementsOf
<1> HIDE DEF e, f
<1> DEFINE fe == f \o <<e>>
<1>3. /\ fe \in Seq(T) /\ Len(fe) = (m - 1) + 1 /\ fe[(m - 1) + 1] = e
      /\ \A i \in 1 .. m - 1 : fe[i] = f[i]
  BY <1>1, <1>2, TokenBehind
<1> HIDE DEF fe
<1>4. Len(fe) = m /\ \A i \in 1 .. m : fe[i] = ts[i]
  <2>1. (m - 1) + 1 = m /\ \A i \in 1 .. m : i = m \/ i \in 1 .. m - 1
    BY <1>1
  <2> HIDE DEF m
  <2> QED
    BY <1>1, <1>3, <2>1 DEF e, m
<1>5. fe = [i \in 1 .. m |-> fe[i]] /\ ts = [i \in 1 .. m |-> ts[i]]
  BY <1>3, <1>4
<1>6. ts = fe
  <2> HIDE DEF m
  <2> QED
    BY <1>4, <1>5
<1> QED
  BY <1>2, <1>6 DEF e, f, fe

Sized(s, o) == [sizes |-> s, of |-> o]

\* The sizes behind a declarator are read from the last one to the first one.
LEMMA SizesAreRead ==
    ASSUME NEW read, NEW o, o[1] # "function", NEW x \in Seq(Tokens), x # <<>>, x[1] # Star,
           NEW sizes \in Seq(SizeTokens)
    PROVE  ReadDeclarator(read, Sized(<<>>, o), x \o sizes) = ReadDeclarator(read, Sized(SizesOf(sizes), o), x)
<1> DEFINE Reads(ts) == \A s \in Seq(Data) :
                           ReadDeclarator(read, Sized(s, o), x \o ts)
                             = ReadDeclarator(read, Sized(SizesOf(ts) \o s, o), x)
           S == {k \in Nat : \A ts \in Seq(SizeTokens) : Len(ts) = k => Reads(ts)}
<1>1. 0 \in S
  <2> SUFFICES ASSUME NEW ts \in Seq(SizeTokens), Len(ts) = 0, NEW s \in Seq(Data)
               PROVE  ReadDeclarator(read, Sized(s, o), x \o ts)
                        = ReadDeclarator(read, Sized(SizesOf(ts) \o s, o), x)
    OBVIOUS
  <2>1. ts = <<>>
    BY EmptySequence
  <2>2. x \o <<>> = x /\ <<>> \o s = s
    BY EmptyText
  <2> QED
    BY <2>1, <2>2, EmptyReversed
<1>2. ASSUME NEW k \in Nat, k \in S PROVE k + 1 \in S
  <2> SUFFICES ASSUME NEW ts \in Seq(SizeTokens), Len(ts) = k + 1, NEW s \in Seq(Data)
               PROVE  ReadDeclarator(read, Sized(s, o), x \o ts)
                        = ReadDeclarator(read, Sized(SizesOf(ts) \o s, o), x)
    OBVIOUS
  <2> DEFINE e == ts[Len(ts)]
             f == Front(ts)
             xf == x \o f
  <2>1. ts # <<>>
    BY EmptyReversed
  <2>2. f \in Seq(SizeTokens) /\ Len(f) = k /\ e \in SizeTokens /\ ts = f \o <<e>>
    <3>1. f \in Seq(SizeTokens) /\ Len(f) = (k + 1) - 1
      BY <2>1, ShorterByOne
    <3>2. e \in SizeTokens /\ ts = f \o <<e>>
      BY <2>1, FrontAndLast
    <3> QED
      BY <3>1, <3>2
  <2> HIDE DEF e, f
  <2>3. PICK n \in Data : e = <<"size", n>>
    BY <2>2 DEF SizeTokens
  <2>4. SizeTokens \subseteq Tokens
    BY DEF Tokens
  <2>5. f \in Seq(Tokens) /\ <<e>> \in Seq(Tokens) /\ e \in Tokens
    BY <2>2, <2>4
  <2>6. x \o ts = xf \o <<e>>
    BY <2>2, <2>5, Regrouped
  <2>7. xf \in Seq(Tokens) /\ xf # <<>> /\ xf[1] # Star
    BY <2>5, Joined
  <2> HIDE DEF xf
  <2> DEFINE c == Sized(s, o)
             ns == <<n>> \o s
  <2>8. c.of = o /\ c.sizes = s
    BY DEF Sized
  <2>9. ArrayOf(n, c) = Sized(ns, o)
    BY <2>8 DEF ArrayOf, Sized
  <2>10. ns \in Seq(Data)
    BY TokenInFront
  <2> HIDE DEF c, ns
  <2>11. ReadDeclarator(read, c, xf \o <<e>>) = ReadDeclarator(read, Sized(ns, o), xf)
    BY <2>3, <2>5, <2>7, <2>8, <2>9, SizeIsRead
  <2>12. ReadDeclarator(read, Sized(ns, o), xf) = ReadDeclarator(read, Sized(SizesOf(f) \o ns, o), x)
    BY <1>2, <2>2, <2>10 DEF xf
  <2>13. SizesOf(f) \o ns = SizesOf(ts) \o s
    <3>1. SizesOf(ts) = SizesOf(f) \o <<n>>
      BY <2>2, <2>3, MoreSizes
    <3>2. SizesOf(f) \in Seq(Data)
      <4>1. \A i \in 1 .. Len(f) : f[i] \in SizeTokens
        BY <2>2, ElementsOf
      <4>2. \A i \in 1 .. Len(f) : f[i][2] \in Data
        BY <4>1 DEF SizeTokens
      <4> QED
        BY <2>2, <4>2 DEF SizesOf
    <3> DEFINE g == SizesOf(f)
               nn == <<n>>
    <3>3. nn \in Seq(Data)
      OBVIOUS
    <3>4. (g \o nn) \o s = g \o (nn \o s)
      <4> HIDE DEF g, nn
      <4> QED
        BY <3>2, <3>3, Regrouped DEF g
    <3> QED
      BY <3>1, <3>4 DEF ns
  <2> QED
    BY <2>6, <2>11, <2>12, <2>13 DEF c
<1>3. Len(sizes) \in S
  <2>1. Len(sizes) \in Nat
    BY EmptySequence
  <2> HIDE DEF S
  <2> QED
    BY <1>1, <1>2, <2>1, Induction
<1>4. <<>> \in Seq(Data)
  OBVIOUS
<1>5. ReadDeclarator(read, Sized(<<>>, o), x \o sizes)
        = ReadDeclarator(read, Sized(SizesOf(sizes) \o <<>>, o), x)
  BY <1>3, <1>4
<1>6. SizesOf(sizes) \o <<>> = SizesOf(sizes)
  <2>1. SizesOf(sizes) \in Seq({sizes[i][2] : i \in 1 .. Len(sizes)})
    BY EmptySequence DEF SizesOf
  <2> QED
    BY <2>1, EmptyText
<1> QED
  BY <1>5, <1>6

Between(constant, ts) == IF constant THEN <<Const>> \o ts ELSE ts

\* A const in front of a name.
LEMMA ConstInFront ==
    ASSUME NEW c, NEW constant \in BOOLEAN, NEW ts \in Seq(Tokens), ts # <<>>, ts[1] # Const
    PROVE  LET d == Between(constant, ts)
           IN  /\ d \in Seq(Tokens) /\ Unqualified(d) = ts
               /\ Qualified(c, d) = IF constant THEN ConstOf(c) ELSE c
<1>1. CASE constant
  <2> DEFINE d == <<Const>> \o ts
  <2>1. Const \in Tokens
    BY DEF Tokens
  <2>2. d \in Seq(Tokens) /\ d # <<>> /\ d[1] = Const /\ Tail(d) = ts
    BY <2>1, TokenInFront
  <2> HIDE DEF d
  <2>3. Unqualified(d) = ts /\ Qualified(c, d) = ConstOf(c)
    BY <2>2 DEF Unqualified, Qualified
  <2> QED
    BY <1>1, <2>2, <2>3 DEF Between, d
<1>2. CASE ~constant
  BY <1>2 DEF Between, Unqualified, Qualified
<1> QED
  BY <1>1, <1>2

\* What is written for a declaration, around its name.
LEMMA DeclarationText ==
    ASSUME IInv, NEW a \in Canonical, NEW x \in Names, NEW constant \in BOOLEAN
    PROVE  /\ <<"name", x>> \in Tokens
           /\ Declaration(a, x, constant)
                = Prefix(a) \o Between(constant, << <<"name", x>> >> \o Suffix(a))
<1> DEFINE e == <<"name", x>>
           p == Prefix(a)
           s == Suffix(a)
           k == IF constant THEN <<Const>> ELSE <<>>
           n == <<e>>
<1>1. e \in Tokens /\ Const \in Tokens
  BY DEF Tokens, NameTokens, Names
<1> HIDE DEF e
<1>2. p \in Seq(Tokens) /\ s \in Seq(Tokens) /\ k \in Seq(Tokens) /\ n \in Seq(Tokens)
  BY <1>1, CTexts DEF IsCText
<1>3. Declaration(a, x, constant) = ((p \o k) \o n) \o s
  BY DEF Declaration, Declared, Prefix, Suffix, e
<1>4. Between(constant, n \o s) = k \o (n \o s)
  <2>1. n \o s \in Seq(Tokens)
    BY <1>2, Joined
  <2> QED
    BY <2>1, EmptyText DEF Between
<1> HIDE DEF p, s, k, n
<1>5. ((p \o k) \o n) \o s = p \o (k \o (n \o s))
  <2> DEFINE pk == p \o k
             ns == n \o s
  <2>1. pk \in Seq(Tokens) /\ ns \in Seq(Tokens)
    BY <1>2, Joined
  <2>2. pk \o ns = p \o (k \o ns)
    <3> HIDE DEF ns
    <3> QED
      BY <1>2, <2>1, Regrouped
  <2>3. (pk \o n) \o s = pk \o ns
    <3>1. pk \in Seq(Tokens)
      BY <2>1
    <3> HIDE DEF pk
    <3>2. n \in Seq(Tokens) /\ s \in Seq(Tokens)
      BY <1>2
    <3> QED
      BY <3>1, <3>2, Regrouped
  <2> QED
    BY <2>2, <2>3
<1> QED
  BY <1>1, <1>3, <1>4, <1>5 DEF e, n, p, s

Meant(a, constant) == IF constant THEN ConstOf(InC[a]) ELSE InC[a]
IsReadRight(read, a, x, constant) ==
    ReadDeclaration(read, Declaration(a, x, constant)) = <<"declared", x, Meant(a, constant)>>

\* A declaration of a type over a name is read with all the sizes of its suffix.
LEMMA OverNameIsRead ==
    ASSUME IInv, NEW read, NEW a \in Canonical, NEW c, Leads(read, a, c), Fits(a, c),
           NEW x \in Names, NEW constant \in BOOLEAN
    PROVE  IsReadRight(read, a, x, constant) <=> Expressible[a]
<1> DEFINE e == <<"name", x>>
           ts == <<e>> \o Suffix(a)
           d == Between(constant, ts)
           k == IF constant THEN ConstOf(c) ELSE c
           o == IF constant THEN <<"const", c.of>> ELSE c.of
           s == SizesOf(Suffix(a))
           m == IF constant THEN <<"const", InC[a].of>> ELSE InC[a].of
<1>1. e \in Tokens /\ Declaration(a, x, constant) = Prefix(a) \o d
  BY DeclarationText
<1>2. Suffix(a) \in Seq(SizeTokens) /\ Suffix(a) \in Seq(Tokens)
  BY CTexts DEF Fits, IsCText
<1>3. e # Const /\ e # Star
  BY DEF Const, Star
<1> HIDE DEF e
<1>4. ts \in Seq(Tokens) /\ ts # <<>> /\ ts[1] = e
  BY <1>1, <1>2, TokenInFront
<1>5. d \in Seq(Tokens) /\ Unqualified(d) = ts /\ Qualified(c, d) = k
  <2> HIDE DEF ts
  <2> QED
    BY <1>3, <1>4, ConstInFront
<1>6. ReadDeclaration(read, Prefix(a) \o d) = ReadDeclarator(read, k, ts)
  <2> HIDE DEF d, k, ts
  <2> QED
    BY <1>4, <1>5 DEF Leads
<1>7. k = Sized(<<>>, o) /\ o[1] # "function"
  <2>1. c = Single(c.of) /\ c.of[1] # "function"
    BY DEF Fits
  <2>2. c.sizes = <<>>
    BY <2>1, SingleTypes
  <2>3. CASE constant
    BY <2>2, <2>3 DEF ConstOf, Sized
  <2>4. CASE ~constant
    BY <2>1, <2>4 DEF Single, Sized
  <2> QED
    BY <2>3, <2>4
<1>8. ReadDeclarator(read, Sized(<<>>, o), ts) = ReadDeclarator(read, Sized(s, o), <<e>>)
  <2>1. <<e>> \in Seq(Tokens) /\ <<e>> # <<>> /\ <<e>>[1] # Star
    BY <1>1, <1>3
  <2> DEFINE ee == <<e>>
  <2>2. ee \in Seq(Tokens) /\ ee # <<>> /\ ee[1] # Star
    BY <2>1
  <2> HIDE DEF ee, o
  <2>3. ReadDeclarator(read, Sized(<<>>, o), ee \o Suffix(a)) = ReadDeclarator(read, Sized(s, o), ee)
    BY <1>2, <1>7, <2>2, SizesAreRead
  <2> QED
    BY <2>3 DEF ee
<1>9. ReadDeclarator(read, Sized(s, o), <<e>>) = <<"declared", x, Sized(s, o)>>
  BY NameIsRead DEF e
<1>10. ReadDeclaration(read, Declaration(a, x, constant)) = <<"declared", x, Sized(s, o)>>
  <2> HIDE DEF d, k, ts, o, s
  <2> QED
    BY <1>1, <1>6, <1>7, <1>8, <1>9
<1>11. IsCType(InC[a])
  BY MeaningsAreTypes
<1>12. Meant(a, constant) = Sized(InC[a].sizes, m)
  BY <1>11 DEF Meant, IsCType, Sized, ConstOf
<1>13. IsReadRight(read, a, x, constant) <=> s = InC[a].sizes /\ o = m
  <2> DEFINE t == InC[a].sizes
  <2> HIDE DEF s, o, t, m
  <2>1. Sized(s, o) = Sized(t, m) <=> s = t /\ o = m
    <3>1. Sized(s, o).sizes = s /\ Sized(s, o).of = o /\ Sized(t, m).sizes = t /\ Sized(t, m).of = m
      BY DEF Sized
    <3> QED
      BY <3>1
  <2> DEFINE u == Sized(s, o)
             v == Meant(a, constant)
  <2>2. <<"declared", x, u>> = <<"declared", x, v>> <=> u = v
    <3> HIDE DEF u, v
    <3> QED
      OBVIOUS
  <2>3. IsReadRight(read, a, x, constant) <=> u = v
    BY <1>10, <2>2 DEF IsReadRight
  <2> QED
    BY <1>12, <2>1, <2>3 DEF t
<1>14. CASE Shape[a] # "other"
  <2>1. c.of = InC[a].of /\ s = Reverse(InC[a].sizes) /\ (Expressible[a] <=> InC[a].sizes = Reverse(InC[a].sizes))
    BY <1>14 DEF Fits
  <2>2. o = m
    BY <2>1
  <2> HIDE DEF s, o, m
  <2> QED
    BY <1>13, <2>1, <2>2
<1>15. CASE Shape[a] = "other"
  <2>1. ~Expressible[a] /\ Len(InC[a].sizes) < Len(Suffix(a))
    BY <1>15 DEF Fits
  <2>2. Len(s) = Len(Suffix(a)) /\ Len(Suffix(a)) \in Nat /\ Len(InC[a].sizes) \in Nat
    BY <1>2, <1>11, EmptySequence DEF SizesOf, IsCType
  <2>3. s # InC[a].sizes
    <3> HIDE DEF s
    <3> QED
      BY <2>1, <2>2
  <2> HIDE DEF s, o, m
  <2> QED
    BY <1>13, <2>1, <2>3
<1> QED
  BY <1>14, <1>15

\* Types with a const differ as the types do.
LEMMA ConstTypes ==
    ASSUME NEW c, NEW d, IsCType(c), IsCType(d)
    PROVE  ConstOf(c) = ConstOf(d) <=> c = d
<1>1. ASSUME ConstOf(c) = ConstOf(d) PROVE c = d
  <2>1. /\ ConstOf(c).sizes = c.sizes /\ ConstOf(c).of = <<"const", c.of>>
        /\ ConstOf(d).sizes = d.sizes /\ ConstOf(d).of = <<"const", d.of>>
    BY DEF ConstOf
  <2>2. c.sizes = d.sizes /\ <<"const", c.of>> = <<"const", d.of>>
    BY <1>1, <2>1
  <2> DEFINE o == c.of
             p == d.of
  <2>3. o = p
    <3> HIDE DEF o, p
    <3>1. <<"const", o>> = <<"const", p>>
      BY <2>2 DEF o, p
    <3> QED
      BY <3>1
  <2> QED
    BY <2>2, <2>3 DEF IsCType
<1> QED
  BY <1>1

\* Pointers differ as what they point to does.
LEMMA PointerTypes ==
    ASSUME NEW c, NEW d
    PROVE  PointerTo(c) = PointerTo(d) <=> c = d
<1>1. PointerTo(c).of = <<"pointer", c>> /\ PointerTo(d).of = <<"pointer", d>>
  BY SingleTypes DEF PointerTo
<1>2. <<"pointer", c>> = <<"pointer", d>> => c = d
  OBVIOUS
<1> QED
  BY <1>1, <1>2

\* The stars of a are read as what a means for exactly what z means.
PointsTo(read, a, z, stars) ==
    \A f : \E c :
        /\ c = Single(c.of) /\ (c = InC[a] <=> f = InC[z])
        /\ \A d \in Seq(Tokens) :
              ReadDeclarator(read, f, stars \o d) = ReadDeclarator(read, Qualified(c, d), Unqualified(d))

\* A type over a function: what is written around the function z.
Around(read, a, z, stars, sizes) ==
    /\ Prefix(a) = Prefix(z) \o stars /\ Suffix(a) = Suffix(z) \o sizes
    /\ Shape[a] = "other"
    /\ Expressible[a] <=> sizes = <<>> /\ Expressible[z]
    /\ sizes = <<>> => (a = z /\ stars = <<>>) \/ (IsPointer(a) /\ PointsTo(read, a, z, stars))

OverFunction(read, a) ==
    \E z \in Interned, stars \in Seq(Tokens), sizes \in Seq(SizeTokens) :
        Is(z, "function") /\ z <= a /\ Around(read, a, z, stars, sizes)

\* A function lies over itself.
LEMMA FunctionIsAround ==
    ASSUME IInv, NEW read, NEW a \in Canonical, Is(a, "function")
    PROVE  OverFunction(read, a)
<1>1. a \in Interned /\ a <= a
  BY KindOfType DEF Interned, Is
<1>2. <<>> \in Seq(Tokens) /\ <<>> \in Seq(SizeTokens)
  OBVIOUS
<1>3. Prefix(a) \in Seq(Tokens) /\ Suffix(a) \in Seq(Tokens)
  BY CTexts DEF IsCText
<1>4. Prefix(a) = Prefix(a) \o <<>> /\ Suffix(a) = Suffix(a) \o <<>>
  BY <1>3, EmptyText
<1>5. Shape[a] = "other"
  BY ShapeByKind
<1>6. Around(read, a, a, <<>>, <<>>)
  BY <1>4, <1>5 DEF Around
<1> QED
  BY <1>1, <1>2, <1>6 DEF OverFunction

\* A pointer to a type over a function lies over that function.
LEMMA PointerIsAround ==
    ASSUME IInv, NEW read, NEW a \in Canonical, IsPointer(a), OverFunction(read, Target(a))
    PROVE  OverFunction(read, a)
<1> DEFINE t == Target(a)
           star == StarOf(a)
<1>1. /\ a \in Interned /\ t \in Canonical /\ (t \in Interned => t < a)
      /\ Prefix(a) = Prefix(t) \o star /\ Suffix(a) = Suffix(t)
  BY KindOfType, PartsOfType, Affixes
<1>2. PICK z \in Interned, stars \in Seq(Tokens), sizes \in Seq(SizeTokens) :
         Is(z, "function") /\ z <= t /\ Around(read, t, z, stars, sizes)
  BY DEF OverFunction
<1>3. ~IsNamed(t) /\ t \in Interned /\ z \in Canonical
  <2>1. Shape[t] = "other"
    BY <1>2 DEF Around
  <2>2. ~IsNamed(t)
    BY <1>1, <2>1, ShapeByKind
  <2> QED
    BY <1>1, <2>2, KindOfType DEF Canonical
<1>4. z <= a
  <2>1. Len(cache) \in Nat
    BY AllAddresses
  <2> HIDE DEF t
  <2> QED
    BY <1>1, <1>2, <1>3, <2>1 DEF Interned
<1>5. star \in Seq(Tokens) /\ Prefix(z) \in Seq(Tokens)
  BY <1>3, TokensOfStar, CTexts DEF IsCText
<1> DEFINE more == stars \o star
<1>6. more \in Seq(Tokens) /\ Prefix(a) = Prefix(z) \o more
  <2>1. Prefix(t) = Prefix(z) \o stars
    BY <1>2 DEF Around
  <2> HIDE DEF star, t
  <2> QED
    BY <1>1, <1>5, <2>1, Joined, Regrouped
<1>7. Suffix(a) = Suffix(z) \o sizes
  BY <1>1, <1>2 DEF Around
<1>8. Shape[a] = "other"
  BY <1>2, ShapeByKind DEF Around
<1>9. Expressible[a] <=> Expressible[t] /\ ~Is(t, "array")
  BY ShapeByKind
<1>10. InC[a] = PointerTo(Pointed(a, InC[t]))
  BY MeaningByKind
<1>11. CASE sizes # <<>>
  <2>1. ~Expressible[a]
    BY <1>2, <1>9, <1>11 DEF Around
  <2> HIDE DEF more
  <2>2. Around(read, a, z, more, sizes)
    BY <1>6, <1>7, <1>8, <1>11, <2>1 DEF Around
  <2> QED
    BY <1>2, <1>4, <1>6, <2>2 DEF OverFunction
<1>12. CASE sizes = <<>>
  <2>1. (t = z /\ stars = <<>>) \/ (IsPointer(t) /\ PointsTo(read, t, z, stars))
    BY <1>2, <1>12 DEF Around
  <2>2. ~Is(t, "array")
    BY <1>1, <1>2, <1>3, <2>1, KindOfType
  <2>3. Expressible[a] <=> sizes = <<>> /\ Expressible[z]
    BY <1>2, <1>9, <1>12, <2>2 DEF Around
  <2>4. PointsTo(read, a, z, more)
    <3> SUFFICES ASSUME NEW f
                 PROVE  \E c :
                           /\ c = Single(c.of) /\ (c = InC[a] <=> f = InC[z])
                           /\ \A d \in Seq(Tokens) :
                                 ReadDeclarator(read, f, more \o d)
                                   = ReadDeclarator(read, Qualified(c, d), Unqualified(d))
      BY DEF PointsTo
    <3>1. CASE t = z /\ stars = <<>>
      <4> DEFINE c == PointerTo(f)
      <4>1. IsFunction(t)
        BY <1>2, <3>1 DEF IsFunction
      <4>2. star = <<Star>> /\ Pointed(a, f) = f /\ Pointed(a, InC[t]) = InC[t]
        BY <4>1 DEF StarOf, Pointed
      <4>3. more = <<Star>>
        BY <1>5, <3>1, <4>2, EmptyText
      <4>4. c = InC[a] <=> f = InC[z]
        BY <1>10, <3>1, <4>2, PointerTypes
      <4>5. c = Single(c.of)
        BY SingleTypes DEF PointerTo
      <4>6. Star \in Tokens
        BY DEF Tokens
      <4>7. ASSUME NEW d \in Seq(Tokens)
            PROVE  ReadDeclarator(read, f, more \o d) = ReadDeclarator(read, Qualified(c, d), Unqualified(d))
        BY <4>3, <4>6, StarIsRead
      <4> HIDE DEF c, more
      <4> QED
        BY <4>4, <4>5, <4>7
    <3>2. CASE PointsTo(read, t, z, stars)
      <4>1. PICK b : /\ b = Single(b.of) /\ (b = InC[t] <=> f = InC[z])
                     /\ \A d \in Seq(Tokens) :
                           ReadDeclarator(read, f, stars \o d)
                             = ReadDeclarator(read, Qualified(b, d), Unqualified(d))
        BY <3>2 DEF PointsTo
      <4> DEFINE c == PointerTo(Pointed(a, b))
      <4>2. c = InC[a] <=> f = InC[z]
        <5>1. IsCType(b) /\ IsCType(InC[t])
          BY <1>1, <4>1, SingleTypes, MeaningsAreTypes
        <5>2. Pointed(a, b) = Pointed(a, InC[t]) <=> b = InC[t]
          BY <5>1, ConstTypes DEF Pointed
        <5> QED
          BY <1>10, <4>1, <5>2, PointerTypes
      <4>3. c = Single(c.of)
        BY SingleTypes DEF PointerTo
      <4>4. ASSUME NEW d \in Seq(Tokens)
            PROVE  ReadDeclarator(read, f, more \o d) = ReadDeclarator(read, Qualified(c, d), Unqualified(d))
        <5> DEFINE e == star \o d
        <5>1. more \o d = stars \o e
          <6> HIDE DEF star
          <6> QED
            BY <1>5, Regrouped
        <5>2. /\ e \in Seq(Tokens)
              /\ ReadDeclarator(read, Qualified(b, e), Unqualified(e))
                   = ReadDeclarator(read, Qualified(c, d), Unqualified(d))
          BY StarsAreRead
        <5> HIDE DEF e, c, more
        <5> QED
          BY <4>1, <5>1, <5>2
      <4> HIDE DEF c, more
      <4> QED
        BY <4>2, <4>3, <4>4
    <3> QED
      BY <2>1, <3>1, <3>2
  <2> HIDE DEF more
  <2>5. Around(read, a, z, more, sizes)
    BY <1>6, <1>7, <1>8, <2>3, <2>4 DEF Around
  <2> QED
    BY <1>2, <1>4, <1>6, <2>5 DEF OverFunction
<1> QED
  BY <1>11, <1>12

\* An array of a type over a function lies over that function.
LEMMA ArrayIsAround ==
    ASSUME IInv, NEW read, NEW a \in Canonical, Is(a, "array"), OverFunction(read, Target(a))
    PROVE  OverFunction(read, a)
<1> DEFINE t == Target(a)
           e == <<"size", Size(a)>>
<1>1. /\ a \in Interned /\ t \in Canonical /\ (t \in Interned => t < a)
      /\ Prefix(a) = Prefix(t) /\ Suffix(a) = Suffix(t) \o <<e>>
      /\ e \in SizeTokens
  BY KindOfType, PartsOfType, Affixes DEF SizeTokens
<1>2. PICK z \in Interned, stars \in Seq(Tokens), sizes \in Seq(SizeTokens) :
         Is(z, "function") /\ z <= t /\ Around(read, t, z, stars, sizes)
  BY DEF OverFunction
<1>3. ~IsNamed(t) /\ t \in Interned /\ z \in Canonical
  <2>1. Shape[t] = "other"
    BY <1>2 DEF Around
  <2>2. ~IsNamed(t)
    BY <1>1, <2>1, ShapeByKind
  <2> QED
    BY <1>1, <2>2, KindOfType DEF Canonical
<1>4. z <= a
  <2>1. Len(cache) \in Nat
    BY AllAddresses
  <2> HIDE DEF t
  <2> QED
    BY <1>1, <1>2, <1>3, <2>1 DEF Interned
<1>5. Suffix(z) \in Seq(Tokens) /\ SizeTokens \subseteq Tokens
  BY <1>3, CTexts DEF IsCText, Tokens
<1> DEFINE ee == <<e>>
           more == sizes \o ee
<1>6. more \in Seq(SizeTokens) /\ more # <<>> /\ ee \in Seq(Tokens) /\ sizes \in Seq(Tokens)
  <2> HIDE DEF e
  <2> QED
    BY <1>1, <1>5, TokenBehind
<1>7. Suffix(a) = Suffix(z) \o more
  <2>1. Suffix(t) = Suffix(z) \o sizes
    BY <1>2 DEF Around
  <2> HIDE DEF ee, e, t
  <2> QED
    BY <1>1, <1>5, <1>6, <2>1, Regrouped DEF ee
<1>8. Prefix(a) = Prefix(z) \o stars
  BY <1>1, <1>2 DEF Around
<1>9. Shape[a] = "other" /\ ~Expressible[a]
  BY <1>2, ShapeByKind DEF Around
<1> HIDE DEF more
<1>10. Around(read, a, z, stars, more)
  BY <1>6, <1>7, <1>8, <1>9 DEF Around
<1> QED
  BY <1>2, <1>4, <1>6, <1>10 DEF OverFunction

OverName(read, a) == \E c : Leads(read, a, c) /\ Fits(a, c)

\* Every type lies over a name or over a function.
LEMMA OverNameOrFunction ==
    ASSUME IInv, NEW read, NEW a \in Canonical
    PROVE  OverName(read, a) \/ OverFunction(read, a)
<1> DEFINE S == {b \in Canonical : OverName(read, b) \/ OverFunction(read, b)}
<1>1. ASSUME NEW b \in Canonical, ~IsNamed(b) => Target(b) \in Canonical /\ Target(b) \in S
      PROVE  b \in S
  <2> SUFFICES OverName(read, b) \/ OverFunction(read, b)
    OBVIOUS
  <2>1. CASE IsNamed(b)
    BY <2>1, NameLeads, NameFits DEF OverName
  <2>2. CASE IsPointer(b)
    <3>1. OverName(read, Target(b)) \/ OverFunction(read, Target(b))
      BY <1>1, <2>2, KindOfType
    <3>2. ASSUME NEW c, Leads(read, Target(b), c), Fits(Target(b), c)
          PROVE  OverName(read, b)
      BY <2>2, <3>2, PointerLeads, PointerFits DEF OverName
    <3> QED
      BY <2>2, <3>1, <3>2, PointerIsAround DEF OverName
  <2>3. CASE Is(b, "array")
    <3>1. OverName(read, Target(b)) \/ OverFunction(read, Target(b))
      BY <1>1, <2>3, KindOfType
    <3>2. ASSUME NEW c, Leads(read, Target(b), c), Fits(Target(b), c)
          PROVE  OverName(read, b)
      <4>1. Leads(read, b, c)
        BY <2>3, <3>2, Affixes DEF Leads
      <4> QED
        BY <2>3, <3>2, <4>1, ArrayFits DEF OverName
    <3> QED
      BY <2>3, <3>1, <3>2, ArrayIsAround DEF OverName
  <2>4. CASE Is(b, "function")
    BY <2>4, FunctionIsAround
  <2> QED
    BY <2>1, <2>2, <2>3, <2>4, KindOfType
<1>2. Canonical \subseteq S
  <2> HIDE DEF S
  <2> QED
    BY <1>1, FromTheOldest
<1> QED
  BY <1>2

\* A name behind a token that cannot stand in front of one.
Behind(ts) ==
    \E i, j \in 1 .. Len(ts) : i < j /\ ts[i] \notin {Star, Const, Open} /\ ts[j][1] = "name"

\* A token taken off the front or the back leaves the name behind.
LEMMA StillBehind ==
    ASSUME NEW T, NEW ts \in Seq(T), Behind(ts)
    PROVE  /\ ts # <<>> /\ Len(ts) # 1
           /\ ts[1] \in {Star, Const, Open} => Behind(Tail(ts))
           /\ ts[Len(ts)][1] # "name" => Behind(Front(ts))
           /\ ts[1] = Open /\ ts[Len(ts)] = Close => Behind(SubSeq(ts, 2, Len(ts) - 1))
<1>1. PICK i \in 1 .. Len(ts), j \in 1 .. Len(ts) :
         i < j /\ ts[i] \notin {Star, Const, Open} /\ ts[j][1] = "name"
  BY DEF Behind
<1> DEFINE m == Len(ts)
<1>2. ts # <<>> /\ m \in Nat \ {0} /\ m # 1
  BY <1>1, EmptySequence
<1>3. /\ Len(Tail(ts)) = m - 1 /\ Len(Front(ts)) = m - 1
      /\ \A k \in 1 .. m - 1 : Tail(ts)[k] = ts[k + 1]
      /\ \A k \in 1 .. m - 1 : Front(ts)[k] = ts[k]
  BY <1>2, ShorterByOne
<1> HIDE DEF m
<1>4. i \in 1 .. m /\ j \in 1 .. m
  BY <1>1 DEF m
<1>5. ASSUME ts[1] \in {Star, Const, Open} PROVE Behind(Tail(ts))
  <2>1. i # 1
    BY <1>1, <1>5
  <2>2. /\ i - 1 \in 1 .. m - 1 /\ j - 1 \in 1 .. m - 1 /\ i - 1 < j - 1
        /\ (i - 1) + 1 = i /\ (j - 1) + 1 = j
    BY <1>1, <1>2, <1>4, <2>1
  <2> DEFINE tail == Tail(ts)
  <2>3. tail[i - 1] = ts[i] /\ tail[j - 1] = ts[j] /\ Len(tail) = m - 1
    BY <1>3, <2>2
  <2> HIDE DEF tail
  <2>4. Behind(tail)
    BY <1>1, <2>2, <2>3 DEF Behind
  <2> QED
    BY <2>4 DEF tail
<1>6. ASSUME ts[m][1] # "name" PROVE Behind(Front(ts))
  <2>1. j # m
    BY <1>1, <1>6
  <2>2. i \in 1 .. m - 1 /\ j \in 1 .. m - 1
    BY <1>1, <1>2, <1>4, <2>1
  <2>3. Front(ts)[i] = ts[i] /\ Front(ts)[j] = ts[j]
    BY <1>3, <2>2
  <2> QED
    BY <1>1, <1>3, <2>2, <2>3 DEF Behind
<1>7. ASSUME ts[1] = Open, ts[m] = Close PROVE Behind(SubSeq(ts, 2, m - 1))
  <2>1. i # 1 /\ j # m
    BY <1>1, <1>7 DEF Close
  <2> DEFINE sub == SubSeq(ts, 2, m - 1)
  <2>2. Len(sub) = m - 2 /\ \A k \in 1 .. m - 2 : sub[k] = ts[k + 1]
    <3>1. PICK n \in Nat : m = n + 2
      <4>1. m - 2 \in Nat /\ m = (m - 2) + 2
        BY <1>2
      <4> QED
        BY <4>1
    <3>2. SubSeq(ts, 2, n + 1) = [k \in 1 .. n |-> ts[k + 1]]
      OBVIOUS
    <3>3. m - 1 = n + 1 /\ m - 2 = n
      BY <3>1
    <3> QED
      BY <3>2, <3>3
  <2>3. /\ i - 1 \in 1 .. m - 2 /\ j - 1 \in 1 .. m - 2 /\ i - 1 < j - 1
        /\ (i - 1) + 1 = i /\ (j - 1) + 1 = j
    BY <1>1, <1>2, <1>4, <2>1
  <2> HIDE DEF sub
  <2>4. sub[i - 1] = ts[i] /\ sub[j - 1] = ts[j]
    BY <2>2, <2>3
  <2>5. Behind(sub)
    BY <1>1, <2>2, <2>3, <2>4 DEF Behind
  <2> QED
    BY <2>5 DEF sub
<1> QED
  BY <1>2, <1>5, <1>6, <1>7 DEF m

\* A const taken off the front leaves the name behind.
LEMMA UnqualifiedBehind ==
    ASSUME NEW T, NEW ts \in Seq(T), Behind(ts)
    PROVE  Behind(Unqualified(ts))
BY StillBehind DEF Unqualified

\* A step of reading does not get such a name to the front.
LEMMA StepBehind ==
    ASSUME NEW read, NEW c, NEW T, NEW ts \in Seq(T), Behind(ts)
    PROVE  LET s == DeclaratorStep(read, c, ts)
           IN  (s[1] = Illegal /\ s[2] = <<>>) \/ Behind(s[2])
<1> DEFINE last == ts[Len(ts)]
           Fails(s) == (s[1] = Illegal /\ s[2] = <<>>) \/ Behind(s[2])
<1>1. ts # <<>> /\ Len(ts) # 1 /\ Tail(ts) \in Seq(T)
  BY StillBehind, ShorterByOne
<1>2. \A t1, t2 : Behind(t2) => Fails(<<t1, t2>>)
  OBVIOUS
<1>3. Fails(<<Illegal, <<>> >>)
  OBVIOUS
<1>4. ts[1] = Star => Behind(Unqualified(Tail(ts)))
  BY <1>1, StillBehind, UnqualifiedBehind
<1>5. last[1] = "size" \/ last[1] = "parameters" => Behind(Front(ts))
  BY StillBehind
<1>6. ts[1] = Open /\ last = Close => Behind(SubSeq(ts, 2, Len(ts) - 1))
  BY StillBehind
<1> HIDE DEF Fails
<1>7. Fails(DeclaratorStep(read, c, ts))
  BY <1>1, <1>2, <1>3, <1>4, <1>5, <1>6 DEF DeclaratorStep
<1> QED
  BY <1>7 DEF Fails

\* A declarator with a name behind such a token is not legal.
LEMMA NeverDeclared ==
    ASSUME NEW read, NEW c, NEW T, NEW ts \in Seq(T), Behind(ts)
    PROVE  ReadDeclarator(read, c, ts) = Illegal
<1> DEFINE Fails(n) == \A k, us : us \in Seq(T) /\ Len(us) <= n /\ Behind(us) => ReadDeclarator(read, k, us) = Illegal
           S == {n \in Nat : Fails(n)}
<1>1. 0 \in S
  <2> SUFFICES ASSUME NEW us, us \in Seq(T), Len(us) <= 0, Behind(us) PROVE FALSE
    OBVIOUS
  <2> QED
    BY StillBehind, EmptySequence
<1>2. ASSUME NEW n \in Nat, n \in S PROVE n + 1 \in S
  <2> SUFFICES ASSUME NEW k, NEW us, us \in Seq(T), Len(us) <= n + 1, Behind(us)
               PROVE  ReadDeclarator(read, k, us) = Illegal
    OBVIOUS
  <2> DEFINE s == DeclaratorStep(read, k, us)
             k2 == s[1]
             us2 == s[2]
  <2>1. us # <<>>
    BY StillBehind
  <2>2. us2 \in Seq(T) /\ Len(us2) < Len(us)
    BY <2>1, ShorterStep
  <2>3. ReadDeclarator(read, k, us) = ReadDeclarator(read, k2, us2)
    BY <2>1, ReadingOn
  <2>4. (k2 = Illegal /\ us2 = <<>>) \/ Behind(us2)
    BY StepBehind
  <2> HIDE DEF k2, us2
  <2>5. Len(us2) <= n
    BY <2>2, EmptySequence
  <2> QED
    BY <1>2, <2>2, <2>3, <2>4, <2>5, NothingToRead
<1>3. Len(ts) \in S
  <2>1. Len(ts) \in Nat
    BY EmptySequence
  <2> HIDE DEF S
  <2> QED
    BY <1>1, <1>2, <2>1, Induction
<1>4. Len(ts) <= Len(ts)
  BY EmptySequence
<1> QED
  BY <1>3, <1>4

\* A function that returns what needs a suffix is not declared by its text.
LEMMA SuffixInFront ==
    ASSUME IInv, NEW read, NEW a \in Canonical, Suffix(a) # <<>>, NEW rest \in Seq(Tokens),
           NEW j \in 1 .. Len(rest), rest[j][1] = "name"
    PROVE  ReadDeclaration(read, Prefix(a) \o (Suffix(a) \o rest)) = Illegal
<1> DEFINE p == Prefix(a)
           u == Suffix(a)
           d == u \o rest
           ts == p \o d
           i1 == Len(p) + 1
           j1 == Len(p) + (Len(u) + j)
<1>1. /\ p \in Seq(Tokens) /\ p # <<>> /\ p[1][1] = "type" /\ u \in Seq(Tokens)
      /\ u[1] \in SizeTokens \union {Close}
  BY CTexts DEF IsCText
<1>2. /\ u[1] \notin {Star, Const, Open} /\ p[1] \notin {Star, Const, Open}
  BY <1>1 DEF SizeTokens, Close, Star, Const, Open
<1> HIDE DEF p, u
<1>3. Len(p) \in Nat \ {0} /\ Len(u) \in Nat \ {0} /\ Len(rest) \in Nat /\ u # <<>>
  BY <1>1, EmptySequence DEF u
<1>4. /\ d \in Seq(Tokens) /\ d # <<>> /\ Len(d) = Len(u) + Len(rest) /\ d[1] = u[1]
      /\ d[Len(u) + j] = rest[j]
  BY <1>1, <1>3, Joined
<1> HIDE DEF d
<1>5. /\ ts \in Seq(Tokens) /\ ts # <<>> /\ ts[1] = p[1] /\ Len(ts) = Len(p) + Len(d)
      /\ \A k \in 1 .. Len(d) : ts[Len(p) + k] = d[k]
  <2>1. p \in Seq(Tokens) /\ d \in Seq(Tokens) /\ p # <<>>
    BY <1>1, <1>4
  <2> QED
    BY <2>1, Joined
<1> HIDE DEF ts
<1>6. ts[i1] = u[1] /\ ts[j1] = rest[j]
  <2>1. 1 \in 1 .. Len(d) /\ Len(u) + j \in 1 .. Len(d)
    BY <1>3, <1>4
  <2> QED
    BY <1>4, <1>5, <2>1
<1>7. Tail(ts) \in Seq(Tokens) /\ Len(Tail(ts)) = Len(ts) - 1 /\ \A k \in 1 .. Len(ts) - 1 : Tail(ts)[k] = ts[k + 1]
  BY <1>5, ShorterByOne
<1>8. Behind(Tail(ts))
  <2>1. /\ i1 - 1 \in 1 .. Len(ts) - 1 /\ j1 - 1 \in 1 .. Len(ts) - 1 /\ i1 - 1 < j1 - 1
        /\ (i1 - 1) + 1 = i1 /\ (j1 - 1) + 1 = j1
    BY <1>3, <1>4, <1>5
  <2> HIDE DEF i1, j1
  <2>2. Tail(ts)[i1 - 1] = u[1] /\ Tail(ts)[j1 - 1] = rest[j]
    BY <1>6, <1>7, <2>1
  <2> QED
    BY <1>2, <1>7, <2>1, <2>2 DEF Behind
<1>9. Behind(Unqualified(Tail(ts))) /\ Unqualified(Tail(ts)) \in Seq(Tokens)
  BY <1>7, <1>8, UnqualifiedBehind, ShorterUnqualified
<1>10. ReadDeclarator(read, Qualified(Named(ts[1][2]), Tail(ts)), Unqualified(Tail(ts))) = Illegal
  BY <1>9, NeverDeclared
<1>11. ReadDeclaration(read, ts) = Illegal
  BY <1>10 DEF ReadDeclaration
<1> QED
  BY <1>11 DEF ts, d, p, u

Inside(stars, x, constant) == stars \o Between(constant, << <<"name", x>> >>)
Grouped(y) == <<Open>> \o (y \o <<Close>>)

Join(s, t) == s \o t

\* Joined texts can be regrouped.
LEMMA JoinedTexts ==
    /\ \A s, t \in Seq(Tokens) : Join(s, t) \in Seq(Tokens)
    /\ \A s, t, u \in Seq(Tokens) : Join(Join(s, t), u) = Join(s, Join(t, u))
<1>1. ASSUME NEW s \in Seq(Tokens), NEW t \in Seq(Tokens)
      PROVE  Join(s, t) \in Seq(Tokens)
  BY Joined DEF Join
<1>2. ASSUME NEW s \in Seq(Tokens), NEW t \in Seq(Tokens), NEW u \in Seq(Tokens)
      PROVE  Join(Join(s, t), u) = Join(s, Join(t, u))
  BY Regrouped DEF Join
<1> QED
  BY <1>1, <1>2

\* What is behind a name stays behind it.
LEMMA BetweenJoined ==
    ASSUME NEW constant \in BOOLEAN, NEW n \in Seq(Tokens), NEW s \in Seq(Tokens)
    PROVE  Between(constant, n \o s) = Between(constant, n) \o s
<1> DEFINE c == <<Const>>
<1>1. c \in Seq(Tokens)
  BY DEF Tokens
<1> HIDE DEF c
<1>2. Join(Join(c, n), s) = Join(c, Join(n, s))
  BY <1>1, JoinedTexts
<1>3. (c \o n) \o s = c \o (n \o s)
  BY <1>2 DEF Join
<1> QED
  BY <1>3 DEF Between, c

\* The text of a declaration of x: what z returns, a group around the name, and the
\* parameters of z behind the group.
IsFunctionText(a, z, stars, sizes, x, constant) ==
    LET t == Target(z)
        e == <<"parameters", DeclaredParameters(z)>>
        y == Inside(stars, x, constant)
    IN  /\ y \in Seq(Tokens) /\ Grouped(y) \in Seq(Tokens) /\ e \in Tokens
        /\ Len(y) \in Nat \ {0} /\ y[Len(y)] = <<"name", x>>
        /\ Declaration(a, x, constant)
             = Prefix(t) \o (Suffix(t) \o ((Grouped(y) \o <<e>>) \o sizes))

\* The text of a type over the function z, around the name.
LEMMA FunctionText ==
    ASSUME IInv, NEW a \in Canonical, NEW z \in Canonical, Is(z, "function"),
           NEW stars \in Seq(Tokens), NEW sizes \in Seq(SizeTokens),
           Prefix(a) = Prefix(z) \o stars, Suffix(a) = Suffix(z) \o sizes,
           NEW x \in Names, NEW constant \in BOOLEAN
    PROVE  IsFunctionText(a, z, stars, sizes, x, constant)
<1> DEFINE t == Target(z)
           e == <<"parameters", DeclaredParameters(z)>>
           nm == <<"name", x>>
           n == <<nm>>
           b == Between(constant, n)
           y == stars \o b
           p == Prefix(t)
           u == Suffix(t)
           op == <<Open>>
           cl == <<Close>>
           ee == <<e>>
<1>1. t \in Canonical /\ ReturnType(z) = t
  BY KindOfType, PartsOfType
<1>2. nm \in Tokens /\ Declaration(a, x, constant) = Prefix(a) \o Between(constant, n \o Suffix(a))
  BY DeclarationText
<1>3. e \in Tokens /\ Open \in Tokens /\ Close \in Tokens /\ Const \in Tokens /\ SizeTokens \subseteq Tokens
  BY DEF Tokens, ParameterTokens
<1>4. e = ParameterList(Written, z)
  BY DEF ParameterList, DeclaredParameters, Declaration
<1>5. p \in Seq(Tokens) /\ u \in Seq(Tokens)
  BY <1>1, CTexts DEF IsCText
<1>6. sizes \in Seq(Tokens)
  BY <1>3
<1> HIDE DEF e, nm, t
<1>7. n \in Seq(Tokens) /\ op \in Seq(Tokens) /\ cl \in Seq(Tokens) /\ ee \in Seq(Tokens)
  BY <1>2, <1>3
<1>8. Prefix(z) = (p \o u) \o op /\ Suffix(z) = cl \o ee
  <2>1. Prefix(z) = (p \o u) \o op /\ Suffix(z) = <<Close, e>>
    BY <1>1, <1>4, Affixes
  <2>2. <<Close, e>> = cl \o ee
    OBVIOUS
  <2> QED
    BY <2>1, <2>2
<1>9. b \in Seq(Tokens) /\ Len(b) \in Nat \ {0} /\ b[Len(b)] = nm
  <2>1. CASE constant
    <3>1. b = <<Const>> \o n
      BY <2>1 DEF Between
    <3>2. b = <<Const, nm>>
      BY <3>1
    <3>3. <<Const, nm>> \in Seq(Tokens) /\ Len(<<Const, nm>>) = 2 /\ <<Const, nm>>[2] = nm
      BY <1>2, <1>3
    <3> HIDE DEF b
    <3> QED
      BY <3>2, <3>3
  <2>2. CASE ~constant
    BY <1>7, <2>2 DEF Between
  <2> QED
    BY <2>1, <2>2
<1>10. Between(constant, n \o Suffix(a)) = b \o Suffix(a)
  <2>1. Suffix(a) \in Seq(Tokens)
    BY CTexts DEF IsCText
  <2> HIDE DEF n
  <2> QED
    BY <1>7, <2>1, BetweenJoined
<1> HIDE DEF b, n, p, u, op, cl, ee
<1>11. y \in Seq(Tokens) /\ Len(y) \in Nat \ {0} /\ y[Len(y)] = nm
  <2>1. y \in Seq(Tokens) /\ Len(y) = Len(stars) + Len(b) /\ Len(stars) \in Nat
    BY <1>9, Joined
  <2>2. Len(b) \in 1 .. Len(b)
    BY <1>9
  <2>3. y[Len(stars) + Len(b)] = b[Len(b)]
    BY <1>9, <2>2, Joined
  <2> QED
    BY <1>9, <2>1, <2>3
<1> DEFINE group == op \o (y \o cl)
<1>12. y \o cl \in Seq(Tokens) /\ group \in Seq(Tokens)
  <2> DEFINE yc == y \o cl
  <2>1. yc \in Seq(Tokens)
    <3> HIDE DEF y
    <3> QED
      BY <1>7, <1>11, Joined
  <2> HIDE DEF yc
  <2>2. op \o yc \in Seq(Tokens)
    BY <1>7, <2>1, Joined
  <2> QED
    BY <2>1, <2>2 DEF yc
<1>13. Prefix(a) \o (b \o Suffix(a)) = p \o (u \o ((group \o ee) \o sizes))
  <2>1. /\ p \in Seq(Tokens) /\ u \in Seq(Tokens) /\ op \in Seq(Tokens) /\ stars \in Seq(Tokens)
        /\ b \in Seq(Tokens) /\ cl \in Seq(Tokens) /\ ee \in Seq(Tokens) /\ sizes \in Seq(Tokens)
    BY <1>5, <1>6, <1>7, <1>9
  <2>2. Join(Join(Join(Join(p, u), op), stars), Join(b, Join(Join(cl, ee), sizes)))
          = Join(p, Join(u, Join(Join(Join(op, Join(Join(stars, b), cl)), ee), sizes)))
    <3> DEFINE M == Seq(Tokens)
    <3>1. /\ \A s, v \in M : Join(s, v) \in M
          /\ \A s, v, w \in M : Join(Join(s, v), w) = Join(s, Join(v, w))
      BY JoinedTexts
    <3>2. /\ p \in M /\ u \in M /\ op \in M /\ stars \in M
          /\ b \in M /\ cl \in M /\ ee \in M /\ sizes \in M
      BY <2>1
    <3> HIDE DEF M, y, group
    <3> DEFINE es == Join(ee, sizes)
               ces == Join(cl, es)
               bces == Join(b, ces)
               sbces == Join(stars, bces)
               osbces == Join(op, sbces)
               pu == Join(p, u)
               puo == Join(pu, op)
               sb == Join(stars, b)
               sbc == Join(sb, cl)
               osbc == Join(op, sbc)
    <3>3. es \in M /\ ces \in M /\ bces \in M /\ sbces \in M /\ osbces \in M
      BY <3>1, <3>2
    <3>4. pu \in M /\ puo \in M /\ sb \in M /\ sbc \in M /\ osbc \in M
      BY <3>1, <3>2
    <3>5. Join(Join(cl, ee), sizes) = ces
      BY <3>1, <3>2
    <3>6. Join(Join(puo, stars), bces) = Join(puo, sbces)
      BY <3>1, <3>2, <3>3, <3>4
    <3>7. Join(puo, sbces) = Join(pu, osbces)
      BY <3>1, <3>2, <3>3, <3>4
    <3>8. Join(pu, osbces) = Join(p, Join(u, osbces))
      BY <3>1, <3>2, <3>3, <3>4
    <3>9. Join(Join(osbc, ee), sizes) = Join(osbc, es)
      BY <3>1, <3>2, <3>3, <3>4
    <3>10. Join(osbc, es) = Join(op, Join(sbc, es))
      BY <3>1, <3>2, <3>3, <3>4
    <3>11. Join(sbc, es) = Join(sb, ces)
      BY <3>1, <3>2, <3>3, <3>4
    <3>12. Join(sb, ces) = sbces
      BY <3>1, <3>2, <3>3, <3>4
    <3> QED
      BY <3>5, <3>6, <3>7, <3>8, <3>9, <3>10, <3>11, <3>12
  <2>3. (((p \o u) \o op) \o stars) \o (b \o ((cl \o ee) \o sizes)) = p \o (u \o ((group \o ee) \o sizes))
    BY <2>2 DEF Join
  <2> QED
    BY <1>8, <2>3
<1>14. Declaration(a, x, constant) = p \o (u \o ((group \o ee) \o sizes))
  BY <1>2, <1>10, <1>13
<1>15. y = Inside(stars, x, constant) /\ group = Grouped(y)
  BY DEF Inside, Grouped, b, n, nm, op, cl
<1> HIDE DEF y, group
<1> QED
  BY <1>3, <1>11, <1>12, <1>14, <1>15 DEF IsFunctionText, ee, e, nm, t, p, u

\* The plain types are those without a suffix, and they lead to what they mean.
LEMMA PlainTypes ==
    ASSUME IInv, NEW read, NEW a \in Canonical
    PROVE  /\ Shape[a] = "plain" <=> Suffix(a) = <<>>
           /\ Shape[a] = "plain" =>
                 /\ Leads(read, a, InC[a])
                 /\ InC[a].sizes = <<>> /\ InC[a].of[1] # "function"
<1>1. CASE OverName(read, a)
  <2>1. PICK c : Leads(read, a, c) /\ Fits(a, c)
    BY <1>1 DEF OverName
  <2>2. Shape[a] = "plain" <=> Suffix(a) = <<>>
    BY <2>1 DEF Fits
  <2>3. Shape[a] = "plain" => c = InC[a] /\ InC[a].sizes = <<>> /\ InC[a].of[1] # "function"
    BY <2>1, PlainFits
  <2> QED
    BY <2>1, <2>2, <2>3
<1>2. CASE OverFunction(read, a)
  <2>1. PICK z \in Interned, stars \in Seq(Tokens), sizes \in Seq(SizeTokens) :
           Is(z, "function") /\ Around(read, a, z, stars, sizes)
    BY <1>2 DEF OverFunction
  <2>2. Shape[a] = "other" /\ Suffix(a) = Suffix(z) \o sizes
    BY <2>1 DEF Around
  <2>3. z \in Canonical /\ SizeTokens \subseteq Tokens
    BY DEF Canonical, Tokens
  <2> DEFINE u == Suffix(z)
  <2>4. u \in Seq(Tokens) /\ u # <<>>
    <3>1. u = <<Close, ParameterList(Written, z)>>
      BY <2>1, <2>3, Affixes
    <3>2. u # <<>>
      BY <3>1
    <3> QED
      BY <2>3, <3>2, CTexts DEF IsCText
  <2>5. sizes \in Seq(Tokens)
    BY <2>3
  <2> HIDE DEF u
  <2>6. u \o sizes # <<>>
    BY <2>4, <2>5, Joined
  <2> QED
    BY <2>2, <2>6 DEF u
<1> QED
  BY <1>1, <1>2, OverNameOrFunction

\* The parameters of z are read right where prefix and suffix are enough for them.
ReadsParameters(read, z) ==
    \A i \in DOMAIN ParameterNames(z) :
        read[DeclaredParameters(z)[i]] = DeclaredIn(z)[i] <=> Expressible[ParameterType(z, i)]

\* A function is read right if all of its parameters are.
LEMMA CalledIsMeant ==
    ASSUME IInv, NEW read, NEW z \in Canonical, Is(z, "function"), ReadsParameters(read, z)
    PROVE  Called(read, InC[Target(z)], DeclaredParameters(z)) = InC[z]
             <=> \A i \in DOMAIN ParameterNames(z) : Expressible[ParameterType(z, i)]
<1> DEFINE c == InC[Target(z)]
           ps == DeclaredParameters(z)
           D == DOMAIN ParameterNames(z)
           f == [i \in DOMAIN ps |-> read[ps[i]]]
           g == DeclaredIn(z)
<1>1. InC[z] = FunctionOf(c, g)
  BY MeaningByKind
<1>2. Called(read, c, ps) = FunctionOf(c, f)
  BY DEF Called
<1>3. FunctionOf(c, f) = FunctionOf(c, g) <=> f = g
  <2> HIDE DEF c, f, g
  <2>1. FunctionOf(c, f).of = <<"function", c, f>> /\ FunctionOf(c, g).of = <<"function", c, g>>
    BY SingleTypes DEF FunctionOf
  <2>2. <<"function", c, f>> = <<"function", c, g>> => f = g
    OBVIOUS
  <2> QED
    BY <2>1, <2>2
<1>4. DOMAIN ps = D
  BY DEF DeclaredParameters
<1>5. f = [i \in D |-> read[ps[i]]]
  <2> HIDE DEF ps, D
  <2> QED
    BY <1>4
<1>6. g = [i \in D |-> g[i]]
  BY DEF DeclaredIn
<1>7. \A i \in D : read[ps[i]] = g[i] <=> Expressible[ParameterType(z, i)]
  BY DEF ReadsParameters
<1> HIDE DEF D, f, g, ps, c
<1>8. f = g <=> \A i \in D : read[ps[i]] = g[i]
  BY <1>5, <1>6
<1>9. InC[z] = Called(read, c, ps) <=> \A i \in D : Expressible[ParameterType(z, i)]
  BY <1>1, <1>2, <1>3, <1>7, <1>8
<1> QED
  BY <1>9 DEF c, ps, D

\* A text of a function that returns a plain type: the group around the name, the
\* parameters and the sizes behind them.
LEMMA CalledTextIsRead ==
    ASSUME IInv, NEW read, NEW t \in Canonical, Shape[t] = "plain",
           NEW y \in Seq(Tokens), NEW ps, <<"parameters", ps>> \in Tokens,
           NEW sizes \in Seq(SizeTokens)
    PROVE  ReadDeclaration(read, Prefix(t) \o ((Grouped(y) \o << <<"parameters", ps>> >>) \o sizes))
             = IF sizes = <<>> THEN ReadDeclarator(read, Called(read, InC[t], ps), y) ELSE Illegal
<1> DEFINE e == <<"parameters", ps>>
           g == Grouped(y)
           ge == g \o <<e>>
           d == ge \o sizes
           c == InC[t]
           o == c.of
           ss == SizesOf(sizes)
<1>1. Open \in Tokens /\ Close \in Tokens /\ SizeTokens \subseteq Tokens
  BY DEF Tokens
<1>2. g \in Seq(Tokens) /\ g # <<>> /\ g[1] = Open
  <2> DEFINE yc == y \o <<Close>>
  <2>1. yc \in Seq(Tokens)
    BY <1>1, TokenBehind
  <2> HIDE DEF yc
  <2>2. <<Open>> \o yc \in Seq(Tokens) /\ <<Open>> \o yc # <<>> /\ (<<Open>> \o yc)[1] = Open
    BY <1>1, <2>1, TokenInFront
  <2> QED
    BY <2>2 DEF Grouped, yc
<1>3. Open # Star /\ Open # Const
  BY DEF Open, Star, Const
<1>4. sizes \in Seq(Tokens)
  BY <1>1
<1> HIDE DEF g
<1>5. ge \in Seq(Tokens) /\ ge # <<>> /\ ge[1] = Open
  <2>1. <<e>> \in Seq(Tokens)
    OBVIOUS
  <2> DEFINE ee == <<e>>
  <2> HIDE DEF ee
  <2>2. g \o ee # <<>> /\ (g \o ee)[1] = Open /\ g \o ee \in Seq(Tokens)
    BY <1>2, <2>1, Joined DEF ee
  <2> QED
    BY <2>2 DEF ee
<1> HIDE DEF ge
<1>6. d \in Seq(Tokens) /\ d # <<>> /\ d[1] = Open
  BY <1>4, <1>5, Joined
<1> HIDE DEF d
<1>7. Unqualified(d) = d /\ Qualified(c, d) = c
  BY <1>3, <1>6 DEF Unqualified, Qualified
<1>8. /\ Leads(read, t, c) /\ c.sizes = <<>> /\ o[1] # "function"
  BY PlainTypes
<1>9. ReadDeclaration(read, Prefix(t) \o d) = ReadDeclarator(read, c, d)
  <2> HIDE DEF c
  <2> QED
    BY <1>6, <1>7, <1>8 DEF Leads
<1>10. c = Sized(<<>>, o)
  <2>1. IsCType(c)
    BY MeaningsAreTypes
  <2> QED
    BY <1>8, <2>1 DEF IsCType, Sized
<1> HIDE DEF c
<1>11. ReadDeclarator(read, Sized(<<>>, o), ge \o sizes) = ReadDeclarator(read, Sized(ss, o), ge)
  <2> HIDE DEF o
  <2> QED
    BY <1>3, <1>5, <1>8, SizesAreRead
<1> DEFINE k == Sized(ss, o)
<1>12. k.sizes = ss /\ k.of = o
  BY DEF Sized
<1> HIDE DEF k, o
<1>13. Returnable(k) <=> ss = <<>>
  BY <1>8, <1>12 DEF Returnable
<1>14. ReadDeclarator(read, k, g \o <<e>>)
         = IF Returnable(k) THEN ReadDeclarator(read, Called(read, k, ps), g) ELSE Illegal
  BY <1>2, <1>3, ParametersAreRead
<1>15. ReadDeclaration(read, Prefix(t) \o d)
         = IF ss = <<>> THEN ReadDeclarator(read, Called(read, k, ps), g) ELSE Illegal
  <2>1. ReadDeclarator(read, c, d) = ReadDeclarator(read, k, ge)
    BY <1>10, <1>11 DEF d, k
  <2>2. ReadDeclarator(read, k, ge)
          = IF ss = <<>> THEN ReadDeclarator(read, Called(read, k, ps), g) ELSE Illegal
    BY <1>13, <1>14 DEF ge
  <2> QED
    BY <1>9, <2>1, <2>2
<1>16. ss = <<>> <=> sizes = <<>>
  <2>1. Len(ss) = Len(sizes) /\ Len(sizes) \in Nat
    BY EmptySequence DEF SizesOf
  <2>2. ss \in Seq({sizes[i][2] : i \in 1 .. Len(sizes)})
    BY EmptySequence DEF SizesOf
  <2> HIDE DEF ss
  <2>3. ss = <<>> <=> Len(ss) <= 0
    BY <2>2, EmptySequence
  <2>4. sizes = <<>> <=> Len(sizes) <= 0
    BY EmptySequence
  <2> QED
    BY <2>1, <2>3, <2>4
<1>17. ss = <<>> => k = c
  BY <1>10 DEF k
<1>18. \A q : ReadDeclarator(read, q, g) = ReadDeclarator(read, q, y)
  BY <1>1, GroupIsRead DEF g, Grouped
<1> QED
  BY <1>15, <1>16, <1>17, <1>18 DEF d, ge, c, e, g

\* A const stands in front of the name only behind a star.
ConstBehindAStar(read, a, z, stars, constant) ==
    (a = z /\ stars = <<>> /\ ~constant) \/ PointsTo(read, a, z, stars)

\* Between the parentheses of a function: stars, a const and the name.
LEMMA InsideIsRead ==
    ASSUME IInv, NEW read, NEW a \in Canonical, NEW z \in Canonical, NEW stars \in Seq(Tokens),
           NEW x \in Names, NEW constant \in BOOLEAN, NEW f,
           ConstBehindAStar(read, a, z, stars, constant)
    PROVE  ReadDeclarator(read, f, Inside(stars, x, constant)) = <<"declared", x, Meant(a, constant)>>
             <=> f = InC[z]
<1> DEFINE nm == <<"name", x>>
           n == <<nm>>
           d == Between(constant, n)
<1>1. nm \in Tokens /\ nm # Const
  BY DeclarationText DEF Const
<1>2. n \in Seq(Tokens) /\ n # <<>> /\ n[1] # Const
  BY <1>1
<1>3. \A k : ReadDeclarator(read, k, n) = <<"declared", x, k>>
  BY NameIsRead
<1>4. \A k, m : <<"declared", x, k>> = <<"declared", x, m>> <=> k = m
  OBVIOUS
<1> HIDE DEF n
<1>5. CASE a = z /\ stars = <<>> /\ ~constant
  <2>1. Inside(stars, x, constant) = n
    BY <1>2, <1>5, EmptyText DEF Inside, Between, n
  <2>2. Meant(a, constant) = InC[z]
    BY <1>5 DEF Meant
  <2> QED
    BY <1>3, <1>4, <2>1, <2>2
<1>6. CASE PointsTo(read, a, z, stars)
  <2>1. PICK c : /\ c = Single(c.of) /\ (c = InC[a] <=> f = InC[z])
                 /\ \A ts \in Seq(Tokens) :
                       ReadDeclarator(read, f, stars \o ts)
                         = ReadDeclarator(read, Qualified(c, ts), Unqualified(ts))
    BY <1>6 DEF PointsTo
  <2> DEFINE k == IF constant THEN ConstOf(c) ELSE c
  <2>2. d \in Seq(Tokens) /\ Unqualified(d) = n /\ Qualified(c, d) = k
    BY <1>2, ConstInFront
  <2>3. Inside(stars, x, constant) = stars \o d
    BY DEF Inside, n
  <2> HIDE DEF d
  <2>4. ReadDeclarator(read, f, Inside(stars, x, constant)) = <<"declared", x, k>>
    <3> HIDE DEF k
    <3> QED
      BY <1>3, <2>1, <2>2, <2>3
  <2>5. k = Meant(a, constant) <=> c = InC[a]
    <3>1. IsCType(c) /\ IsCType(InC[a])
      BY <2>1, SingleTypes, MeaningsAreTypes
    <3> QED
      BY <3>1, ConstTypes DEF Meant
  <2> HIDE DEF k
  <2> QED
    BY <1>4, <2>1, <2>4, <2>5
<1> QED
  BY <1>5, <1>6 DEF ConstBehindAStar

\* A declaration of a type over a function.
LEMMA OverFunctionIsRead ==
    ASSUME IInv, NEW read, NEW a \in Canonical, OverFunction(read, a),
           \A z \in Canonical : Is(z, "function") /\ z \in Interned /\ z <= a => ReadsParameters(read, z),
           NEW x \in Names, NEW constant \in BOOLEAN, Is(a, "function") => ~constant
    PROVE  IsReadRight(read, a, x, constant) <=> Expressible[a]
<1>1. PICK z \in Interned, stars \in Seq(Tokens), sizes \in Seq(SizeTokens) :
         Is(z, "function") /\ z <= a /\ Around(read, a, z, stars, sizes)
  BY DEF OverFunction
<1> DEFINE t == Target(z)
           ps == DeclaredParameters(z)
           e == <<"parameters", ps>>
           ee == <<e>>
           y == Inside(stars, x, constant)
           g == Grouped(y)
           rest == (g \o ee) \o sizes
           r == ReadDeclaration(read, Declaration(a, x, constant))
           w == <<"declared", x, Meant(a, constant)>>
<1>2. z \in Canonical /\ t \in Canonical
  <2>1. z \in Canonical
    BY DEF Canonical
  <2>2. ~IsNamed(z)
    BY <1>1, <2>1, KindOfType
  <2> QED
    BY <2>1, <2>2, PartsOfType
<1>3. /\ y \in Seq(Tokens) /\ g \in Seq(Tokens) /\ e \in Tokens
      /\ Len(y) \in Nat \ {0} /\ y[Len(y)] = <<"name", x>>
      /\ Declaration(a, x, constant) = Prefix(t) \o (Suffix(t) \o rest)
  <2>1. /\ Prefix(a) = Prefix(z) \o stars /\ Suffix(a) = Suffix(z) \o sizes
        /\ z \in Canonical /\ Is(z, "function")
    BY <1>1, <1>2 DEF Around
  <2> QED
    <3>1. IsFunctionText(a, z, stars, sizes, x, constant)
      BY <2>1, FunctionText
    <3> QED
      BY <3>1 DEF IsFunctionText
<1>4. /\ Expressible[a] <=> sizes = <<>> /\ Expressible[z]
      /\ sizes = <<>> => (a = z /\ stars = <<>>) \/ (IsPointer(a) /\ PointsTo(read, a, z, stars))
  BY <1>1 DEF Around
<1>5. Expressible[z] <=> /\ Shape[t] = "plain"
                         /\ \A i \in DOMAIN ParameterNames(z) : Expressible[ParameterType(z, i)]
  BY <1>1, <1>2, ShapeByKind
<1>6. w # Illegal
  BY DEF Illegal
<1>7. IsReadRight(read, a, x, constant) <=> r = w
  BY DEF IsReadRight
<1>8. CASE Suffix(t) # <<>>
  <2>1. ~Expressible[a]
    BY <1>2, <1>4, <1>5, <1>8, PlainTypes
  <2>2. \E j \in 1 .. Len(rest) : rest[j][1] = "name"
    <3> DEFINE k == Len(y)
               yc == y \o <<Close>>
               ge == g \o ee
    <3> HIDE DEF e, y
    <3>1. yc \in Seq(Tokens) /\ Len(yc) = k + 1 /\ yc[k] = y[k]
      <4>1. Close \in Tokens /\ k \in 1 .. k
        BY <1>3 DEF Tokens
      <4> QED
        BY <1>3, <4>1, TokenBehind
    <3> HIDE DEF yc, k
    <3>2. k \in Nat \ {0} /\ y[k] = <<"name", x>>
      BY <1>3 DEF k
    <3>3. Len(g) = k + 2 /\ g[k + 1] = yc[k]
      <4>1. Open \in Tokens /\ k \in 1 .. Len(yc)
        BY <3>1, <3>2 DEF Tokens
      <4>2. Len(<<Open>> \o yc) = Len(yc) + 1 /\ (<<Open>> \o yc)[k + 1] = yc[k]
        BY <3>1, <4>1, TokenInFront
      <4> QED
        BY <3>1, <3>2, <4>2 DEF Grouped, yc
    <3> HIDE DEF g
    <3>4. ee \in Seq(Tokens) /\ Len(ee) = 1
      BY <1>3
    <3> HIDE DEF ee
    <3>5. ge \in Seq(Tokens) /\ Len(ge) = Len(g) + 1 /\ ge[k + 1] = g[k + 1]
      <4>1. k + 1 \in 1 .. Len(g)
        BY <3>2, <3>3
      <4>2. g \in Seq(Tokens) /\ ee \in Seq(Tokens)
        BY <1>3, <3>4
      <4>3. ge \in Seq(Tokens) /\ Len(ge) = Len(g) + Len(ee)
        BY <4>2, Joined
      <4>4. \A i \in 1 .. Len(g) : ge[i] = g[i]
        BY <4>2, Joined
      <4> QED
        BY <3>4, <4>1, <4>3, <4>4
    <3> HIDE DEF ge
    <3>6. sizes \in Seq(Tokens) /\ Len(sizes) \in Nat
      <4>1. SizeTokens \subseteq Tokens
        BY DEF Tokens
      <4> QED
        BY <4>1, EmptySequence
    <3> DEFINE gs == ge \o sizes
    <3>7. Len(gs) = Len(ge) + Len(sizes) /\ gs[k + 1] = ge[k + 1]
      <4>1. k + 1 \in 1 .. Len(ge)
        BY <3>2, <3>3, <3>5
      <4>2. ge \in Seq(Tokens) /\ sizes \in Seq(Tokens)
        BY <3>5, <3>6
      <4>3. Len(gs) = Len(ge) + Len(sizes)
        BY <4>2, Joined
      <4>4. \A i \in 1 .. Len(ge) : gs[i] = ge[i]
        BY <4>2, Joined
      <4> QED
        BY <4>1, <4>3, <4>4
    <3>8. k + 1 \in 1 .. Len(gs) /\ gs[k + 1][1] = "name"
      <4> HIDE DEF gs
      <4>1. k + 1 \in 1 .. Len(gs)
        BY <3>2, <3>3, <3>5, <3>6, <3>7
      <4> QED
        BY <3>1, <3>2, <3>3, <3>5, <3>7, <4>1
    <3>9. gs = rest
      BY DEF ge
    <3> HIDE DEF gs, rest
    <3> QED
      BY <3>8, <3>9
  <2>3. rest \in Seq(Tokens)
    <3>1. SizeTokens \subseteq Tokens
      BY DEF Tokens
    <3>2. sizes \in Seq(Tokens)
      BY <3>1
    <3>3. ee \in Seq(Tokens)
      BY <1>3
    <3> DEFINE ge == g \o ee
    <3> HIDE DEF ee, g
    <3>4. ge \in Seq(Tokens)
      BY <1>3, <3>3, Joined
    <3> HIDE DEF ge
    <3>5. ge \o sizes \in Seq(Tokens)
      BY <3>2, <3>4, Joined
    <3> QED
      BY <3>5 DEF ge
  <2> HIDE DEF rest, t
  <2>4. r = Illegal
    BY <1>2, <1>3, <1>8, <2>2, <2>3, SuffixInFront
  <2> HIDE DEF r, w
  <2> QED
    BY <1>6, <1>7, <2>1, <2>4
<1>9. CASE Suffix(t) = <<>>
  <2>1. Shape[t] = "plain"
    BY <1>2, <1>9, PlainTypes
  <2>2. Suffix(t) \o rest = rest
    BY <1>9, EmptyText
  <2> DEFINE f == Called(read, InC[t], ps)
  <2>3. r = IF sizes = <<>> THEN ReadDeclarator(read, f, y) ELSE Illegal
    <3>1. ReadDeclaration(read, Prefix(t) \o rest)
            = IF sizes = <<>> THEN ReadDeclarator(read, f, y) ELSE Illegal
      <4> HIDE DEF y, t, ps
      <4> QED
        BY <1>2, <1>3, <2>1, CalledTextIsRead
    <3> HIDE DEF rest, f, y
    <3> QED
      BY <1>3, <2>2, <3>1
  <2>4. CASE sizes # <<>>
    <3> HIDE DEF r, w, f, y
    <3> QED
      BY <1>4, <1>6, <1>7, <2>3, <2>4
  <2>5. CASE sizes = <<>>
    <3>1. ConstBehindAStar(read, a, z, stars, constant)
      BY <1>1, <1>4, <2>5 DEF ConstBehindAStar
    <3>2. ReadDeclarator(read, f, y) = w <=> f = InC[z]
      <4>1. z \in Canonical
        BY <1>2
      <4> HIDE DEF f, t
      <4> QED
        BY <3>1, <4>1, InsideIsRead
    <3>3. ReadsParameters(read, z)
      BY <1>1, <1>2
    <3>4. f = InC[z] <=> \A i \in DOMAIN ParameterNames(z) : Expressible[ParameterType(z, i)]
      BY <1>1, <1>2, <3>3, CalledIsMeant
    <3> HIDE DEF r, w, f, y, t
    <3> QED
      BY <1>4, <1>5, <1>7, <2>1, <2>3, <2>5, <3>2, <3>4
  <2> QED
    BY <2>4, <2>5
<1> QED
  BY <1>8, <1>9

ParameterText(a, p) == Declaration(a, p, FALSE)
CReaderAt(f, n) ==
    [ts \in ParameterTexts |-> IF n = 0 THEN Illegal ELSE ReadDeclaration(f[n - 1], ts)]

\* The reader of parameters is built level by level.
LEMMA CReadersExist ==
    ASSUME IInv
    PROVE  \E f : f = [n \in 0 .. Len(cache) |-> CReaderAt(f, n)]
<1> DEFINE m == Len(cache)
           Upto(f, k) == \A n \in 0 .. m : n <= k => f[n] = CReaderAt(f, n)
           S == {k \in Nat : \E f : f = [n \in 0 .. m |-> f[n]] /\ Upto(f, k)}
<1>0. m \in Nat
  BY AllAddresses
<1> HIDE DEF m
<1>1. 0 \in S
  <2> DEFINE f == [n \in 0 .. m |-> CReaderAt(<<>>, 0)]
  <2>1. Upto(f, 0)
    BY <1>0 DEF CReaderAt
  <2> QED
    BY <2>1
<1>2. ASSUME NEW k \in Nat, k \in S PROVE k + 1 \in S
  <2>1. PICK f : f = [n \in 0 .. m |-> f[n]] /\ Upto(f, k)
    BY <1>2
  <2> DEFINE g == [n \in 0 .. m |-> CReaderAt(f, n)]
  <2>2. \A n \in 0 .. m : n <= k => f[n] = g[n]
    BY <2>1
  <2>3. Upto(g, k + 1)
    <3> SUFFICES ASSUME NEW n \in 0 .. m, n <= k + 1 PROVE g[n] = CReaderAt(g, n)
      OBVIOUS
    <3>1. n # 0 => n - 1 \in 0 .. m /\ n - 1 <= k
      BY <1>0
    <3>2. g[n] = CReaderAt(f, n)
      OBVIOUS
    <3>3. n # 0 => f[n - 1] = g[n - 1]
      BY <2>2, <3>1
    <3> HIDE DEF g
    <3>4. CReaderAt(f, n) = CReaderAt(g, n)
      BY <3>3 DEF CReaderAt
    <3> QED
      BY <3>2, <3>4
  <2>4. g = [n \in 0 .. m |-> g[n]]
    OBVIOUS
  <2>5. \E h : h = [n \in 0 .. m |-> h[n]] /\ Upto(h, k + 1)
    <3> HIDE DEF g, Upto
    <3> QED
      BY <2>3, <2>4
  <2> HIDE DEF Upto
  <2>6. k + 1 \in Nat
    OBVIOUS
  <2> QED
    BY <2>5, <2>6
<1>3. m \in S
  <2> HIDE DEF S
  <2> QED
    BY <1>0, <1>1, <1>2, Induction
<1>4. PICK f : f = [n \in 0 .. m |-> f[n]] /\ Upto(f, m)
  BY <1>3
<1>5. f = [n \in 0 .. m |-> CReaderAt(f, n)]
  <2>1. \A n \in 0 .. m : f[n] = CReaderAt(f, n)
    BY <1>0, <1>4
  <2> QED
    BY <1>4, <2>1
<1> QED
  BY <1>5 DEF m

\* The reader of parameters on each level.
LEMMA CReaderEquation ==
    ASSUME IInv, NEW n \in Nat, n + 1 <= Len(cache), NEW a \in Canonical, NEW p \in Parameters
    PROVE  CReader[n + 1][Declaration(a, p, FALSE)]
             = ReadDeclaration(CReader[n], Declaration(a, p, FALSE))
<1>1. CReader = CHOOSE f : f = [m \in 0 .. Len(cache) |-> CReaderAt(f, m)]
  BY DEF CReader, CReaderAt
<1>2. CReader = [m \in 0 .. Len(cache) |-> CReaderAt(CReader, m)]
  BY <1>1, CReadersExist
<1>3. n + 1 \in 0 .. Len(cache) /\ n + 1 # 0 /\ (n + 1) - 1 = n
  BY AllAddresses
<1>4. Declaration(a, p, FALSE) \in ParameterTexts
  <2> DEFINE texts == {ParameterText(b, q) : b \in Canonical, q \in Parameters}
             text == Declaration(a, p, FALSE)
  <2>1. ParameterTexts = texts
    BY DEF ParameterTexts, ParameterText
  <2>2. ParameterText(a, p) \in texts
    OBVIOUS
  <2>3. ParameterText(a, p) = text
    BY DEF ParameterText
  <2> HIDE DEF texts, text
  <2>4. text \in ParameterTexts
    BY <2>1, <2>2, <2>3
  <2> QED
    BY <2>4 DEF text
<1>5. CReader[n + 1] = CReaderAt(CReader, n + 1)
  BY <1>2, <1>3
<1> QED
  BY <1>3, <1>4, <1>5 DEF CReaderAt

\* Declarations of the types that lie up to n levels deep are read right by n levels of
\* readers for exactly the types that need no more than a prefix and a suffix.
ReadsUpTo(n) ==
    \A a \in UpTo(n), x \in Names, constant \in BOOLEAN :
        (Is(a, "function") => ~constant) =>
            (IsReadRight(CReader[n], a, x, constant) <=> Expressible[a])

\* The parameters of a function lie less deep than it does.
LEMMA ParametersOneLevelUp ==
    ASSUME IInv, NEW n \in Nat, n + 1 <= Len(cache), ReadsUpTo(n),
           NEW z \in Interned, z <= n + 1, Is(z, "function")
    PROVE  ReadsParameters(CReader[n + 1], z)
<1> SUFFICES ASSUME NEW i \in DOMAIN ParameterNames(z)
             PROVE  CReader[n + 1][DeclaredParameters(z)[i]] = DeclaredIn(z)[i]
                      <=> Expressible[ParameterType(z, i)]
  BY DEF ReadsParameters
<1> DEFINE b == ParameterType(z, i)
           p == ParameterNames(z)[i]
           r == ReadDeclaration(CReader[n], Declaration(b, p, FALSE))
<1>1. b \in UpTo(n) /\ b \in Canonical /\ p \in Parameters
  <2>1. z \in UpTo(n + 1)
    BY DEF UpTo
  <2>2. ~IsNamed(z)
    BY DEF Is
  <2>3. b \in UpTo(n) /\ p \in Parameters
    BY <2>1, <2>2, PartsAreOlder
  <2> QED
    BY <2>3, AllAddresses
<1>2. DeclaredParameters(z)[i] = Declaration(b, p, FALSE)
  BY DEF DeclaredParameters
<1>3. DeclaredIn(z)[i] = <<"declared", p, InC[b]>>
  BY DEF DeclaredIn
<1> HIDE DEF b, p
<1>4. CReader[n + 1][Declaration(b, p, FALSE)] = r
  BY <1>1, CReaderEquation
<1>6. IsReadRight(CReader[n], b, p, FALSE) <=> Expressible[b]
  <2>1. p \in Names /\ FALSE \in BOOLEAN
    BY <1>1 DEF Names
  <2> QED
    BY <1>1, <2>1 DEF ReadsUpTo
<1>7. IsReadRight(CReader[n], b, p, FALSE) <=> r = <<"declared", p, InC[b]>>
  BY DEF IsReadRight, Meant
<1> HIDE DEF r
<1>8. CReader[n + 1][DeclaredParameters(z)[i]] = DeclaredIn(z)[i] <=> Expressible[b]
  BY <1>2, <1>3, <1>4, <1>6, <1>7
<1> QED
  BY <1>8 DEF b

\* Every type is read right where prefix and suffix are enough.
LEMMA CIsReadBack ==
    ASSUME IInv
    PROVE  ReadsUpTo(Len(cache))
<1> DEFINE S == {n \in Nat : n <= Len(cache) => ReadsUpTo(n)}
<1>1. ASSUME NEW read, NEW a \in Canonical, IsNamed(a), NEW x \in Names, NEW constant \in BOOLEAN
      PROVE  IsReadRight(read, a, x, constant) <=> Expressible[a]
  BY <1>1, NameLeads, NameFits, OverNameIsRead
<1>2. 0 \in S
  <2> SUFFICES ReadsUpTo(0)
    OBVIOUS
  <2>1. UpTo(0) = NamedTypes /\ UpTo(0) \subseteq Canonical
    BY AllAddresses
  <2> QED
    BY <1>1, <2>1 DEF ReadsUpTo, IsNamed
<1>3. ASSUME NEW n \in Nat, n \in S PROVE n + 1 \in S
  <2> SUFFICES ASSUME n + 1 <= Len(cache) PROVE ReadsUpTo(n + 1)
    OBVIOUS
  <2>1. ReadsUpTo(n)
    BY <1>3, AllAddresses
  <2> DEFINE read == CReader[n + 1]
  <2> SUFFICES ASSUME NEW a \in UpTo(n + 1), NEW x \in Names, NEW constant \in BOOLEAN,
                      Is(a, "function") => ~constant
               PROVE  IsReadRight(read, a, x, constant) <=> Expressible[a]
    BY DEF ReadsUpTo
  <2>2. a \in Canonical
    BY AllAddresses
  <2>3. \A z \in Interned : Is(z, "function") /\ z <= n + 1 => ReadsParameters(read, z)
    BY <2>1, ParametersOneLevelUp
  <2> HIDE DEF read
  <2>4. CASE IsNamed(a)
    BY <1>1, <2>2, <2>4
  <2>5. CASE OverName(read, a)
    BY <2>2, <2>5, OverNameIsRead DEF OverName
  <2>6. CASE ~IsNamed(a) /\ OverFunction(read, a)
    <3>1. a \in Interned /\ a <= n + 1 /\ Len(cache) \in Nat
      BY <2>6, AllAddresses DEF UpTo, IsNamed
    <3>2. \A z \in Canonical : Is(z, "function") /\ z \in Interned /\ z <= a => ReadsParameters(read, z)
      <4>1. \A z \in Interned : z <= a => z <= n + 1
        BY <3>1 DEF Interned
      <4> QED
        BY <2>3, <4>1
    <3> QED
      BY <2>2, <2>6, <3>2, OverFunctionIsRead
  <2> QED
    BY <2>2, <2>4, <2>5, <2>6, OverNameOrFunction
<1>4. Len(cache) \in S
  <2> HIDE DEF S
  <2> QED
    BY <1>2, <1>3, AllAddresses, Induction
<1> QED
  BY <1>4, AllAddresses

\* What the C back end writes for a declaration (render_declaration with the prefix and
\* the suffix of the type) is read by a C compiler as the type of the API for exactly the
\* types that need no parentheses around a star, no reversed sizes and nothing behind
\* the parameters of a function, however deep they are.
THEOREM CIsRight == Spec => []CTextIsRightIfExpressible
<1>1. IInv => CTextIsRightIfExpressible
  <2> SUFFICES ASSUME IInv, NEW a \in Printed
               PROVE  /\ CTextDeclares(a, "x", FALSE) <=> Expressible[a]
                      /\ ~Is(a, "function") => (CTextDeclares(a, "x", TRUE) <=> Expressible[a])
    BY DEF CTextIsRightIfExpressible
  <2> DEFINE read == CReader[Len(cache)]
  <2>1. a \in Canonical /\ a \in UpTo(Len(cache))
    BY AllAddresses DEF Printed, IInv
  <2>2. "x" \in Names /\ TRUE \in BOOLEAN /\ FALSE \in BOOLEAN
    BY DEF Names
  <2>3. /\ CTextDeclares(a, "x", FALSE) <=> IsReadRight(read, a, "x", FALSE)
        /\ CTextDeclares(a, "x", TRUE) <=> IsReadRight(read, a, "x", TRUE)
    BY DEF CTextDeclares, IsReadRight, Meant
  <2>4. ReadsUpTo(Len(cache))
    BY CIsReadBack
  <2> HIDE DEF read
  <2>5. IsReadRight(read, a, "x", FALSE) <=> Expressible[a]
    BY <2>1, <2>2, <2>4 DEF ReadsUpTo, read
  <2>6. ~Is(a, "function") => (IsReadRight(read, a, "x", TRUE) <=> Expressible[a])
    BY <2>1, <2>2, <2>4 DEF ReadsUpTo, read
  <2> QED
    BY <2>3, <2>5, <2>6
<1> QED
  BY <1>1, Invariance, PTL
=============================================================================
