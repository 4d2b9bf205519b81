-------------------------- MODULE TypeOrderProofs --------------------------
(***************************************************************************)
(* Proofs about TypeOrder for every number of types and every document.    *)
(***************************************************************************)
EXTENDS TypeOrder, TLAPS

\* What add_type_dependency does: it changes one type's dependencies only.
LEMMA AddedDependency ==
    ASSUME hard \in [Types -> SUBSET Types], weak \in [Types -> SUBSET Types],
           NEW c \in Types, NEW u \in Types, NEW w,
           AddTypeDependency(c, u, w)
    PROVE  /\ hard' \in [Types -> SUBSET Types]
           /\ weak' \in [Types -> SUBSET Types]
           /\ \A t \in Types \ {c} : hard'[t] = hard[t] /\ weak'[t] = weak[t]
<1>1. CASE w = "hard"
  <2>1. /\ hard' = [hard EXCEPT ![c] = hard[c] \union {u}]
        /\ weak' = [weak EXCEPT ![c] = weak[c] \ {u}]
    BY <1>1 DEF AddTypeDependency
  <2>2. hard[c] \union {u} \in SUBSET Types /\ weak[c] \ {u} \in SUBSET Types
    OBVIOUS
  <2> QED BY <2>1, <2>2
<1>2. CASE w # "hard"
  <2> DEFINE new == IF u \in hard[c] THEN weak[c] ELSE weak[c] \union {u}
  <2>1. hard' = hard /\ weak' = [weak EXCEPT ![c] = new]
    BY <1>2 DEF AddTypeDependency
  <2>2. new \in SUBSET Types
    OBVIOUS
  <2> HIDE DEF new
  <2> QED BY <2>1, <2>2
<1> QED BY <1>1, <1>2

\* The element an action works on is a type of the document.
LEMMA ItemIsType ==
    ASSUME TypeOK, index < N
    PROVE  index \in Positions /\ Item \in Types /\ index + 1 \in 0 .. N
BY NAssumption DEF TypeOK, Item, Types, Positions

\* What rotate_decls_down does, position by position: nothing is lost.
LEMMA Rotated ==
    ASSUME NEW a \in Positions, NEW b \in Positions, a <= b,
           array \in [Positions -> Types],
           array' = RotateDeclsDown(a, b)
    PROVE  /\ array' \in [Positions -> Types]
           /\ \A i \in Positions : i < a => array'[i] = array[i]
           /\ IsPermutation(array) => IsPermutation(array')
<1> USE NAssumption DEF Positions
<1>1. \A i \in Positions : i >= a /\ i < b => i + 1 \in Positions
  OBVIOUS
<1>2. \A i \in Positions :
        array'[i] = IF i < a \/ i > b THEN array[i]
                    ELSE IF i = b THEN array[a] ELSE array[i + 1]
  BY DEF RotateDeclsDown
<1>3. array' \in [Positions -> Types]
  <2>1. \A i \in Positions : (IF i < a \/ i > b THEN array[i]
                    ELSE IF i = b THEN array[a] ELSE array[i + 1]) \in Types
    BY <1>1
  <2> QED BY <2>1 DEF RotateDeclsDown
<1>4. ASSUME IsPermutation(array) PROVE IsPermutation(array')
  <2>1. ASSUME NEW t \in Types PROVE \E i \in Positions : array'[i] = t
    <3>1. PICK k \in Positions : array[k] = t
      BY <1>4 DEF IsPermutation
    <3>2. CASE k < a \/ k > b
      BY <3>1, <3>2, <1>2
    <3>3. CASE k = a
      BY <3>1, <3>3, <1>2
    <3>4. CASE k > a /\ k <= b
      <4>1. k - 1 \in Positions /\ k - 1 >= a /\ k - 1 < b
        BY <3>4
      <4>2. array'[k - 1] = array[k - 1 + 1] /\ k - 1 + 1 = k
        BY <4>1, <1>2
      <4> QED BY <4>1, <4>2, <3>1
    <3> QED BY <3>2, <3>3, <3>4
  <2>2. ASSUME NEW i \in Positions, NEW j \in Positions, array'[i] = array'[j]
        PROVE  i = j
    <3>1. \A x, y \in Positions : array[x] = array[y] => x = y
      BY <1>4 DEF IsPermutation
    <3> DEFINE src(x) == IF x < a \/ x > b THEN x ELSE IF x = b THEN a ELSE x + 1
    <3>2. src(i) \in Positions /\ src(j) \in Positions
      BY <1>1
    <3>3. array'[i] = array[src(i)] /\ array'[j] = array[src(j)]
      BY <1>2
    <3>4. src(i) = src(j)
      BY <3>1, <3>2, <3>3, <2>2
    <3> QED BY <3>4
  <2> QED BY <2>1, <2>2 DEF IsPermutation
<1> QED BY <1>2, <1>3, <1>4

LEMMA TypeOKStep == TypeOK /\ [Next]_vars => TypeOK'
<1> USE NAssumption, DocumentsAssumption
<1> SUFFICES ASSUME TypeOK, [Next]_vars PROVE TypeOK'
  OBVIOUS
<1> USE DEF TypeOK
<1>1. CASE FetchDependency
  <2> DEFINE use == doc.uses[Item][cursor + 1]
  <2>1. Item \in Types
    BY <1>1, ItemIsType DEF FetchDependency
  <2>2. doc.uses[Item] \in Seq(Uses)
    BY <2>1 DEF Document
  <2>3. use \in Uses
    BY <1>1, <2>2 DEF FetchDependency
  <2>4. use.of \in Types
    BY <2>3 DEF Uses
  <2>5. hard' \in [Types -> SUBSET Types] /\ weak' \in [Types -> SUBSET Types]
    <3> HIDE DEF use
    <3>1. CASE use.of = Item
      BY <1>1, <3>1 DEF FetchDependency, use
    <3>2. CASE use.of # Item
      <4>1. AddTypeDependency(Item, use.of, Weakness(doc, use))
        BY <1>1, <3>2 DEF FetchDependency, use
      <4> QED BY <4>1, <2>1, <2>4, AddedDependency DEF TypeOK
    <3> QED BY <3>1, <3>2
  <2> QED BY <1>1, <2>5 DEF FetchDependency
<1>2. CASE NextContainer
  BY <1>2, ItemIsType DEF NextContainer
<1>3. ASSUME NEW last \in Positions, Advance(last) PROVE TypeOK'
  BY <1>3, ItemIsType DEF Advance
<1>4. ASSUME NEW last \in Positions, Postpone(last) PROVE TypeOK'
  <2>1. index \in Positions /\ index <= last
    BY <1>4, ItemIsType DEF Postpone, DepsOk, Positions
  <2>2. array' \in [Positions -> Types]
    BY <1>4, <2>1, Rotated DEF Postpone
  <2> QED BY <1>4, <2>2 DEF Postpone
<1>5. CASE Mark
  <2>1. forward' \subseteq Types
    BY <1>5 DEF Mark
  <2> QED BY <1>5, <2>1, ItemIsType DEF Mark
<1>6. CASE ForwardDeclare
  <2>1. Item \in Types
    BY <1>6, ItemIsType DEF ForwardDeclare
  <2>2. tags' \subseteq Types /\ names' \subseteq Types
    BY <1>6, <2>1 DEF ForwardDeclare
  <2> QED BY <1>6, <2>2, ItemIsType DEF ForwardDeclare
<1>7. CASE Define
  <2>1. Item \in Types
    BY <1>7, ItemIsType DEF Define
  <2>2. tags' \subseteq Types /\ names' \subseteq Types
    BY <1>7, <2>1 DEF Define
  <2> QED BY <1>7, <2>2, ItemIsType DEF Define
<1>8. CASE NextPhase
  BY <1>8 DEF NextPhase, Following, Phases
<1>9. CASE UNCHANGED vars
  BY <1>9 DEF vars
<1> QED BY <1>1, <1>2, <1>3, <1>4, <1>5, <1>6, <1>7, <1>8, <1>9 DEF Next

\* Type correctness of the back end's type pass (create_type_order_map and the
\* type loops of apigen_render_c).
THEOREM TypeCorrect == Spec => []TypeOK
<1>1. Init => TypeOK
  BY NAssumption DEF Init, TypeOK, Types, Positions, Phases
<1> QED BY <1>1, TypeOKStep, PTL DEF Spec

-----------------------------------------------------------------------------
(* The inductive invariant.                                                *)

\* Visiting one more use adds at most that use's target.
LEMMA UsedOneMore ==
    ASSUME NEW d, NEW t, NEW n \in Nat, NEW w
    PROVE  UsedUpTo(d, t, n + 1, w) = UsedUpTo(d, t, n, w) \union
             {u \in Types \ {t} : /\ d.uses[t][n + 1].of = u
                                  /\ Weakness(d, d.uses[t][n + 1]) = w}
<1>1. 1 .. n + 1 = (1 .. n) \union {n + 1}
  OBVIOUS
<1> QED BY <1>1 DEF UsedUpTo

LEMMA UsedNone ==
    ASSUME NEW d, NEW t, NEW w
    PROVE  UsedUpTo(d, t, 0, w) = {}
<1>1. 1 .. 0 = {}
  OBVIOUS
<1> QED BY <1>1 DEF UsedUpTo

\* Every use counts as either hard or weak.
LEMMA WeaknessIsBinary ==
    ASSUME NEW d, NEW use
    PROVE  Weakness(d, use) \in {"hard", "weak"}
BY DEF Weakness

LEMMA FetchKeepsCollected ==
    ASSUME TypeOK, CollectedSoFar, FetchDependency
    PROVE  CollectedSoFar'
<1> DEFINE use == doc.uses[Item][cursor + 1]
           u == use.of
<1>1. Item \in Types /\ index \in Positions /\ cursor \in Nat
  BY ItemIsType DEF FetchDependency, TypeOK
<1>2. Item = index
  BY <1>1 DEF CollectedSoFar, FetchDependency, Item
<1>3. doc.uses[Item] \in Seq(Uses)
  BY <1>1, DocumentsAssumption DEF Document, TypeOK
<1>4. cursor < Len(doc.uses[Item]) /\ use \in Uses
  BY <1>1, <1>3 DEF FetchDependency
<1>5. u \in Types
  BY <1>4 DEF Uses
<1>6. UNCHANGED <<doc, array, index, phase>> /\ cursor' = cursor + 1
  BY DEF FetchDependency
<1>7. \A t \in Types \ {Item} : VisitedUses(t)' = VisitedUses(t)
  BY <1>2, <1>6 DEF VisitedUses
<1>8. /\ VisitedUses(Item) = cursor
      /\ VisitedUses(Item)' = cursor + 1
  BY <1>1, <1>2, <1>6, NAssumption DEF VisitedUses, Item, Types
<1>9. /\ hard[Item] = UsedUpTo(doc, Item, cursor, "hard")
      /\ weak[Item] = UsedUpTo(doc, Item, cursor, "weak") \ hard[Item]
  BY <1>1, <1>8 DEF CollectedSoFar, FetchDependency
<1> DEFINE Added(w) == {v \in Types \ {Item} : use.of = v /\ Weakness(doc, use) = w}
<1>10. \A w \in {"hard", "weak"} :
         UsedUpTo(doc, Item, cursor + 1, w) = UsedUpTo(doc, Item, cursor, w) \union Added(w)
  BY <1>1, UsedOneMore
<1>11. /\ hard'[Item] = UsedUpTo(doc, Item, cursor + 1, "hard")
       /\ weak'[Item] = UsedUpTo(doc, Item, cursor + 1, "weak") \ hard'[Item]
       /\ \A t \in Types \ {Item} : hard'[t] = hard[t] /\ weak'[t] = weak[t]
  <2>1. CASE u = Item
    <3>1. UNCHANGED <<hard, weak>>
      BY <2>1 DEF FetchDependency
    <3>2. Added("hard") = {} /\ Added("weak") = {}
      BY <2>1
    <3> QED BY <3>1, <3>2, <1>9, <1>10
  <2>2. CASE u # Item
    <3>1. AddTypeDependency(Item, u, Weakness(doc, use))
      BY <2>2 DEF FetchDependency
    <3>2. \A t \in Types \ {Item} : hard'[t] = hard[t] /\ weak'[t] = weak[t]
      BY <3>1, <1>1, <1>5, AddedDependency DEF TypeOK
    <3>3. CASE Weakness(doc, use) = "hard"
      <4>1. Added("hard") = {u} /\ Added("weak") = {}
        BY <3>3, <2>2, <1>5
      <4>2. hard'[Item] = hard[Item] \union {u} /\ weak'[Item] = weak[Item] \ {u}
        BY <3>1, <3>3, <1>1 DEF AddTypeDependency, TypeOK
      <4> HIDE DEF use, Added
      <4> QED BY <3>2, <4>1, <4>2, <1>9, <1>10
    <3>4. CASE Weakness(doc, use) # "hard"
      <4>1. Added("weak") = {u} /\ Added("hard") = {}
        BY <3>4, <2>2, <1>5, WeaknessIsBinary
      <4>2. /\ hard'[Item] = hard[Item]
            /\ weak'[Item] = IF u \in hard[Item] THEN weak[Item]
                             ELSE weak[Item] \union {u}
        BY <3>1, <3>4, <1>1 DEF AddTypeDependency, TypeOK
      <4> HIDE DEF use, Added
      <4> QED BY <3>2, <4>1, <4>2, <1>9, <1>10
    <3> QED BY <3>3, <3>4
  <2> QED BY <2>1, <2>2
<1>12. CollectedSoFar => array = [i \in Positions |-> i]
  BY DEF CollectedSoFar, FetchDependency
<1>13. ASSUME NEW t \in Types
       PROVE  /\ VisitedUses(t)' <= Len(doc.uses[t])
              /\ hard'[t] = UsedUpTo(doc, t, VisitedUses(t)', "hard")
              /\ weak'[t] = UsedUpTo(doc, t, VisitedUses(t)', "weak") \ hard'[t]
  <2>1. CASE t = Item
    <3>1. cursor + 1 <= Len(doc.uses[Item])
      BY <1>1, <1>3, <1>4
    <3>2. VisitedUses(t)' = cursor + 1
      BY <2>1, <1>8, <1>6 DEF Item
    <3> QED BY <2>1, <3>1, <3>2, <1>11
  <2>2. CASE t # Item
    BY <2>2, <1>7, <1>11 DEF CollectedSoFar, FetchDependency
  <2> QED BY <2>1, <2>2
<1> QED BY <1>6, <1>12, <1>13 DEF CollectedSoFar

\* When the collecting loop is over, every use of every type has been visited.
LEMMA CollectedAll ==
    ASSUME TypeOK, CollectedSoFar, phase = "collect", index = N
    PROVE  \A t \in Types : hard[t] = HardUses(doc, t) /\ weak[t] = WeakUses(doc, t)
<1> SUFFICES ASSUME NEW t \in Types
             PROVE  hard[t] = HardUses(doc, t) /\ weak[t] = WeakUses(doc, t)
  OBVIOUS
<1>1. VisitedUses(t) = Len(doc.uses[t])
  BY NAssumption DEF VisitedUses, Types
<1> QED BY <1>1 DEF CollectedSoFar, HardUses, WeakUses

\* The identity is a permutation, so the loops start from one.
LEMMA InitHolds == Init => IInv
<1> SUFFICES ASSUME Init PROVE IInv
  OBVIOUS
<1> USE NAssumption DEF Init
<1>1. TypeOK
  BY DEF TypeOK, Types, Positions, Phases
<1>2. CollectedSoFar
  <2> SUFFICES ASSUME NEW t \in Types
               PROVE  /\ VisitedUses(t) <= Len(doc.uses[t])
                      /\ hard[t] = UsedUpTo(doc, t, VisitedUses(t), "hard")
                      /\ weak[t] = UsedUpTo(doc, t, VisitedUses(t), "weak") \ hard[t]
    BY DEF CollectedSoFar
  <2>1. VisitedUses(t) = 0
    BY DEF VisitedUses, Types
  <2>2. doc.uses[t] \in Seq(Uses)
    BY DocumentsAssumption DEF Document
  <2> QED BY <2>1, <2>2, UsedNone
<1>3. NoTypeLost
  BY DEF NoTypeLost, IsPermutation, Types, Positions
<1> QED BY <1>1, <1>2, <1>3
        DEF IInv, DependenciesAreStrongest, PlacedTypesAreOrdered, Ordered,
            MarkedInTime, ForwardIsNeeded, Marked, PrintedSoFar

LEMMA FetchDependencyStep == IInv /\ FetchDependency => IInv'
<1> SUFFICES ASSUME IInv, FetchDependency PROVE IInv'
  OBVIOUS
<1>1. TypeOK' /\ CollectedSoFar'
  BY TypeOKStep, FetchKeepsCollected DEF IInv, Next
<1> QED BY <1>1
        DEF IInv, FetchDependency, DependenciesAreStrongest, NoTypeLost,
            PlacedTypesAreOrdered, Ordered, MarkedInTime, ForwardIsNeeded, Marked,
            PrintedSoFar, IsPermutation

LEMMA NextContainerStep == IInv /\ NextContainer => IInv'
<1> SUFFICES ASSUME IInv, NextContainer PROVE IInv'
  OBVIOUS
<1>1. TypeOK'
  BY TypeOKStep DEF IInv, Next
<1>2. CollectedSoFar'
  <2>1. index \in Positions /\ Item = index
    BY ItemIsType DEF IInv, NextContainer, CollectedSoFar, Item
  <2>2. ASSUME NEW t \in Types PROVE VisitedUses(t)' = VisitedUses(t)
    <3>1. doc.uses[t] \in Seq(Uses)
      BY DocumentsAssumption DEF Document, IInv, TypeOK
    <3> QED BY <2>1, <3>1, NAssumption DEF NextContainer, VisitedUses, Types, Positions
  <2> QED BY <2>2 DEF IInv, CollectedSoFar, NextContainer
<1> QED BY <1>1, <1>2
        DEF IInv, NextContainer, DependenciesAreStrongest, NoTypeLost,
            PlacedTypesAreOrdered, Ordered, MarkedInTime, ForwardIsNeeded, Marked,
            PrintedSoFar, IsPermutation

LEMMA AdvanceStep ==
    ASSUME IInv, NEW last \in Positions, Advance(last) PROVE IInv'
<1>1. TypeOK'
  BY TypeOKStep DEF IInv, Next
<1>2. index \in Positions /\ Item \in Types
  BY ItemIsType DEF IInv, Advance
<1>3. \A u \in HardUses(doc, Item) : \E j \in Positions : j < index /\ array[j] = u
  <2> SUFFICES ASSUME NEW u \in HardUses(doc, Item)
               PROVE  \E j \in Positions : j < index /\ array[j] = u
    OBVIOUS
  <2>1. u \in hard[Item] /\ u \in Types
    BY <1>2 DEF IInv, Advance, DependenciesAreStrongest, HardUses, UsedUpTo
  <2>2. PICK j \in Positions : array[j] = u
    BY <2>1 DEF IInv, NoTypeLost, IsPermutation
  <2>3. j <= last /\ last < index
    BY <2>1, <2>2 DEF Advance, IsDepLast, DepsOk
  <2> QED BY <1>2, <2>2, <2>3 DEF Positions
<1>4. OrderedUpTo(doc, array, index + 1)
  <2> SUFFICES ASSUME NEW i \in Positions, i < index + 1, NEW u \in HardUses(doc, array[i])
               PROVE  \E j \in Positions : j < i /\ array[j] = u
    BY DEF OrderedUpTo
  <2>1. CASE i < index
    BY <2>1 DEF IInv, PlacedTypesAreOrdered, OrderedUpTo, Advance
  <2>2. CASE i = index
    BY <2>2, <1>3 DEF Item
  <2> QED BY <1>2, <2>1, <2>2 DEF Positions
<1> QED BY <1>1, <1>4
        DEF IInv, Advance, CollectedSoFar, DependenciesAreStrongest, NoTypeLost,
            PlacedTypesAreOrdered, Ordered, MarkedInTime, ForwardIsNeeded, Marked,
            PrintedSoFar, IsPermutation, HardUses, WeakUses, OrderedUpTo

\* A rotation starts at the position being filled: what is placed stays placed.
LEMMA PostponeStep ==
    ASSUME IInv, NEW last \in Positions, Postpone(last) PROVE IInv'
<1>1. TypeOK'
  BY TypeOKStep DEF IInv, Next
<1>2. index \in Positions /\ index <= last
  BY ItemIsType DEF IInv, TypeOK, Postpone, DepsOk, Positions
<1>3. /\ \A i \in Positions : i < index => array'[i] = array[i]
      /\ IsPermutation(array')
  BY <1>2, Rotated DEF IInv, TypeOK, NoTypeLost, Postpone
<1>4. OrderedUpTo(doc, array', index)
  <2> SUFFICES ASSUME NEW i \in Positions, i < index, NEW u \in HardUses(doc, array'[i])
               PROVE  \E j \in Positions : j < i /\ array'[j] = u
    BY DEF OrderedUpTo
  <2>1. u \in HardUses(doc, array[i])
    BY <1>3
  <2>2. PICK j \in Positions : j < i /\ array[j] = u
    BY <2>1 DEF IInv, Postpone, PlacedTypesAreOrdered, OrderedUpTo
  <2>3. array'[j] = array[j]
    BY <1>2, <1>3, <2>2 DEF Positions
  <2> QED BY <2>2, <2>3
<1> QED BY <1>1, <1>3, <1>4
        DEF IInv, Postpone, CollectedSoFar, DependenciesAreStrongest, NoTypeLost,
            PlacedTypesAreOrdered, Ordered, MarkedInTime, ForwardIsNeeded, Marked,
            PrintedSoFar, HardUses, WeakUses

LEMMA MarkStep == IInv /\ Mark => IInv'
<1> SUFFICES ASSUME IInv, Mark PROVE IInv'
  OBVIOUS
<1>1. TypeOK'
  BY TypeOKStep DEF IInv, Next
<1>2. index \in Positions /\ Item \in Types
  BY ItemIsType DEF IInv, Mark
<1>3. weak[Item] = WeakUses(doc, Item)
  BY <1>2 DEF IInv, Mark, DependenciesAreStrongest
<1>4. forward = PointedToEarly(doc, array, index)
  BY DEF IInv, Mark, ForwardIsNeeded
<1>5. forward' = PointedToEarly(doc, array, index + 1)
  <2>1. ASSUME NEW u \in forward' PROVE u \in PointedToEarly(doc, array, index + 1)
    <3>1. CASE u \in forward
      BY <1>2, <1>4, <3>1 DEF PointedToEarly, Positions
    <3>2. CASE u \notin forward
      <4>1. PICK k \in Positions : k > index /\ array[k] \in weak[Item] /\ u = array[k]
        BY <2>1, <3>2 DEF Mark
      <4>2. index < index + 1 /\ index < k /\ u \in WeakUses(doc, array[index])
        BY <1>2, <1>3, <4>1 DEF Item, Positions
      <4>3. u \in Types
        BY <4>1 DEF IInv, TypeOK
      <4> QED BY <1>2, <4>1, <4>2, <4>3 DEF PointedToEarly
    <3> QED BY <3>1, <3>2
  <2>2. ASSUME NEW u \in PointedToEarly(doc, array, index + 1) PROVE u \in forward'
    <3>1. PICK i \in Positions, j \in Positions :
             i < index + 1 /\ i < j /\ array[j] = u /\ u \in WeakUses(doc, array[i])
      BY <2>2 DEF PointedToEarly
    <3>2. CASE i < index
      BY <2>2, <3>1, <3>2, <1>4 DEF Mark, PointedToEarly
    <3>3. CASE i = index
      BY <3>1, <3>3, <1>3 DEF Mark, Item
    <3> QED BY <1>2, <3>1, <3>2, <3>3 DEF Positions
  <2> QED BY <2>1, <2>2
<1> QED BY <1>1, <1>5
        DEF IInv, Mark, CollectedSoFar, DependenciesAreStrongest, NoTypeLost,
            PlacedTypesAreOrdered, Ordered, MarkedInTime, ForwardIsNeeded, Marked,
            PrintedSoFar, HardUses, WeakUses, IsPermutation

LEMMA ForwardDeclareStep == IInv /\ ForwardDeclare => IInv'
<1> SUFFICES ASSUME IInv, ForwardDeclare PROVE IInv'
  OBVIOUS
<1>1. TypeOK'
  BY TypeOKStep DEF IInv, Next
<1>2. index \in Positions
  BY ItemIsType DEF IInv, ForwardDeclare
<1>3. \A i \in Positions : i < index + 1 /\ array[i] \in forward => Announced(array[i])'
  <2> SUFFICES ASSUME NEW i \in Positions, i < index + 1, array[i] \in forward
               PROVE  Announced(array[i])'
    OBVIOUS
  <2>1. CASE i < index
    <3>1. Announced(array[i])
      BY <2>1 DEF IInv, ForwardDeclare, PrintedSoFar
    <3> QED BY <3>1 DEF ForwardDeclare, Announced
  <2>2. CASE i = index
    BY <2>2 DEF ForwardDeclare, Announced, Item
  <2> QED BY <1>2, <2>1, <2>2 DEF Positions
<1>4. PrintedSoFar'
  BY <1>3 DEF ForwardDeclare, PrintedSoFar, Announced
<1> QED BY <1>1, <1>4
        DEF IInv, ForwardDeclare, CollectedSoFar, DependenciesAreStrongest, NoTypeLost,
            PlacedTypesAreOrdered, Ordered, MarkedInTime, ForwardIsNeeded, Marked,
            HardUses, WeakUses, IsPermutation

LEMMA DefineStep == IInv /\ Define => IInv'
<1> SUFFICES ASSUME IInv, Define PROVE IInv'
  OBVIOUS
<1>1. TypeOK'
  BY TypeOKStep DEF IInv, Next
<1>2. index \in Positions
  BY ItemIsType DEF IInv, Define
<1>3. names \subseteq names' /\ tags \subseteq tags'
  BY DEF Define
<1>4. \A i \in Positions : /\ array[i] \in forward => Announced(array[i])'
                           /\ i < index + 1 => Defined(array[i])'
  <2> SUFFICES ASSUME NEW i \in Positions
               PROVE  /\ array[i] \in forward => Announced(array[i])'
                      /\ i < index + 1 => Defined(array[i])'
    OBVIOUS
  <2>1. array[i] \in forward => Announced(array[i])'
    BY <1>3 DEF IInv, Define, PrintedSoFar, Announced
  <2>2. CASE i < index
    BY <1>3, <2>1, <2>2 DEF IInv, Define, PrintedSoFar, Defined
  <2>3. CASE i = index
    BY <2>1, <2>3 DEF Define, Defined, Item
  <2> QED BY <1>2, <2>1, <2>2, <2>3 DEF Positions
<1>5. PrintedSoFar'
  BY <1>4 DEF Define, PrintedSoFar, Announced, Defined
<1> QED BY <1>1, <1>5
        DEF IInv, Define, CollectedSoFar, DependenciesAreStrongest, NoTypeLost,
            PlacedTypesAreOrdered, Ordered, MarkedInTime, ForwardIsNeeded, Marked,
            HardUses, WeakUses, IsPermutation

LEMMA NextPhaseStep == IInv /\ NextPhase => IInv'
<1> SUFFICES ASSUME IInv, NextPhase PROVE IInv'
  OBVIOUS
<1> USE DEF NextPhase, Following
<1>1. TypeOK'
  BY TypeOKStep DEF IInv, Next
<1>2. IsPermutation(array)'
  BY DEF IInv, NoTypeLost, IsPermutation
<1>3. CASE phase = "collect"
  <2>1. \A t \in Types : hard[t] = HardUses(doc, t) /\ weak[t] = WeakUses(doc, t)
    BY <1>3, CollectedAll DEF IInv
  <2>2. OrderedUpTo(doc, array, 0)
    BY DEF OrderedUpTo, Positions
  <2> QED BY <1>1, <1>2, <1>3, <2>1, <2>2
          DEF IInv, CollectedSoFar, DependenciesAreStrongest, NoTypeLost,
              PlacedTypesAreOrdered, Ordered, MarkedInTime, ForwardIsNeeded, Marked,
              PrintedSoFar
<1>4. CASE phase = "order"
  <2>1. PointedToEarly(doc, array, 0) = {}
    BY DEF PointedToEarly, Positions
  <2> QED BY <1>1, <1>2, <1>4, <2>1
          DEF IInv, CollectedSoFar, DependenciesAreStrongest, NoTypeLost,
              PlacedTypesAreOrdered, Ordered, MarkedInTime, ForwardIsNeeded, Marked,
              PrintedSoFar
<1>5. CASE phase = "mark"
  <2>1. \A i \in Positions : ~(i < 0)
    BY DEF Positions
  <2> QED BY <1>1, <1>2, <1>5, <2>1
          DEF IInv, CollectedSoFar, DependenciesAreStrongest, NoTypeLost,
              PlacedTypesAreOrdered, Ordered, MarkedInTime, ForwardIsNeeded, Marked,
              PrintedSoFar
<1>6. CASE phase = "forward"
  <2>1. \A i \in Positions : i < index /\ ~(i < 0)
    BY <1>6, NAssumption DEF Positions
  <2> QED BY <1>1, <1>2, <1>6, <2>1
          DEF IInv, CollectedSoFar, DependenciesAreStrongest, NoTypeLost,
              PlacedTypesAreOrdered, Ordered, MarkedInTime, ForwardIsNeeded, Marked,
              PrintedSoFar, Announced
<1>7. CASE phase = "define"
  BY <1>1, <1>2, <1>7
     DEF IInv, CollectedSoFar, DependenciesAreStrongest, NoTypeLost,
         PlacedTypesAreOrdered, Ordered, MarkedInTime, ForwardIsNeeded, Marked,
         PrintedSoFar
<1> QED BY <1>3, <1>4, <1>5, <1>6, <1>7 DEF IInv, TypeOK, Phases

LEMMA StutterStep == IInv /\ UNCHANGED vars => IInv'
BY DEF vars, IInv, TypeOK, CollectedSoFar, VisitedUses, DependenciesAreStrongest,
       NoTypeLost, PlacedTypesAreOrdered, Ordered, MarkedInTime, ForwardIsNeeded,
       Marked, PrintedSoFar, Announced, Defined

LEMMA StepKeepsIInv == IInv /\ [Next]_vars => IInv'
BY FetchDependencyStep, NextContainerStep, AdvanceStep, PostponeStep, MarkStep,
   ForwardDeclareStep, DefineStep, NextPhaseStep, StutterStep DEF Next

\* The invariant holds in every reachable state, for every document.
THEOREM Invariance == Spec => []IInv
BY InitHolds, StepKeepsIInv, PTL DEF Spec

-----------------------------------------------------------------------------
(* What the invariant gives.                                               *)

\* The dependency lists hold every used type once, with its strongest weakness
\* (fetch_dependencies, add_type_dependency).
THEOREM StrongestDependencies == Spec => []DependenciesAreStrongest
BY Invariance, PTL DEF IInv

\* However often rotate_decls_down runs, no type is lost or printed twice.
THEOREM TypesAreKept == Spec => []NoTypeLost
BY Invariance, PTL DEF IInv

\* Whatever the ordering loop of create_type_order_map has placed is in order
\* of by-value use, for every document and even if the loop never ends.
THEOREM PlacedInOrder == Spec => []PlacedTypesAreOrdered
BY Invariance, PTL DEF IInv

\* requires_forward_decl is set for exactly the types that need it.
THEOREM ForwardExactly == Spec => []ForwardIsNeeded
BY Invariance, PTL DEF IInv

\* The typedef printed next uses by value only types already defined in the C
\* text (the last loop over types of apigen_render_c).
THEOREM DefinedBeforeUse == Spec => DefinedBeforeUsedByValue
<1> DEFINE A == phase = "define" =>
                  \A t \in names' \ names : HardUses(doc, t) \subseteq names
<1>1. IInv /\ [Next]_vars => [A]_vars
  <2> SUFFICES ASSUME IInv, Next, phase = "define",
                      NEW t \in names' \ names, NEW u \in HardUses(doc, t)
               PROVE  u \in names
    BY DEF vars
  <2>1. Define
    BY DEF Next, FetchDependency, NextContainer, Advance, Postpone, Mark,
           ForwardDeclare, NextPhase
  <2>2. t = Item /\ index \in Positions
    BY <2>1, ItemIsType DEF Define, IInv
  <2>3. OrderedUpTo(doc, array, N)
    BY DEF IInv, PlacedTypesAreOrdered, Ordered
  <2>4. PICK j \in Positions : j < index /\ array[j] = u
    BY <2>1, <2>2, <2>3 DEF OrderedUpTo, Item, Define
  <2>5. Defined(array[j])
    BY <2>4 DEF IInv, PrintedSoFar
  <2> QED BY <2>4, <2>5 DEF Defined
<1> QED BY <1>1, Invariance, PTL DEF Spec, DefinedBeforeUsedByValue

\* The typedef printed next points only to types the C text declares already,
\* enums excepted: forward declarations suffice for structs, unions and opaque
\* types.
THEOREM DeclaredBeforeUse == Spec => DeclaredUnlessEnum
<1> DEFINE A == phase = "define" =>
                  \A t \in names' \ names : \A u \in WeakUses(doc, t) :
                     doc.kind[u] # "enum" => InScope(u)
<1>1. IInv /\ [Next]_vars => [A]_vars
  <2> SUFFICES ASSUME IInv, Next, phase = "define",
                      NEW t \in names' \ names, NEW u \in WeakUses(doc, t),
                      doc.kind[u] # "enum"
               PROVE  InScope(u)
    BY DEF vars
  <2>1. Define
    BY DEF Next, FetchDependency, NextContainer, Advance, Postpone, Mark,
           ForwardDeclare, NextPhase
  <2>2. t = Item /\ index \in Positions /\ index < N
    BY <2>1, ItemIsType DEF Define, IInv
  <2>3. u \in Types /\ u # t /\ doc.kind[u] \in {"struct", "opaque"}
    <3>1. u \in Types \ {t}
      BY DEF WeakUses, UsedUpTo
    <3>2. PICK k \in 1 .. Len(doc.uses[t]) :
             doc.uses[t][k].of = u /\ Weakness(doc, doc.uses[t][k]) = "weak"
      BY DEF WeakUses, UsedUpTo
    <3>3. doc.kind[u] # "alias"
      BY <3>2 DEF Weakness
    <3>4. doc.kind[u] \in Kinds
      BY <3>1, DocumentsAssumption DEF IInv, TypeOK, Document
    <3> QED BY <3>1, <3>3, <3>4 DEF Kinds
  <2>4. PICK j \in Positions : array[j] = u
    BY <2>3 DEF IInv, NoTypeLost, IsPermutation
  <2>5. CASE j < index
    <3>1. Defined(u)
      BY <2>4, <2>5 DEF IInv, PrintedSoFar
    <3> QED BY <3>1 DEF Defined, InScope
  <2>6. CASE index < j
    <3>1. u \in PointedToEarly(doc, array, N)
      BY <2>2, <2>3, <2>4, <2>6 DEF PointedToEarly, Item
    <3>2. Announced(u)
      BY <2>4, <3>1 DEF IInv, ForwardIsNeeded, Marked, PrintedSoFar
    <3> QED BY <2>3, <3>2 DEF Announced, InScope
  <2>7. j # index
    BY <2>2, <2>3, <2>4 DEF Item
  <2> QED BY <2>2, <2>5, <2>6, <2>7 DEF Positions
<1> QED BY <1>1, Invariance, PTL DEF Spec, DeclaredUnlessEnum

-----------------------------------------------------------------------------
(* The detailed pass implements the one-step promise.                      *)

LEMMA PromiseInit == Init => Promise!Init
BY DEF Init, Marked, Promise!Init, Promise!Positions, Positions

\* The promise speaks of the same document and the same positions.
LEMMA SamePromise ==
    /\ Promise!Positions = Positions /\ Promise!Types = Types
    /\ \A o : Promise!IsPermutation(o) <=> IsPermutation(o)
    /\ \A d, o, n : Promise!OrderedUpTo(d, o, n) <=> OrderedUpTo(d, o, n)
    /\ \A d, o, n : Promise!PointedToEarly(d, o, n) = PointedToEarly(d, o, n)
<1>1. Promise!Positions = Positions /\ Promise!Types = Types
  BY DEF Promise!Positions, Promise!Types, Positions, Types
<1>2. \A d, t, n, w : Promise!UsedUpTo(d, t, n, w) = UsedUpTo(d, t, n, w)
  BY <1>1 DEF Promise!UsedUpTo, UsedUpTo, Promise!Weakness, Weakness
<1>3. \A d, t : /\ Promise!HardUses(d, t) = HardUses(d, t)
                /\ Promise!WeakUses(d, t) = WeakUses(d, t)
  BY <1>2 DEF Promise!HardUses, HardUses, Promise!WeakUses, WeakUses
<1>4. \A o : Promise!IsPermutation(o) <=> IsPermutation(o)
  BY <1>1 DEF Promise!IsPermutation, IsPermutation
<1>5. \A d, o, n : Promise!OrderedUpTo(d, o, n) <=> OrderedUpTo(d, o, n)
  BY <1>1, <1>3 DEF Promise!OrderedUpTo, OrderedUpTo
<1>6. \A d, o, n : Promise!PointedToEarly(d, o, n) = PointedToEarly(d, o, n)
  BY <1>1, <1>3 DEF Promise!PointedToEarly, PointedToEarly
<1> QED BY <1>1, <1>4, <1>5, <1>6

LEMMA PromiseStep ==
    ASSUME IInv, [Next]_vars
    PROVE  Promise!Publish \/ UNCHANGED <<doc,
             IF Marked THEN array ELSE [i \in Positions |-> i],
             IF Marked THEN forward ELSE {}, Marked>>
<1> DEFINE same == UNCHANGED <<doc,
             IF Marked THEN array ELSE [i \in Positions |-> i],
             IF Marked THEN forward ELSE {}, Marked>>
<1>1. CASE NextPhase /\ phase = "mark"
  <2>1. ~Marked /\ Marked' /\ UNCHANGED <<doc, array, forward>>
    BY <1>1 DEF NextPhase, Following, Marked
  <2>2. IInv'
    BY StepKeepsIInv
  <2>3. /\ array' \in [Positions -> Types]
        /\ IsPermutation(array')
        /\ OrderedUpTo(doc, array', N)
        /\ forward' = PointedToEarly(doc, array', N)
    BY <2>1, <2>2 DEF IInv, TypeOK, NoTypeLost, PlacedTypesAreOrdered, Ordered,
                      Marked, ForwardIsNeeded
  <2> DEFINE order == IF Marked THEN array ELSE [i \in Positions |-> i]
  <2>4. order' = array' /\ (IF Marked THEN forward ELSE {})' = forward'
    BY <2>1
  <2>5. /\ array' \in [Promise!Positions -> Promise!Types]
        /\ Promise!IsPermutation(array')
        /\ Promise!OrderedUpTo(doc, array', N)
        /\ forward' = Promise!PointedToEarly(doc, array', N)
    BY <2>3, SamePromise
  <2> QED BY <2>1, <2>4, <2>5 DEF Promise!Publish
<1>2. CASE NextPhase /\ phase # "mark"
  BY <1>2 DEF NextPhase, Following, Marked, IInv, TypeOK, Phases
<1>3. CASE FetchDependency \/ NextContainer
  BY <1>3 DEF FetchDependency, NextContainer, Marked
<1>4. CASE \E last \in Positions : Advance(last) \/ Postpone(last)
  BY <1>4 DEF Advance, Postpone, Marked
<1>5. CASE Mark
  BY <1>5 DEF Mark, Marked
<1>6. CASE ForwardDeclare \/ Define
  BY <1>6 DEF ForwardDeclare, Define, Marked
<1>7. CASE UNCHANGED vars
  BY <1>7 DEF vars, Marked
<1> QED BY <1>1, <1>2, <1>3, <1>4, <1>5, <1>6, <1>7 DEF Next

\* Collecting, rotating and marking together are one atomic choice of a correct
\* order and of exactly the forward declarations it needs.
THEOREM Refinement == Spec => ImplementsDeclarationOrder
<1>1. IInv /\ [Next]_vars => [Promise!Publish]_<<doc,
             IF Marked THEN array ELSE [i \in Positions |-> i],
             IF Marked THEN forward ELSE {}, Marked>>
  BY PromiseStep
<1> QED BY PromiseInit, <1>1, Invariance, PTL
        DEF Spec, ImplementsDeclarationOrder, Promise!Spec
=============================================================================
