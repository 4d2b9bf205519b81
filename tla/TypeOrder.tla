----------------------------- MODULE TypeOrder -----------------------------
(***************************************************************************)
(* The C back end's type ordering and type emission                        *)
(* (src/gen/c_cpp.c: fetch_dependencies .. create_type_order_map and the   *)
(* two type loops of apigen_render_c).                                     *)
(*                                                                         *)
(* A C declaration may use a type by value only after its definition, and  *)
(* through a pointer once it is at least forward declared.  The back end   *)
(* therefore permutes the document's types, one rotation at a time, marks  *)
(* the types that need a forward declaration, then prints both.            *)
(*                                                                         *)
(* Positions are numbered from 0, as in the code.                          *)
(***************************************************************************)
EXTENDS TypeUses

VARIABLES
    doc,        \* the input document; never changes
    array,      \* array[i] is the type at position i of the TypeDeclSpec array
    hard, weak, \* the DEP_HARD and the DEP_WEAK dependencies of each type
    forward,    \* the types with requires_forward_decl
    phase,      \* which loop of the back end runs
    index,      \* the loop's position in array
    cursor,     \* during "collect": uses of array[index] already visited
    tags,       \* struct and enum tags the emitted C text has declared
    names       \* ordinary identifiers (typedef names) it has declared

vars == <<doc, array, hard, weak, forward, phase, index, cursor, tags, names>>

Phases == {"collect", "order", "mark", "forward", "define", "done"}

Init ==
    /\ doc \in Documents
    /\ array = [i \in Positions |-> i]
    /\ hard = [t \in Types |-> {}]
    /\ weak = [t \in Types |-> {}]
    /\ forward = {}
    /\ phase = "collect"
    /\ index = 0
    /\ cursor = 0
    /\ tags = {}
    /\ names = {}

Item == array[index]

-----------------------------------------------------------------------------
(* Phase 1: collect the dependencies of every type.                        *)

\* Mutated form: a known dependency is kept as it is.
AddTypeDependencyOnce(container, type, weakness) ==
    IF type \in hard[container] \union weak[container]
    THEN UNCHANGED <<hard, weak>>
    ELSE IF weakness = "hard"
    THEN hard' = [hard EXCEPT ![container] = @ \union {type}] /\ UNCHANGED weak
    ELSE weak' = [weak EXCEPT ![container] = @ \union {type}] /\ UNCHANGED hard

\* A known dependency is kept, or made hard when this use is harder.
AddTypeDependency(container, type, weakness) ==
    IF weakness = "hard"
    THEN /\ hard' = [hard EXCEPT ![container] = @ \union {type}]
         /\ weak' = [weak EXCEPT ![container] = @ \ {type}]
    ELSE /\ weak' = [weak EXCEPT ![container] =
                        IF type \in hard[container] THEN @ ELSE @ \union {type}]
         /\ UNCHANGED hard

\* One named type reached by fetch_dependencies; a self reference is ignored.
FetchDependency ==
    /\ phase = "collect" /\ index < N
    /\ cursor < Len(doc.uses[Item])
    /\ LET use == doc.uses[Item][cursor + 1]
       IN  IF use.of = Item
           THEN UNCHANGED <<hard, weak>>
           ELSE AddTypeDependency(Item, use.of, Weakness(doc, use))
    /\ cursor' = cursor + 1
    /\ UNCHANGED <<doc, array, forward, phase, index, tags, names>>

NextContainer ==
    /\ phase = "collect" /\ index < N
    /\ cursor = Len(doc.uses[Item])
    /\ index' = index + 1
    /\ cursor' = 0
    /\ UNCHANGED <<doc, array, hard, weak, forward, phase, tags, names>>

-----------------------------------------------------------------------------
(* Phase 2: move every type behind the last of its hard dependencies.      *)

\* dep_last: the greatest position of a hard dependency, 0 when there is none.
IsDepLast(last) ==
    /\ last = 0 \/ array[last] \in hard[Item]
    /\ \A j \in Positions : array[j] \in hard[Item] => j <= last

DepsOk(last) == hard[Item] \union weak[Item] = {} \/ last < index

Advance(last) ==
    /\ phase = "order" /\ index < N
    /\ IsDepLast(last) /\ DepsOk(last)
    /\ index' = index + 1
    /\ UNCHANGED <<doc, array, hard, weak, forward, phase, cursor, tags, names>>

\* Mutated forms: the element at `start` is not saved before it is overwritten;
\* the range excludes its end.
RotateWithoutSaving(start, end) ==
    [i \in Positions |-> IF i < start \/ i >= end THEN array[i] ELSE array[i + 1]]

RotateExclusively(start, end) ==
    [i \in Positions |-> IF i < start \/ i >= end THEN array[i]
                         ELSE IF i = end - 1 THEN array[start]
                         ELSE array[i + 1]]

\* The array with the element at `start` moved to `end`, those between moved up.
RotateDeclsDown(start, end) ==
    [i \in Positions |-> IF i < start \/ i > end THEN array[i]
                         ELSE IF i = end THEN array[start]
                         ELSE array[i + 1]]

Postpone(last) ==
    /\ phase = "order" /\ index < N
    /\ IsDepLast(last) /\ ~DepsOk(last)
    /\ array' = RotateDeclsDown(index, last)
    /\ UNCHANGED <<doc, hard, weak, forward, phase, index, cursor, tags, names>>

-----------------------------------------------------------------------------
(* Phase 3: request a forward declaration for weak dependencies that are   *)
(* defined later.                                                          *)

\* Mutated form: the loop steps twice.
MarkEverySecond ==
    /\ phase = "mark" /\ index < N
    /\ forward' = forward \union
          {array[j] : j \in {k \in Positions : k > index /\ array[k] \in weak[Item]}}
    /\ index' = index + 2
    /\ UNCHANGED <<doc, array, hard, weak, phase, cursor, tags, names>>

Mark ==
    /\ phase = "mark" /\ index < N
    /\ forward' = forward \union
          {array[j] : j \in {k \in Positions : k > index /\ array[k] \in weak[Item]}}
    /\ index' = index + 1
    /\ UNCHANGED <<doc, array, hard, weak, phase, cursor, tags, names>>

-----------------------------------------------------------------------------
(* apigen_render_c: print the forward declarations, then the typedefs.     *)

\* Mutated form: opaque types are declared by "struct T;" as well.
ForwardDeclareTag ==
    /\ phase = "forward" /\ index < N
    /\ tags' = IF Item \in forward THEN tags \union {Item} ELSE tags
    /\ index' = index + 1
    /\ UNCHANGED <<doc, array, hard, weak, forward, phase, cursor, names>>

\* "struct T;" and "enum T;" declare a tag, "typedef void T;" declares a name.
ForwardDeclare ==
    /\ phase = "forward" /\ index < N
    /\ IF Item \in forward
       THEN IF doc.kind[Item] = "opaque"
            THEN names' = names \union {Item} /\ UNCHANGED tags
            ELSE tags' = tags \union {Item} /\ UNCHANGED names
       ELSE UNCHANGED <<tags, names>>
    /\ index' = index + 1
    /\ UNCHANGED <<doc, array, hard, weak, forward, phase, cursor>>

\* "typedef struct T { .. } T;" declares tag and name, "typedef enum { .. } T;"
\* and the other typedefs the name only.
Define ==
    /\ phase = "define" /\ index < N
    /\ names' = names \union {Item}
    /\ tags' = IF doc.kind[Item] = "struct" THEN tags \union {Item} ELSE tags
    /\ index' = index + 1
    /\ UNCHANGED <<doc, array, hard, weak, forward, phase, cursor>>

Following == [collect |-> "order", order |-> "mark", mark |-> "forward",
              forward |-> "define", define |-> "done"]

NextPhase ==
    /\ phase # "done" /\ index = N
    /\ phase' = Following[phase]
    /\ index' = 0
    /\ UNCHANGED <<doc, array, hard, weak, forward, cursor, tags, names>>

Next ==
    \/ FetchDependency
    \/ NextContainer
    \/ \E last \in Positions : Advance(last) \/ Postpone(last)
    \/ Mark
    \/ ForwardDeclare
    \/ Define
    \/ NextPhase

Spec == Init /\ [][Next]_vars

\* The back end is one sequential function: it keeps running until it returns.
FairSpec == Spec /\ WF_vars(Next)

-----------------------------------------------------------------------------
(* Properties.                                                             *)

\* Type correctness of every variable of the back end's type pass.
TypeOK ==
    /\ doc \in Documents
    /\ array \in [Positions -> Types]
    /\ hard \in [Types -> SUBSET Types]
    /\ weak \in [Types -> SUBSET Types]
    /\ forward \subseteq Types
    /\ phase \in Phases
    /\ index \in 0 .. N
    /\ cursor \in Nat
    /\ tags \subseteq Types
    /\ names \subseteq Types

Ordered == phase \in {"mark", "forward", "define", "done"}
Marked  == phase \in {"forward", "define", "done"}

\* However the uses of a type are interleaved, it ends up with a hard
\* dependency iff some use of it is hard, and a weak one iff all uses are weak
\* (add_type_dependency strengthens, never weakens or duplicates).
DependenciesAreStrongest ==
    phase # "collect" =>
        \A t \in Types : hard[t] = HardUses(doc, t) /\ weak[t] = WeakUses(doc, t)

\* The rotations lose and duplicate no type: the array is a permutation.
NoTypeLost == IsPermutation(array)

\* Every type already placed by the ordering loop has all types it uses by
\* value placed before it, and no later rotation disturbs that.
PlacedTypesAreOrdered ==
    /\ phase = "order" => OrderedUpTo(doc, array, index)
    /\ Ordered => OrderedUpTo(doc, array, N)

\* Exactly the types some earlier type only points to are declared forward.
ForwardIsNeeded ==
    /\ phase = "mark" => forward = PointedToEarly(doc, array, index)
    /\ Marked => forward = PointedToEarly(doc, array, N)

\* What the collecting loop has found so far, and that it moves nothing.
VisitedUses(t) ==
    IF t < index THEN Len(doc.uses[t]) ELSE IF t = index THEN cursor ELSE 0

CollectedSoFar ==
    phase = "collect" =>
        /\ array = [i \in Positions |-> i]
        /\ \A t \in Types :
             /\ VisitedUses(t) <= Len(doc.uses[t])
             /\ hard[t] = UsedUpTo(doc, t, VisitedUses(t), "hard")
             /\ weak[t] = UsedUpTo(doc, t, VisitedUses(t), "weak") \ hard[t]

\* What the C text printed so far declares.
Announced(t) == IF doc.kind[t] = "opaque" THEN t \in names ELSE t \in tags
Defined(t)   == t \in names /\ (doc.kind[t] = "struct" => t \in tags)

PrintedSoFar ==
    /\ phase = "forward" => \A i \in Positions :
         i < index /\ array[i] \in forward => Announced(array[i])
    /\ phase = "define" => \A i \in Positions :
         /\ array[i] \in forward => Announced(array[i])
         /\ i < index => Defined(array[i])

\* Nothing is marked before the marking loop.
MarkedInTime == phase \in {"collect", "order"} => forward = {}

\* The inductive invariant behind the properties below and above.
IInv ==
    /\ TypeOK
    /\ CollectedSoFar
    /\ DependenciesAreStrongest
    /\ NoTypeLost
    /\ PlacedTypesAreOrdered
    /\ MarkedInTime
    /\ ForwardIsNeeded
    /\ PrintedSoFar

\* Seen from the code that prints its result, the whole pass is the single step
\* of DeclarationOrder: no half-sorted array and no half-marked type shows.
Promise == INSTANCE DeclarationOrder WITH
    order   <- IF Marked THEN array ELSE [i \in Positions |-> i],
    forward <- IF Marked THEN forward ELSE {},
    sorted  <- Marked

ImplementsDeclarationOrder == Promise!Spec

\* Printing a typedef never uses by value a type the C text has not defined yet.
DefinedBeforeUsedByValue ==
    [][phase = "define" =>
         \A t \in names' \ names : HardUses(doc, t) \subseteq names]_vars

\* Types whose by-reference spelling is "struct T" need the tag, all others
\* (render_type_prefix prints the bare name) need the identifier.
InScope(u) == IF doc.kind[u] = "struct" THEN u \in tags ELSE u \in names

\* Printing a typedef never points to a type the C text has not declared yet,
\* unless that is an enum: forward declarations suffice for structs, unions and
\* opaque types, in documents with enums as well.
DeclaredUnlessEnum ==
    [][phase = "define" =>
         \A t \in names' \ names : \A u \in WeakUses(doc, t) :
            doc.kind[u] # "enum" => InScope(u)]_vars

\* There is an order in which the by-value uses can be resolved at all: every
\* set of types has a member that uses no member by value.
Resolvable == \A s \in SUBSET Types \ {{}} :
                \E t \in s : HardUses(doc, t) \intersect s = {}

\* A type that only points to others cannot leave position 0: without a hard
\* dependency dep_last stays 0, as if position 0 were one.
OnlyPoints(t) == HardUses(doc, t) = {} /\ WeakUses(doc, t) # {}

\* Such types do no harm when position 0 is taken by a type without any use.
Sortable ==
    /\ Resolvable
    /\ \/ \A t \in Types : ~OnlyPoints(t)
       \/ N > 0 /\ HardUses(doc, 0) = {} /\ WeakUses(doc, 0) = {}

\* The ordering loop ends for every such document, however often the rotations
\* move its types; a fair run of the back end then prints everything.
SortableDocumentsFinish == Sortable => <>(phase = "done")

\* The comment on create_type_order_map: it sorts the types of a document so
\* that all hard dependencies are resolved by declaration order.
ResolvableDocumentsAreSorted == Resolvable => <>Ordered
=============================================================================
