------------------------------ MODULE TypePool ------------------------------
(***************************************************************************)
(* The cache of structural types (src/type-pool.c): apigen_intern_type     *)
(* searches it with apigen_type_eql, which recurses into the parts of two  *)
(* types.  resolve_type_inner (src/analyzer.c) interns a type bottom-up:   *)
(* the parts of what it asks for are names or answers it got before.       *)
(*                                                                         *)
(* The nth entry of the cache has address n; its link leads to n - 1.  The *)
(* type to be interned lies on the stack of the caller, at address 0.      *)
(* Builtin and declared types have addresses of their own.                 *)
(***************************************************************************)
EXTENDS Integers, Sequences

CONSTANTS
    NamedTypes,     \* addresses of builtin and of declared (unique) types
    PointerIds,     \* ids of pointers
    Sentinels,      \* values that end an array
    Sizes,          \* sizes of arrays
    Parameters,     \* parameters of functions: name and documentation
    MaxParameters,  \* bound: the parameters of a function
    MaxCached,      \* bound: the entries of the cache
    None

Unchecked == 0      \* the address of unchecked_type

\* is_sentinelled_ptr
SentinelledPointers ==
    {"ptr_to_sentinelled_many", "nullable_ptr_to_sentinelled_many",
     "const_ptr_to_sentinelled_many", "nullable_const_ptr_to_sentinelled_many"}

ASSUME PoolAssumption ==
    /\ NamedTypes \intersect Int = {}
    /\ "array" \notin PointerIds /\ "function" \notin PointerIds
    /\ MaxParameters \in Nat /\ MaxCached \in Nat

VARIABLES
    cache,      \* the interned types, the oldest first
    unchecked,  \* the type to be interned, or None
    entry,      \* cache_entry: the entry it is compared with, 0 behind the last
    calls,      \* the calls of apigen_type_eql, and how many parts each found equal
    answer      \* what the last call of apigen_intern_type returned

vars == <<cache, unchecked, entry, calls, answer>>

-----------------------------------------------------------------------------
(* Structural types: an id, the types it is made of, and what else counts. *)

PointersTo(known) ==
    {[id |-> p, parts |-> <<t>>, data |-> <<>>] : p \in PointerIds \ SentinelledPointers, t \in known}
        \union
    {[id |-> p, parts |-> <<t>>, data |-> <<s>>] :
        p \in PointerIds \intersect SentinelledPointers, t \in known, s \in Sentinels}

ArraysOf(known) == {[id |-> "array", parts |-> <<t>>, data |-> <<n>>] : t \in known, n \in Sizes}

\* The first part is the return type, then come the types of the parameters.
FunctionsOf(known) ==
    UNION {{[id |-> "function", parts |-> <<t>> \o ts, data |-> ps] :
              t \in known, ts \in [1 .. n -> known], ps \in [1 .. n -> Parameters]} :
           n \in 0 .. MaxParameters}

TypesOf(known) == PointersTo(known) \union ArraysOf(known) \union FunctionsOf(known)

Interned == 1 .. Len(cache)

\* What resolve_type_inner can return for the parts of a type.
Canonical == NamedTypes \union Interned

TypeAt(a) == IF a = Unchecked THEN unchecked ELSE cache[a]

-----------------------------------------------------------------------------
(* apigen_type_eql.                                                        *)

Call(type1, type2) == [type1 |-> type1, type2 |-> type2, equal |-> 0]
Top == calls[Len(calls)]

\* Mutated form: parameters and sentinels do not count.
DiffersInOutline(x, y, n) == x.id # y.id \/ Len(x.parts) # Len(y.parts)

\* A difference that shows when the first n parts are equal: a function is
\* compared by the number of parameters, the return type, and one parameter after
\* the other; pointers and arrays by their element first.
Differs(x, y, n) ==
    \/ x.id # y.id
    \/ n = 0 /\ Len(x.parts) # Len(y.parts)
    \/ n > 0 /\ n <= Len(x.data) /\ x.data[n] # y.data[n]

\* Addresses decide for equal addresses and for unique types.
SameAddress == Top.type1 = Top.type2
ByAddress == SameAddress \/ {Top.type1, Top.type2} \intersect NamedTypes # {}

Unequal ==
    IF ByAddress THEN ~SameAddress
    ELSE Differs(TypeAt(Top.type1), TypeAt(Top.type2), Top.equal)

Equal ==
    IF ByAddress THEN SameAddress
    ELSE ~Unequal /\ Top.equal = Len(TypeAt(Top.type1).parts)

\* The recursive call for the next part.
ComparePart ==
    /\ calls # <<>> /\ ~Unequal /\ ~Equal
    /\ LET n == Top.equal + 1 IN
       calls' = Append(calls, Call(TypeAt(Top.type1).parts[n], TypeAt(Top.type2).parts[n]))
    /\ UNCHANGED <<cache, unchecked, entry, answer>>

\* A call inside another one returns true: the caller goes on with its next part.
PartIsEqual ==
    /\ Len(calls) > 1 /\ Equal
    /\ calls' = [SubSeq(calls, 1, Len(calls) - 1) EXCEPT ![Len(calls) - 1].equal = @ + 1]
    /\ UNCHANGED <<cache, unchecked, entry, answer>>

-----------------------------------------------------------------------------
(* apigen_intern_type.                                                     *)

Init ==
    /\ cache = <<>>
    /\ unchecked = None /\ entry = 0 /\ calls = <<>>
    /\ answer = None

\* resolve_type_inner calls it for a pointer, an array or a function.
Intern(t) ==
    /\ unchecked = None
    /\ Len(cache) < MaxCached
    /\ unchecked' = t
    /\ entry' = Len(cache)
    /\ UNCHANGED <<cache, calls, answer>>

Compare ==
    /\ unchecked # None /\ entry # 0 /\ calls = <<>>
    /\ calls' = <<Call(entry, Unchecked)>>
    /\ UNCHANGED <<cache, unchecked, entry, answer>>

\* Mutated form: the oldest entry is never compared.
EntryBefore == IF entry = 2 THEN 0 ELSE entry - 1

NextEntry == entry - 1

\* Any call that returns false makes all its callers return false.
EntryDiffers ==
    /\ calls # <<>> /\ Unequal
    /\ calls' = <<>>
    /\ entry' = NextEntry
    /\ UNCHANGED <<cache, unchecked, answer>>

CacheHit ==
    /\ Len(calls) = 1 /\ Equal
    /\ answer' = entry
    /\ unchecked' = None /\ entry' = 0 /\ calls' = <<>>
    /\ UNCHANGED cache

\* Mutated form: the new entry takes the place of the newest one.
ReplacedEntry == Append(SubSeq(cache, 1, Len(cache) - 2), unchecked)

WithNewEntry == Append(cache, unchecked)

CacheMiss ==
    /\ unchecked # None /\ entry = 0
    /\ cache' = WithNewEntry
    /\ answer' = Len(cache')
    /\ unchecked' = None
    /\ UNCHANGED <<entry, calls>>

Next ==
    \/ \E t \in TypesOf(Canonical) : Intern(t)
    \/ Compare \/ ComparePart \/ PartIsEqual
    \/ EntryDiffers \/ CacheHit \/ CacheMiss

Spec == Init /\ [][Next]_vars

-----------------------------------------------------------------------------
(* Properties.                                                             *)

IsTypeOf(known, t) ==
    /\ t.id \in PointerIds \union {"array", "function"}
    /\ t.parts \in Seq(known) /\ t.parts # <<>>
    /\ t.data \in Seq(Sentinels \union Sizes \union Parameters)
    /\ Len(t.data) <= Len(t.parts)

\* Type correctness; the parts of an interned type are older than it is, so
\* types are never cyclic and apigen_type_eql recurses only so far.
TypeOK ==
    /\ \A a \in Interned : IsTypeOf(NamedTypes \union 1 .. a - 1, cache[a])
    /\ unchecked = None \/ IsTypeOf(Canonical, unchecked)
    /\ entry \in 0 .. Len(cache)
    /\ Len(calls) <= Len(cache) + 1
    /\ answer \in Canonical \union {None}

\* The whole tree of a type, down to the names.
Tree ==
    [a \in Canonical |->
        LET tree[b \in Canonical] ==
              IF b \in NamedTypes THEN [name |-> b]
              ELSE [id |-> cache[b].id, data |-> cache[b].data,
                    parts |-> [i \in 1 .. Len(cache[b].parts) |-> tree[cache[b].parts[i]]]]
        IN  tree[a]]

\* "pointer equality is given": types written alike have one address, wherever
\* and however deep inside other types they are written.
EqualTreesShareAddress ==
    unchecked = None => \A a, b \in Canonical : Tree[a] = Tree[b] => a = b

\* The cache implements InternedTypes.
AddressOf == [t \in {cache[a] : a \in Interned} |-> CHOOSE a \in Interned : cache[a] = t]
Promise ==
    INSTANCE InternedTypes WITH
        Addresses <- 1 .. MaxCached,
        address <- AddressOf, asked <- unchecked
ImplementsInternedTypes == Promise!Spec
=============================================================================
