------------------------------ MODULE TypeText ------------------------------
(***************************************************************************)
(* How the back ends write a type down, as a sequence of tokens.  C wants  *)
(* a type wrapped around the name it declares, so src/gen/c_cpp.c prints a *)
(* prefix and a suffix; Zig writes a type from left to right               *)
(* (src/gen/zig.c).  For both languages there is a reader, which is what a *)
(* compiler makes of the tokens.                                           *)
(*                                                                         *)
(* Types are the addresses of TypePool.  The recursive functions of the    *)
(* back ends are recursive functions over the addresses: parts are older.  *)
(***************************************************************************)
EXTENDS TypePool, SequencesExt

CONSTANT FunctionAliases    \* names that unalias leads to a function

ConstPointers ==
    {"const_ptr_to_one", "const_ptr_to_many", "const_ptr_to_sentinelled_many",
     "nullable_const_ptr_to_one", "nullable_const_ptr_to_many",
     "nullable_const_ptr_to_sentinelled_many"}

NullablePointers ==
    {"nullable_ptr_to_one", "nullable_ptr_to_many", "nullable_ptr_to_sentinelled_many",
     "nullable_const_ptr_to_one", "nullable_const_ptr_to_many",
     "nullable_const_ptr_to_sentinelled_many"}

SinglePointers ==
    {"ptr_to_one", "nullable_ptr_to_one", "const_ptr_to_one", "nullable_const_ptr_to_one"}

Pointers ==
    ConstPointers \union NullablePointers \union
    {"ptr_to_one", "ptr_to_many", "ptr_to_sentinelled_many"}

ASSUME TextAssumption ==
    FunctionAliases \subseteq NamedTypes /\ PointerIds \subseteq Pointers

IsNamed(a) == a \in NamedTypes
Is(a, id)  == ~IsNamed(a) /\ cache[a].id = id
IsPointer(a) == ~IsNamed(a) /\ cache[a].id \notin {"array", "function"}

\* unalias(...)->id == apigen_typeid_function
IsFunction(a) == a \in FunctionAliases \/ Is(a, "function")

Target(a) == cache[a].parts[1]
ReturnType(a) == cache[a].parts[1]
ParameterType(a, i) == cache[a].parts[i + 1]
Size(a) == cache[a].data[1]
ParameterNames(a) == cache[a].data

-----------------------------------------------------------------------------
(* C: the prefix stands before the name, the suffix behind it.             *)

Star == <<"*">>
Const == <<"const">>
Open == <<"(">>
Close == <<")">>

\* Mutated form: a pointer to const is written as a const pointer.
ConstBehindStar(a) == IF cache[a].id \in ConstPointers THEN <<Star, Const>> ELSE <<Star>>

StarOf(a) ==
    IF cache[a].id \in ConstPointers /\ ~IsFunction(Target(a)) THEN <<Const, Star>> ELSE <<Star>>

\* render_declaration, given what is written for types; with DECL_CONST when constant.
Declared(written, a, name, constant) ==
    written[a].prefix \o (IF constant THEN <<Const>> ELSE <<>>)
        \o << <<"name", name>> >> \o written[a].suffix

\* render_parameter_list
ParameterList(written, a) ==
    <<"parameters", [i \in DOMAIN ParameterNames(a) |->
        Declared(written, ParameterType(a, i), ParameterNames(a)[i], FALSE)]>>

\* render_type_prefix
PrefixOf(written, a) ==
    CASE IsNamed(a)        -> << <<"type", a>> >>
      [] IsPointer(a)      -> written[Target(a)].prefix \o StarOf(a)
      [] Is(a, "array")    -> written[Target(a)].prefix
      [] Is(a, "function") ->
            written[ReturnType(a)].prefix \o written[ReturnType(a)].suffix \o <<Open>>

\* render_type_suffix
SuffixOf(written, a) ==
    CASE IsNamed(a)        -> <<>>
      [] IsPointer(a)      -> written[Target(a)].suffix
      [] Is(a, "array")    -> written[Target(a)].suffix \o << <<"size", Size(a)>> >>
      [] Is(a, "function") -> <<Close, ParameterList(written, a)>>

Written[a \in Canonical] ==
    [prefix |-> PrefixOf(Written, a), suffix |-> SuffixOf(Written, a)]

Declaration(a, name, constant) == Declared(Written, a, name, constant)

-----------------------------------------------------------------------------
(* What a C compiler reads (the grammar of declarators).  A C type is an   *)
(* array of arrays, the outermost size first, of something else.           *)

Illegal == <<"illegal">>

Single(c) == [sizes |-> <<>>, of |-> c]
Named(a) == Single(<<"named", a>>)
PointerTo(c) == Single(<<"pointer", c>>)
FunctionOf(c, ps) == Single(<<"function", c, ps>>)
ArrayOf(n, c) == [sizes |-> <<n>> \o c.sizes, of |-> c.of]

\* A const array is an array of const elements.
ConstOf(c) == [sizes |-> c.sizes, of |-> <<"const", c.of>>]

Returnable(c) == c.sizes = <<>> /\ c.of[1] # "function"

\* A const behind a type or behind a star belongs to it.
Qualified(c, ts) == IF ts # <<>> /\ ts[1] = Const THEN ConstOf(c) ELSE c
Unqualified(ts) == IF ts # <<>> /\ ts[1] = Const THEN Tail(ts) ELSE ts

\* One token of a declarator of type c, from the outside to the name: a star before
\* it binds less than a suffix behind it.
\* read: how the declarations of parameters are read.
DeclaratorStep(read, c, ts) ==
    LET last == ts[Len(ts)] IN
    IF ts[1] = Star THEN <<Qualified(PointerTo(c), Tail(ts)), Unqualified(Tail(ts))>>
    ELSE IF last[1] = "name" /\ Len(ts) = 1 THEN << <<"declared", last[2], c>>, <<>> >>
    ELSE IF last[1] = "size" /\ c.of[1] # "function" THEN <<ArrayOf(last[2], c), Front(ts)>>
    ELSE IF last[1] = "parameters" /\ Returnable(c)
         THEN <<FunctionOf(c, [i \in DOMAIN last[2] |-> read[last[2][i]]]), Front(ts)>>
    ELSE IF ts[1] = Open /\ last = Close THEN <<c, SubSeq(ts, 2, Len(ts) - 1)>>
    ELSE <<Illegal, <<>> >>

ReadOn(read, s) == IF s[2] = <<>> THEN s ELSE DeclaratorStep(read, s[1], s[2])

ReadDeclarator(read, c, ts) ==
    LET steps[n \in 0 .. Len(ts)] == IF n = 0 THEN <<c, ts>> ELSE ReadOn(read, steps[n - 1])
    IN  steps[Len(ts)][1]

ReadDeclaration(read, ts) ==
    IF ts = <<>> \/ ts[1][1] # "type" \/ Unqualified(Tail(ts)) = <<>> THEN Illegal
    ELSE ReadDeclarator(read, Qualified(Named(ts[1][2]), Tail(ts)), Unqualified(Tail(ts)))

\* Declarations whose parameters are declarations, and so on, n levels deep.
ParameterTexts == {Declaration(a, p, FALSE) : a \in Canonical, p \in Parameters}
CReader[n \in 0 .. Len(cache)] ==
    [ts \in ParameterTexts |-> IF n = 0 THEN Illegal ELSE ReadDeclaration(CReader[n - 1], ts)]

\* What a type of an API means in C, which knows one kind of pointer.
Meaning(inC, a) ==
    CASE IsNamed(a)        -> Named(a)
      [] IsPointer(a)      ->
            PointerTo(IF cache[a].id \in ConstPointers /\ ~IsFunction(Target(a))
                      THEN ConstOf(inC[Target(a)]) ELSE inC[Target(a)])
      [] Is(a, "array")    -> ArrayOf(Size(a), inC[Target(a)])
      [] Is(a, "function") ->
            FunctionOf(inC[ReturnType(a)],
                       [i \in DOMAIN ParameterNames(a) |->
                            <<"declared", ParameterNames(a)[i], inC[ParameterType(a, i)]>>])

InC[a \in Canonical] == Meaning(InC, a)

CTextDeclares(a, name, constant) ==
    ReadDeclaration(CReader[Len(cache)], Declaration(a, name, constant))
        = <<"declared", name, IF constant THEN ConstOf(InC[a]) ELSE InC[a]>>

\* Where prefix and suffix are enough.  C would need parentheses around the star
\* of a pointer to an array, wants the outermost size first, and wraps what a
\* function returns around the function.
\* A type is plain (pointers that lead to a name), arrays of a plain type, or neither.
ShapeOf(shape, a) ==
    CASE IsNamed(a)        -> "plain"
      [] IsPointer(a)      -> IF shape[Target(a)] = "plain" THEN "plain" ELSE "other"
      [] Is(a, "array")    -> IF shape[Target(a)] = "other" THEN "other" ELSE "arrays"
      [] Is(a, "function") -> "other"

Shape[a \in Canonical] == ShapeOf(Shape, a)

ExpressibleBy(expressible, a) ==
    CASE IsNamed(a)        -> TRUE
      [] IsPointer(a)      -> expressible[Target(a)] /\ ~Is(Target(a), "array")
      [] Is(a, "array")    -> Shape[a] = "arrays" /\ InC[a].sizes = Reverse(InC[a].sizes)
      [] Is(a, "function") ->
            /\ Shape[ReturnType(a)] = "plain"
            /\ \A i \in DOMAIN ParameterNames(a) : expressible[ParameterType(a, i)]

Expressible[a \in Canonical] == ExpressibleBy(Expressible, a)

-----------------------------------------------------------------------------
(* Zig: a type is read from left to right.                                 *)

\* Mutated form: the sentinel of a nullable pointer is left out.
SentinelUnlessNullable(a) == IF cache[a].id \in NullablePointers THEN <<>> ELSE cache[a].data

SentinelOf(a) == cache[a].data

\* render_func_signature
ZigSignature(text, a) ==
    << <<"parameters", [i \in DOMAIN ParameterNames(a) |->
            <<ParameterNames(a)[i], text[ParameterType(a, i)]>>]>> >>
        \o text[ReturnType(a)]

\* render_type
ZigTextOf(text, a) ==
    CASE IsNamed(a)        -> << <<"type", a>> >>
      [] IsPointer(a)      ->
            (IF cache[a].id \in NullablePointers THEN << <<"?">> >> ELSE <<>>)
            \o << IF cache[a].id \in SinglePointers THEN Star ELSE <<"[*", SentinelOf(a)>> >>
            \o (IF cache[a].id \in ConstPointers THEN <<Const>> ELSE <<>>)
            \o text[Target(a)]
      [] Is(a, "array")    -> << <<"size", Size(a)>> >> \o text[Target(a)]
      [] Is(a, "function") -> << <<"fn">> >> \o ZigSignature(text, a)

ZigText[a \in Canonical] == ZigTextOf(ZigText, a)

\* The id of a pointer, from what is written about it.
PointerId(nullable, single, sentinelled, constant) ==
    CHOOSE p \in Pointers :
        /\ p \in NullablePointers <=> nullable
        /\ p \in SinglePointers <=> single
        /\ p \in SentinelledPointers <=> sentinelled
        /\ p \in ConstPointers <=> constant

\* read: how the types behind the first token are read.
ReadZig(read, ts) ==
    LET nullable == ts[1] = <<"?">>
        star     == IF nullable THEN Tail(ts) ELSE ts
        constant == Len(star) > 1 /\ star[2] = Const
        rest     == IF constant THEN Tail(Tail(star)) ELSE Tail(star)
    IN  CASE star[1][1] = "type" -> [name |-> star[1][2]]
          [] star[1][1] = "*" ->
                [id |-> PointerId(nullable, TRUE, FALSE, constant),
                 data |-> <<>>, parts |-> <<read[rest]>>]
          [] star[1][1] = "[*" ->
                [id |-> PointerId(nullable, FALSE, star[1][2] # <<>>, constant),
                 data |-> star[1][2], parts |-> <<read[rest]>>]
          [] star[1][1] = "size" ->
                [id |-> "array", data |-> <<star[1][2]>>, parts |-> <<read[rest]>>]
          [] star[1][1] = "fn" ->
                LET ps == star[2][2] IN
                [id |-> "function", data |-> [i \in DOMAIN ps |-> ps[i][1]],
                 parts |-> <<read[Tail(rest)]>> \o [i \in DOMAIN ps |-> read[ps[i][2]]]]

\* Types that are n levels deep.
ZigTexts == {ZigText[a] : a \in Canonical}
ZigReader[n \in 0 .. Len(cache) + 1] ==
    [ts \in ZigTexts |-> IF n = 0 THEN Illegal ELSE ReadZig(ZigReader[n - 1], ts)]
=============================================================================
