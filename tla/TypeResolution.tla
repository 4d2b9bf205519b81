--------------------------- MODULE TypeResolution ---------------------------
(***************************************************************************)
(* The analyzer (src/analyzer.c: apigen_analyze with resolve_type,         *)
(* analyze_struct_type and the queue of anonymous types; src/type-pool.c:  *)
(* apigen_lookup_type, apigen_register_type).                              *)
(*                                                                         *)
(* Declarations may refer to each other in any textual order.  Named       *)
(* structs, unions, enums and opaque types are published first, then the   *)
(* aliases in as many passes as it takes, then everything else is resolved *)
(* against the pool of names.  Anonymous types met on the way are queued   *)
(* and resolved last, which may queue more.                                *)
(*                                                                         *)
(* A type expression is the sequence of what resolve_type_inner meets on   *)
(* its way through the tree:                                               *)
(*   named       a type name, looked up in the pool                        *)
(*   anonymous   a nested struct, union, enum or opaque type               *)
(*   size        the end of an array type whose size is not unsigned       *)
(*   duplicate   a parameter with the name of an earlier one               *)
(*   params      the end of a parameter list with such a duplicate         *)
(* Pointers, arrays and functions without error leave no other trace here. *)
(***************************************************************************)
EXTENDS Naturals, SequencesExt

CONSTANTS
    Names,      \* identifiers of types
    Builtins,   \* the names apigen_lookup_type knows by itself
    Nodes,      \* the anonymous types written in the source
    Programs    \* the parsed documents to analyze

Atoms == [op : {"named"}, name : Names]
    \union [op : {"anonymous"}, node : Nodes]
    \union [op : {"size", "duplicate", "params"}]

\* A parameter list that saw a duplicate ends as one, and no other does.
Exprs == {expr \in Seq(Atoms) : \A j \in DOMAIN expr :
    /\ expr[j].op = "params"    => \E k \in 1 .. j - 1 : expr[k].op = "duplicate"
    /\ expr[j].op = "duplicate" => \E k \in j + 1 .. Len(expr) : expr[k].op = "params"}

\* A flaw is an error of a declaration's own: "fatal" ones make the analysis
\* fail (an enum that is empty or not backed by an integer), "reported" ones
\* are only reported (duplicate fields or items, values out of range).
Flaws  == {"none", "reported", "fatal"}
Bodies == [fields : Seq(Exprs), flaw : Flaws]

\* "unique" is a named struct, union, enum or opaque type with a body, "alias"
\* any other type declaration; the last three kinds have a type and a flaw.
ValueKinds == {"variable", "function", "constexpr"}
DeclKinds  == {"unique", "alias"} \union ValueKinds
Decls   == [kind : DeclKinds, name : Names, body : Bodies]
Program == [decls : Seq(Decls), nodes : [Nodes -> Bodies]]

ASSUME BuiltinsAssumption == Builtins \subseteq Names
ASSUME ProgramsAssumption ==
    Programs \subseteq {p \in Program : \A i \in DOMAIN p.decls :
        p.decls[i].kind # "unique" =>
            Len(p.decls[i].body.fields) = 1 /\ p.decls[i].body.flaw # "fatal"}

\* A diagnostic is about a declaration, an anonymous type or the whole document
\* (place 0), and it is clear which.
ASSUME PlacesAssumption == \A p \in Programs : Nodes \intersect (0 .. Len(p.decls)) = {}

VARIABLES
    prog,       \* the input; never changes
    phase,      \* which loop of apigen_analyze runs
    pos,        \* the loop's declaration
    published,  \* the declarations whose types are in the pool
    emit,       \* emit_resolve_errors
    resolved, unresolved,   \* resolved_count, resolve_failed_count of this pass
    nonResolveError,        \* non_resolve_error of this pass
    ok,         \* ok of the current loop
    queue,      \* the anonymous types waiting in the global queue
    ready,      \* those resolved already
    types,      \* document->types
    diags       \* what was reported, and about what

vars == <<prog, phase, pos, published, emit, resolved, unresolved,
          nonResolveError, ok, queue, ready, types, diags>>

NumDecls == Len(prog.decls)
Decl     == prog.decls[pos]
TypeDeclKinds == {"unique", "alias"}

Init ==
    /\ prog \in Programs
    /\ phase = "publish"
    /\ pos = 1
    /\ published = {}
    /\ emit = FALSE
    /\ resolved = 0 /\ unresolved = 0
    /\ nonResolveError = FALSE
    /\ ok = TRUE
    /\ queue = <<>> /\ ready = <<>> /\ types = <<>>
    /\ diags = {}

-----------------------------------------------------------------------------
(* The pool of names and the resolution of one type expression.            *)

\* Mutated form: the builtin types are not looked up.
InPoolOfDeclared(name) == name \in {prog.decls[d].name : d \in published}

InPool(name) == name \in Builtins \union {prog.decls[d].name : d \in published}

\* Mutated form: a missing name does not stop the resolution.
StopsOnlyOnErrors(atom) == atom.op \in {"size", "params"}

\* Where resolve_type_inner gives up.
Stops(atom) == \/ atom.op = "named" /\ ~InPool(atom.name)
               \/ atom.op \in {"size", "params"}

FirstStop(expr, j) == Stops(expr[j]) /\ \A k \in 1 .. j - 1 : ~Stops(expr[k])

Outcome(expr) ==
    IF \A j \in 1 .. Len(expr) : ~Stops(expr[j]) THEN "ok"
    ELSE IF \E j \in 1 .. Len(expr) : FirstStop(expr, j) /\ expr[j].op = "named"
    THEN "missing"
    ELSE "generic"

\* The part of the expression that is visited, the atom it stops at included.
Visited(expr) ==
    SubSeq(expr, 1, IF Outcome(expr) = "ok" THEN Len(expr)
                    ELSE CHOOSE j \in 1 .. Len(expr) : FirstStop(expr, j))

\* The anonymous types resolve_type pushes, even when it fails afterwards.
Pushed(expr) ==
    FlattenSeq([j \in 1 .. Len(Visited(expr)) |->
        IF expr[j].op = "anonymous" THEN <<expr[j].node>> ELSE <<>>])

\* The diagnostics resolve_type emits; a missing name only when asked to.
ErrorOf(op) == CASE op = "size"      -> {"array_size_not_uint"}
                 [] op = "duplicate" -> {"duplicate_parameter"}
                 [] OTHER            -> {}

Emitted(expr, emitResolveErrors) ==
    (UNION {ErrorOf(Visited(expr)[j].op) : j \in 1 .. Len(Visited(expr))})
    \union (IF emitResolveErrors /\ Outcome(expr) = "missing"
            THEN {"undeclared_identifier"} ELSE {})

\* The fields of a body are resolved one after the other, all of them.
PushedBy(body) ==
    FlattenSeq([n \in 1 .. Len(body.fields) |-> Pushed(body.fields[n])])

EmittedBy(body) ==
    (UNION {Emitted(body.fields[n], TRUE) : n \in 1 .. Len(body.fields)})
    \union ({"reported", "fatal"} \intersect {body.flaw})

\* Mutated form: the result of resolving a field is dropped.
BodyFlawOk(body) == body.flaw # "fatal"

BodyOk(body) == /\ body.flaw # "fatal"
                /\ \A n \in 1 .. Len(body.fields) : Outcome(body.fields[n]) = "ok"

At(codes, place) == {[code |-> c, at |-> place] : c \in codes}

-----------------------------------------------------------------------------
(* Phase 2: publish the named unique types.                                *)

PublishUnique ==
    /\ phase = "publish" /\ pos <= NumDecls
    /\ IF Decl.kind # "unique"
       THEN UNCHANGED <<published, ok, diags>>
       ELSE IF InPool(Decl.name)
       THEN /\ diags' = diags \union At({"duplicate_symbol"}, pos)
            /\ ok' = FALSE
            /\ UNCHANGED published
       ELSE published' = published \union {pos} /\ UNCHANGED <<ok, diags>>
    /\ pos' = pos + 1
    /\ UNCHANGED <<prog, phase, emit, resolved, unresolved, nonResolveError,
                   queue, ready, types>>

-----------------------------------------------------------------------------
(* Phase 3: resolve and publish the aliases, pass after pass.              *)

Unpublished(d) == prog.decls[d].kind = "alias" /\ d \notin published
Target(d)      == prog.decls[d].body.fields[1]

\* Mutated form: the loop steps over the next declaration as well.
SkipTwo ==
    /\ phase = "resolve" /\ pos <= NumDecls
    /\ ~Unpublished(pos)
    /\ pos' = pos + 2
    /\ UNCHANGED <<prog, phase, published, emit, resolved, unresolved,
                   nonResolveError, ok, queue, ready, types, diags>>

SkipAlias ==
    /\ phase = "resolve" /\ pos <= NumDecls
    /\ ~Unpublished(pos)
    /\ pos' = pos + 1
    /\ UNCHANGED <<prog, phase, published, emit, resolved, unresolved,
                   nonResolveError, ok, queue, ready, types, diags>>

ResolveAlias ==
    /\ phase = "resolve" /\ pos <= NumDecls
    /\ Unpublished(pos)
    /\ LET outcome == Outcome(Target(pos))
           clash   == outcome = "ok" /\ InPool(Decl.name)
       IN  /\ published' = IF outcome = "ok" /\ ~clash
                           THEN published \union {pos} ELSE published
           /\ resolved' = IF outcome = "ok" /\ ~clash THEN resolved + 1 ELSE resolved
           /\ unresolved' = IF outcome # "ok" THEN unresolved + 1 ELSE unresolved
           /\ nonResolveError' = (nonResolveError \/ outcome = "generic" \/ clash)
           /\ diags' = diags \union At(Emitted(Target(pos), emit), pos)
                         \union (IF clash THEN At({"duplicate_symbol"}, pos) ELSE {})
    /\ queue' = queue \o Pushed(Target(pos))
    /\ pos' = pos + 1
    /\ UNCHANGED <<prog, phase, emit, ok, ready, types>>

\* Mutated forms: one failure ends the passes; no pass is the reporting one.
LastPassIsFirstFailing == nonResolveError \/ unresolved > 0
LastPassIsFinal        == nonResolveError \/ (resolved = 0 /\ unresolved = 0)

\* The loop ends when a pass that reports missing names resolves nothing, or
\* after a pass with any other error.
LastPass == nonResolveError \/ (resolved = 0 /\ emit)

\* Mutated form: every pass after the first reports missing names.
NextPassReports ==
    /\ phase = "resolve" /\ pos > NumDecls
    /\ ~LastPass
    /\ emit' = TRUE
    /\ resolved' = 0 /\ unresolved' = 0 /\ nonResolveError' = FALSE
    /\ pos' = 1
    /\ UNCHANGED <<prog, phase, published, ok, queue, ready, types, diags>>

NextPass ==
    /\ phase = "resolve" /\ pos > NumDecls
    /\ ~LastPass
    /\ emit' = (emit \/ resolved = 0)
    /\ resolved' = 0 /\ unresolved' = 0 /\ nonResolveError' = FALSE
    /\ pos' = 1
    /\ UNCHANGED <<prog, phase, published, ok, queue, ready, types, diags>>

-----------------------------------------------------------------------------
(* Phases 4, 6, 7 and 8: resolve the bodies of the unique types, then the  *)
(* types of variables, functions and constants, reporting missing names.   *)

PhaseKinds == [uniques    |-> "unique",   variables  |-> "variable",
               functions  |-> "function", constexprs |-> "constexpr"]

ResolveDecl ==
    /\ phase \in DOMAIN PhaseKinds /\ pos <= NumDecls
    /\ IF Decl.kind = PhaseKinds[phase]
       THEN /\ ok' = (ok /\ BodyOk(Decl.body))
            /\ queue' = queue \o PushedBy(Decl.body)
            /\ diags' = diags \union At(EmittedBy(Decl.body), pos)
       ELSE UNCHANGED <<ok, queue, diags>>
    /\ pos' = pos + 1
    /\ UNCHANGED <<prog, phase, published, emit, resolved, unresolved,
                   nonResolveError, ready, types>>

-----------------------------------------------------------------------------
(* Phase 9: resolve the queued anonymous types; this may queue more.       *)

ResolveAnonymous ==
    /\ phase = "anonymous" /\ queue # <<>>
    /\ LET body == prog.nodes[Head(queue)]
       IN  /\ ok' = (ok /\ BodyOk(body))
           /\ queue' = Tail(queue) \o PushedBy(body)
           /\ diags' = diags \union At(EmittedBy(body), Head(queue))
    /\ ready' = Append(ready, Head(queue))
    /\ UNCHANGED <<prog, phase, pos, published, emit, resolved, unresolved,
                   nonResolveError, types>>

-----------------------------------------------------------------------------
(* From loop to loop: a loop that found an error ends the analysis.        *)

Following == [publish |-> "resolve", resolve |-> "uniques", uniques |-> "variables",
              variables |-> "functions", functions |-> "constexprs",
              constexprs |-> "anonymous", anonymous |-> "done"]

LoopEnds == IF phase = "anonymous" THEN queue = <<>>
            ELSE pos > NumDecls /\ (phase = "resolve" => LastPass)

\* Mutated form: aliases that are left over are forgotten.
LoopFailedOnError == IF phase = "resolve" THEN nonResolveError ELSE ~ok

LoopFailed == IF phase = "resolve" THEN nonResolveError \/ unresolved > 0 ELSE ~ok

\* Phase 5 stores the declared types, phase 9 appends the anonymous ones.
TypeDecls == FlattenSeq([d \in 1 .. NumDecls |->
                 IF prog.decls[d].kind \in TypeDeclKinds THEN <<d>> ELSE <<>>])

\* Mutated form: the anonymous types are not appended.
StoredDeclaredTypes == IF phase = "uniques" THEN TypeDecls ELSE types

StoredTypes == CASE phase = "uniques"   -> TypeDecls
                 [] phase = "anonymous" -> types \o ready
                 [] OTHER               -> types

EndLoop ==
    /\ phase \in DOMAIN Following
    /\ LoopEnds /\ ~LoopFailed
    /\ phase' = Following[phase]
    /\ pos' = 1
    /\ types' = StoredTypes
    /\ UNCHANGED <<prog, published, emit, resolved, unresolved, nonResolveError,
                   ok, queue, ready, diags>>

FailLoop ==
    /\ phase \in DOMAIN Following
    /\ LoopEnds /\ LoopFailed
    /\ phase' = "failed"
    /\ diags' = IF phase = "resolve" /\ ~nonResolveError
                THEN diags \union At({"unresolved_symbols"}, 0) ELSE diags
    /\ UNCHANGED <<prog, pos, published, emit, resolved, unresolved,
                   nonResolveError, ok, queue, ready, types>>

Next == \/ PublishUnique
        \/ SkipAlias \/ ResolveAlias \/ NextPass
        \/ ResolveDecl
        \/ ResolveAnonymous
        \/ EndLoop \/ FailLoop

Spec == Init /\ [][Next]_vars

\* The analyzer is one sequential function: it runs on until it returns.
FairSpec == Spec /\ WF_vars(Next)

-----------------------------------------------------------------------------
(* Properties.                                                             *)

DeclIds  == 1 .. NumDecls
Aliases  == {d \in DeclIds : prog.decls[d].kind = "alias"}
Uniques  == {d \in DeclIds : prog.decls[d].kind = "unique"}
NameOf(d) == prog.decls[d].name
Named(expr) == {expr[j].name : j \in {k \in DOMAIN expr : expr[k].op = "named"}}

\* Type correctness of the state that steers the analysis.
ControlOK ==
    /\ prog \in Programs
    /\ phase \in DOMAIN Following \union {"done", "failed"}
    /\ pos \in 1 .. NumDecls + 1
    /\ published \subseteq Aliases \union Uniques
    /\ emit \in BOOLEAN /\ nonResolveError \in BOOLEAN /\ ok \in BOOLEAN
    /\ resolved \in Nat /\ unresolved \in Nat

\* Type correctness of the whole state.
TypeOK ==
    /\ ControlOK
    /\ queue \in Seq(Nodes) /\ ready \in Seq(Nodes)
    /\ types \in Seq(DeclIds \union Nodes)

\* A set of names no declaration can add to: the builtins, the unique types,
\* and every alias whose names are in the set.
Closed(names) ==
    /\ Builtins \subseteq names
    /\ \A d \in Uniques : NameOf(d) \in names
    /\ \A d \in Aliases : Named(Target(d)) \subseteq names => NameOf(d) \in names

\* The names with a meaning that is not circular, whatever the textual order.
Resolvable == {name \in Names : \A s \in SUBSET Names : Closed(s) => name \in s}

PoolNames == Builtins \union {NameOf(d) : d \in published}

\* A name in the pool denotes one type, and never hides a builtin.
NamesDenoteOneType ==
    \A d \in published : /\ NameOf(d) \notin Builtins
                         /\ \A e \in published \ {d} : NameOf(e) # NameOf(d)

\* At every moment the pool holds only names with a meaning, and once the
\* aliases are through all of them: the passes find the least fixed point.
PoolIsSound    == PoolNames \subseteq Resolvable
PoolIsComplete ==
    phase \notin {"publish", "resolve", "failed"} =>
        PoolNames = Resolvable /\ Aliases \subseteq published

\* "Found %zu cyclic dependencies or undeclared types" is true, of exactly the
\* aliases that are left: none of them has a meaning in any order.
CyclesReported == [code |-> "unresolved_symbols", at |-> 0] \in diags
UnresolvedAreUnresolvable ==
    CyclesReported =>
        \A d \in Aliases : d \notin published <=> ~(Named(Target(d)) \subseteq Resolvable)

UnresolvedOnlyOnFailure == CyclesReported => phase = "failed"

\* What a pass has seen so far: while nothing failed every alias it passed is in
\* the pool, while nothing succeeded none of them could be resolved.
AllMissing(n) == \A d \in Aliases : d < n /\ d \notin published =>
                    Outcome(Target(d)) = "missing"

PassIsRight ==
    phase = "resolve" =>
        /\ ~nonResolveError /\ resolved = 0 => AllMissing(pos)
        /\ ~nonResolveError /\ unresolved = 0 =>
              \A d \in Aliases : d < pos => d \in published
        /\ emit => AllMissing(NumDecls + 1)

\* The unique types are in the pool before the first alias is looked at.
UniquesComeFirst ==
    /\ phase = "publish" /\ ok => \A d \in Uniques : d < pos => d \in published
    /\ phase \notin {"publish", "failed"} => Uniques \subseteq published

\* The names an alias in the pool uses are in the pool as well.
AliasesAreGrounded ==
    \A d \in published \intersect Aliases : Named(Target(d)) \subseteq PoolNames

\* The counters and flags of the passes are untouched before the first one.
FreshCounters ==
    phase = "publish" => ~emit /\ resolved = 0 /\ unresolved = 0 /\ ~nonResolveError

\* The inductive invariant behind the theorems about the pool.
IInv ==
    /\ ControlOK
    /\ FreshCounters
    /\ NamesDenoteOneType
    /\ PoolIsSound
    /\ UniquesComeFirst
    /\ AliasesAreGrounded
    /\ PassIsRight
    /\ phase \notin {"publish", "resolve", "failed"} => Aliases \subseteq published
    /\ UnresolvedOnlyOnFailure
    /\ UnresolvedAreUnresolvable

\* Missing names are reported in a pass that resolves nothing, so a name is
\* never called undeclared that a later pass would have found.
ReportingPassResolvesNothing ==
    phase = "resolve" /\ emit => resolved = 0

NoFalseAlarm ==
    \A d \in Aliases : [code |-> "undeclared_identifier", at |-> d] \in diags =>
        ~(Named(Target(d)) \subseteq Resolvable)

\* The analysis never fails silently, and what resolve_type or
\* apigen_register_type reports is never forgotten on the way: an analysis that
\* ends well has reported nothing of the kind.
FailureMatchesReports ==
    /\ phase = "failed" => \E x \in diags : x.code # "reported"
    /\ phase = "done" => \A x \in diags : x.code = "reported"

\* The nodes an accepted program reaches from its declarations.
Nested(expr)  == {expr[j].node : j \in {k \in DOMAIN expr : expr[k].op = "anonymous"}}
NodesIn(body) == UNION {Nested(body.fields[n]) : n \in DOMAIN body.fields}
ReachedNodes == {node \in Nodes : \A s \in SUBSET Nodes :
    /\ \A d \in DeclIds : NodesIn(prog.decls[d].body) \subseteq s
    /\ \A m \in s : NodesIn(prog.nodes[m]) \subseteq s
    => node \in s}

\* The document holds every type the rest of it refers to, however deep it was
\* nested (the C back end asserts that it finds them), and nothing unreachable.
DocumentIsComplete ==
    phase = "done" => Range(types) = Aliases \union Uniques \union ReachedNodes

\* An alias enters the pool after every name it uses, so following aliases to
\* the type they stand for (unalias) always ends.
AliasesPointBackwards ==
    [][\A d \in published' \ published :
         d \in Aliases => Named(Target(d)) \subseteq PoolNames]_vars

\* The passes come to an end, and so does the queue that resolving it extends.
AnalysisEnds == <>(phase \in {"done", "failed"})
=============================================================================
