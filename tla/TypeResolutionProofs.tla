------------------------ MODULE TypeResolutionProofs ------------------------
(***************************************************************************)
(* Proofs about TypeResolution for every program: whatever the textual     *)
(* order of its declarations, the passes over the aliases find exactly the *)
(* least fixed point of "an alias has a meaning when its names have one".  *)
(***************************************************************************)
EXTENDS TypeResolution, WellFoundedInduction, TLAPS

\* The shape of a program, as far as the passes depend on it.
LEMMA ProgramShape ==
    ASSUME ControlOK
    PROVE  /\ NumDecls \in Nat
           /\ \A d \in DeclIds : /\ prog.decls[d] \in Decls
                                 /\ NameOf(d) \in Names
           /\ \A d \in Aliases : Target(d) \in Exprs
<1>1. prog \in Program
  BY ProgramsAssumption DEF ControlOK
<1>2. prog.decls \in Seq(Decls)
  BY <1>1 DEF Program
<1>3. NumDecls \in Nat
  BY <1>2 DEF NumDecls
<1>4. \A d \in DeclIds : prog.decls[d] \in Decls /\ NameOf(d) \in Names
  <2>1. \A d \in DeclIds : prog.decls[d] \in Decls
    BY <1>2 DEF DeclIds, NumDecls
  <2>2. \A x \in Decls : x.name \in Names
    BY DEF Decls
  <2> QED BY <2>1, <2>2 DEF NameOf
<1>5. ASSUME NEW d \in Aliases PROVE Target(d) \in Exprs
  <2>1. d \in DOMAIN prog.decls /\ prog.decls[d].kind # "unique"
    BY <1>2 DEF Aliases, DeclIds, NumDecls
  <2>2. Len(prog.decls[d].body.fields) = 1
    BY <2>1, ProgramsAssumption DEF ControlOK
  <2>3. prog.decls[d].body \in Bodies
    BY <1>4 DEF Aliases, Decls
  <2>4. prog.decls[d].body.fields \in Seq(Exprs)
    BY <2>3 DEF Bodies
  <2> QED BY <2>2, <2>4 DEF Target
<1> QED BY <1>3, <1>4, <1>5

\* An expression resolves only if all its names are in the pool, and misses a
\* symbol only if one of them is not.
LEMMA OutcomeFacts ==
    ASSUME NEW expr \in Exprs
    PROVE  /\ Outcome(expr) = "ok" => Named(expr) \subseteq PoolNames
           /\ Outcome(expr) = "missing" => ~(Named(expr) \subseteq PoolNames)
           /\ Outcome(expr) \in {"ok", "missing", "generic"}
<1>1. ASSUME Outcome(expr) = "ok" PROVE Named(expr) \subseteq PoolNames
  <2>1. \A j \in 1 .. Len(expr) : ~Stops(expr[j])
    BY <1>1 DEF Outcome
  <2> QED BY <2>1 DEF Named, Stops, InPool, PoolNames, NameOf, Exprs
<1>2. ASSUME Outcome(expr) = "missing" PROVE ~(Named(expr) \subseteq PoolNames)
  <2>1. PICK j \in 1 .. Len(expr) : FirstStop(expr, j) /\ expr[j].op = "named"
    BY <1>2 DEF Outcome
  <2>2. ~InPool(expr[j].name)
    BY <2>1 DEF FirstStop, Stops
  <2>3. expr[j].name \in Named(expr)
    BY <2>1 DEF Named, Exprs
  <2> QED BY <2>2, <2>3 DEF InPool, PoolNames, NameOf
<1> QED BY <1>1, <1>2 DEF Outcome

\* The program never changes, and with it everything that depends on it alone.
LEMMA SameProgram ==
    ASSUME prog' = prog
    PROVE  /\ NumDecls' = NumDecls /\ DeclIds' = DeclIds
           /\ Aliases' = Aliases /\ Uniques' = Uniques
           /\ \A d : NameOf(d)' = NameOf(d) /\ Target(d)' = Target(d)
           /\ Resolvable' = Resolvable
<1>1. NumDecls' = NumDecls /\ DeclIds' = DeclIds
  BY DEF NumDecls, DeclIds
<1>2. Aliases' = Aliases /\ Uniques' = Uniques
  BY <1>1 DEF Aliases, Uniques
<1>3. \A d : NameOf(d)' = NameOf(d) /\ Target(d)' = Target(d)
  BY DEF NameOf, Target
<1>4. \A s : Closed(s)' <=> Closed(s)
  BY <1>2, <1>3 DEF Closed
<1>5. Resolvable' = Resolvable
  BY <1>4 DEF Resolvable
<1> QED BY <1>1, <1>2, <1>3, <1>5

\* As long as the pool does not change, expressions resolve as before.
LEMMA SamePool ==
    ASSUME prog' = prog, published' = published
    PROVE  /\ PoolNames' = PoolNames
           /\ \A e : Outcome(e)' = Outcome(e)
           /\ \A n : AllMissing(n)' <=> AllMissing(n)
<1>1. PoolNames' = PoolNames
  BY SameProgram DEF PoolNames, NameOf
<1>2. \A x : InPool(x)' <=> InPool(x)
  BY DEF InPool
<1>3. \A x : Stops(x)' <=> Stops(x)
  BY <1>2 DEF Stops
<1>4. \A e, j : FirstStop(e, j)' <=> FirstStop(e, j)
  BY <1>3 DEF FirstStop
<1>5. \A e : Outcome(e)' = Outcome(e)
  BY <1>3, <1>4 DEF Outcome
<1>6. \A n : AllMissing(n)' <=> AllMissing(n)
  BY <1>5, SameProgram DEF AllMissing
<1> QED BY <1>1, <1>5, <1>6

\* A step that leaves the pool alone keeps what is said of the pool.
LEMMA PoolKept ==
    ASSUME IInv, prog' = prog, published' = published
    PROVE  NamesDenoteOneType' /\ PoolIsSound' /\ AliasesAreGrounded'
<1>1. NamesDenoteOneType'
  BY SameProgram DEF IInv, NamesDenoteOneType
<1>2. PoolIsSound'
  BY SameProgram, SamePool DEF IInv, PoolIsSound
<1>3. AliasesAreGrounded'
  BY SameProgram, SamePool DEF IInv, AliasesAreGrounded
<1> QED BY <1>1, <1>2, <1>3

\* The pool is the least fixed point as soon as no alias is left that could be
\* added to it.
LEMMA FixedPoint ==
    ASSUME ControlOK, PoolIsSound, Uniques \subseteq published,
           \A d \in Aliases \ published : ~(Named(Target(d)) \subseteq PoolNames)
    PROVE  PoolNames = Resolvable
<1>1. PoolNames \in SUBSET Names
  BY BuiltinsAssumption, ProgramShape DEF PoolNames, ControlOK, Aliases, Uniques
<1>2. Closed(PoolNames)
  BY DEF Closed, PoolNames
<1>3. Resolvable \subseteq PoolNames
  BY <1>1, <1>2 DEF Resolvable
<1> QED BY <1>3 DEF PoolIsSound

-----------------------------------------------------------------------------
(* The control state.                                                      *)

LEMMA ControlInit == Init => ControlOK
<1> SUFFICES ASSUME Init PROVE ControlOK
  OBVIOUS
<1>1. prog.decls \in Seq(Decls)
  BY ProgramsAssumption DEF Init, Program
<1>2. NumDecls \in Nat
  BY <1>1 DEF NumDecls
<1>3. prog \in Programs /\ pos \in 1 .. NumDecls + 1
  BY <1>2 DEF Init
<1>4. phase \in DOMAIN Following
  BY DEF Init, Following
<1> QED BY <1>3, <1>4 DEF Init, ControlOK

LEMMA ControlStep ==
    ASSUME ControlOK, [Next]_vars PROVE ControlOK'
<1> USE DEF ControlOK
<1>1. NumDecls \in Nat /\ DeclIds = 1 .. NumDecls
  BY ProgramShape DEF DeclIds
<1>2. prog' = prog
  BY DEF Next, PublishUnique, SkipAlias, ResolveAlias, NextPass, ResolveDecl,
         ResolveAnonymous, EndLoop, FailLoop, vars
<1>3. UNCHANGED <<NumDecls, Aliases, Uniques>>
  BY <1>2, SameProgram
<1>4. CASE PublishUnique
  <2>1. published' \subseteq Aliases \union Uniques
    BY <1>1, <1>4 DEF PublishUnique, Uniques, Decl
  <2>2. ok' \in BOOLEAN
    BY <1>4 DEF PublishUnique
  <2>3. pos' \in 1 .. NumDecls' + 1
    BY <1>1, <1>3, <1>4 DEF PublishUnique
  <2> QED BY <1>2, <1>3, <1>4, <2>1, <2>2, <2>3 DEF PublishUnique
<1>5. CASE SkipAlias
  BY <1>1, <1>3, <1>5 DEF SkipAlias
<1>6. CASE ResolveAlias
  <2>1. published' \subseteq Aliases \union Uniques
    BY <1>1, <1>6 DEF ResolveAlias, Aliases, Unpublished
  <2>2. resolved' \in {resolved, resolved + 1} /\ unresolved' \in {unresolved, unresolved + 1}
    BY <1>6 DEF ResolveAlias
  <2>3. nonResolveError' \in BOOLEAN
    BY <1>6 DEF ResolveAlias
  <2>4. pos' \in 1 .. NumDecls' + 1
    BY <1>1, <1>3, <1>6 DEF ResolveAlias
  <2>5. UNCHANGED <<prog, phase, emit, ok>>
    BY <1>6 DEF ResolveAlias
  <2>6. resolved' \in Nat /\ unresolved' \in Nat
    BY <2>2
  <2> QED BY <1>2, <1>3, <2>1, <2>3, <2>4, <2>5, <2>6
<1>7. CASE NextPass
  <2>1. emit' \in BOOLEAN
    BY <1>7 DEF NextPass
  <2>2. pos' \in 1 .. NumDecls' + 1
    BY <1>1, <1>3, <1>7 DEF NextPass
  <2>3. resolved' \in Nat /\ unresolved' \in Nat /\ nonResolveError' \in BOOLEAN
    BY <1>7 DEF NextPass
  <2>4. UNCHANGED <<phase, published, ok>>
    BY <1>7 DEF NextPass
  <2> QED BY <1>2, <1>3, <2>1, <2>2, <2>3, <2>4
<1>8. CASE ResolveDecl
  <2>1. ok' \in BOOLEAN
    BY <1>8 DEF ResolveDecl
  <2> QED BY <1>1, <1>3, <1>8, <2>1 DEF ResolveDecl
<1>9. CASE ResolveAnonymous
  <2>1. ok' \in BOOLEAN
    BY <1>9 DEF ResolveAnonymous
  <2> QED BY <1>1, <1>3, <1>9, <2>1 DEF ResolveAnonymous
<1>10. CASE EndLoop
  BY <1>1, <1>3, <1>10 DEF EndLoop, Following
<1>11. CASE FailLoop
  BY <1>1, <1>3, <1>11 DEF FailLoop, Following
<1>12. CASE UNCHANGED vars
  BY <1>3, <1>12 DEF vars
<1> QED BY <1>4, <1>5, <1>6, <1>7, <1>8, <1>9, <1>10, <1>11, <1>12 DEF Next

-----------------------------------------------------------------------------
(* The actions, one lemma for each that touches what the invariant says.   *)

\* The verdict on the aliases that are left is not among the other diagnostics.
LEMMA OtherCodes ==
    /\ \A e, b : "unresolved_symbols" \notin Emitted(e, b)
    /\ \A body : "unresolved_symbols" \notin EmittedBy(body)
<1>1. \A op : "unresolved_symbols" \notin ErrorOf(op)
  BY DEF ErrorOf
<1>2. \A e, b : "unresolved_symbols" \notin Emitted(e, b)
  BY <1>1, Zenon DEF Emitted
<1>3. \A body : "unresolved_symbols" \notin EmittedBy(body)
  BY <1>2 DEF EmittedBy
<1> QED BY <1>2, <1>3

\* Before the analysis has failed there is no verdict to be right about.
LEMMA NoVerdictYet ==
    ASSUME IInv, phase # "failed", CyclesReported' => CyclesReported
    PROVE  UnresolvedOnlyOnFailure' /\ UnresolvedAreUnresolvable'
BY DEF IInv, UnresolvedOnlyOnFailure, UnresolvedAreUnresolvable

\* Whatever is added to the diagnostics about a declaration is not the verdict.
LEMMA NotAboutDecl ==
    ASSUME ControlOK, NEW codes,
           diags' \subseteq diags \union At(codes, pos)
    PROVE  CyclesReported' => CyclesReported
<1>1. pos # 0
  BY ProgramShape DEF ControlOK
<1>2. [code |-> "unresolved_symbols", at |-> 0] \notin At(codes, pos)
  BY <1>1 DEF At
<1> QED BY <1>2 DEF CyclesReported

LEMMA PublishUniqueStep ==
    ASSUME IInv, PublishUnique PROVE IInv'
<1>1. ControlOK /\ ControlOK' /\ prog' = prog /\ phase = "publish" /\ phase' = phase
  BY ControlStep DEF IInv, PublishUnique, Next
<1>2. pos \in DeclIds /\ pos' = pos + 1 /\ pos \in Nat
  BY <1>1, ProgramShape DEF PublishUnique, ControlOK, DeclIds
<1>3. FreshCounters' /\ PassIsRight'
  BY <1>1 DEF PublishUnique, IInv, FreshCounters, PassIsRight
<1>4. UnresolvedOnlyOnFailure' /\ UnresolvedAreUnresolvable'
  <2>1. CyclesReported' => CyclesReported
    <3>1. diags' \subseteq diags \union At({"duplicate_symbol"}, pos)
      BY DEF PublishUnique
    <3> QED BY <1>1, <3>1, NotAboutDecl
  <2> QED BY <1>1, <2>1, NoVerdictYet
<1>5. UniquesComeFirst'
  <2> SUFFICES ASSUME ok', NEW d \in Uniques, d < pos + 1 PROVE d \in published'
    BY <1>1, <1>2, SameProgram DEF UniquesComeFirst
  <2>1. ok /\ published \subseteq published'
    BY <1>1 DEF PublishUnique, ControlOK
  <2>2. CASE d < pos
    BY <1>1, <2>1, <2>2 DEF IInv, UniquesComeFirst
  <2>3. CASE d = pos
    BY <2>3 DEF PublishUnique, Decl, Uniques, ControlOK, IInv
  <2> QED BY <1>1, <1>2, <2>2, <2>3, ProgramShape DEF Uniques, DeclIds
<1>6. CASE published' = published
  BY <1>1, <1>3, <1>4, <1>5, <1>6, PoolKept DEF IInv
<1>7. CASE published' # published
  <2>1. /\ published' = published \union {pos} /\ pos \in Uniques
        /\ NameOf(pos) \notin PoolNames
    BY <1>2, <1>7 DEF PublishUnique, Decl, InPool, PoolNames, NameOf, Uniques
  <2>2. PoolNames' = PoolNames \union {NameOf(pos)}
    BY <1>1, <2>1, SameProgram DEF PoolNames, NameOf
  <2>3. NamesDenoteOneType'
    BY <1>1, <2>1, SameProgram DEF IInv, NamesDenoteOneType, PoolNames
  <2>4. NameOf(pos) \in Resolvable
    BY <1>1, <1>2, <2>1, ProgramShape DEF Resolvable, Closed
  <2>5. PoolIsSound'
    BY <1>1, <2>2, <2>4, SameProgram DEF IInv, PoolIsSound
  <2>6. AliasesAreGrounded'
    <3>1. pos \notin Aliases
      BY <2>1 DEF Aliases, Uniques
    <3> QED BY <1>1, <2>1, <2>2, <3>1, SameProgram DEF IInv, AliasesAreGrounded
  <2> QED BY <1>1, <1>3, <1>4, <1>5, <2>3, <2>5, <2>6 DEF IInv
<1> QED BY <1>6, <1>7

LEMMA ResolveAliasStep ==
    ASSUME IInv, ResolveAlias PROVE IInv'
<1> DEFINE outcome == Outcome(Target(pos))
           enters  == outcome = "ok" /\ NameOf(pos) \notin PoolNames
<1>1. /\ ControlOK /\ ControlOK' /\ prog' = prog /\ emit' = emit /\ pos' = pos + 1
      /\ phase = "resolve" /\ phase' = phase
  BY ControlStep DEF IInv, ResolveAlias, Next
<1>2. pos \in Aliases /\ pos \notin published /\ pos \in Nat /\ pos \in DeclIds
  BY <1>1, ProgramShape DEF ResolveAlias, Unpublished, ControlOK, DeclIds, Aliases
<1>3. /\ published' = IF enters THEN published \union {pos} ELSE published
      /\ resolved' = IF enters THEN resolved + 1 ELSE resolved
      /\ unresolved' = IF outcome # "ok" THEN unresolved + 1 ELSE unresolved
  BY <1>1 DEF ResolveAlias, InPool, Decl, PoolNames, NameOf
<1>4. ~nonResolveError' => /\ ~nonResolveError /\ outcome # "generic"
                           /\ outcome = "ok" => enters
  BY <1>1 DEF ResolveAlias, InPool, Decl, PoolNames, NameOf
<1> HIDE DEF outcome
<1>5. /\ outcome \in {"ok", "missing", "generic"}
      /\ outcome = "ok" => Named(Target(pos)) \subseteq PoolNames
      /\ outcome = "missing" => ~(Named(Target(pos)) \subseteq PoolNames)
  BY <1>1, <1>2, OutcomeFacts, ProgramShape DEF outcome
<1>6. FreshCounters' /\ UniquesComeFirst' /\ published \subseteq published'
  BY <1>1, <1>3, SameProgram DEF FreshCounters, UniquesComeFirst, IInv
<1>7. UnresolvedOnlyOnFailure' /\ UnresolvedAreUnresolvable'
  <2>1. diags' \subseteq diags \union At(Emitted(Target(pos), emit) \union {"duplicate_symbol"}, pos)
    BY DEF ResolveAlias, At
  <2> QED BY <1>1, <2>1, NotAboutDecl, NoVerdictYet
<1>8. emit => AllMissing(NumDecls + 1)
  BY <1>1 DEF IInv, PassIsRight
<1>9. emit => ~enters
  BY <1>1, <1>2, <1>8, ProgramShape DEF AllMissing, outcome, DeclIds
<1>10. PassIsRight'
  <2>1. ASSUME ~nonResolveError', resolved' = 0 PROVE AllMissing(pos)'
    <3>1. resolved \in Nat
      BY <1>1 DEF ControlOK
    <3>2. ~enters /\ resolved = 0
      BY <1>3, <2>1, <3>1
    <3>3. ~enters /\ resolved = 0 /\ ~nonResolveError /\ outcome = "missing"
      BY <1>4, <1>5, <2>1, <3>2
    <3>4. AllMissing(pos)
      BY <1>1, <3>3 DEF IInv, PassIsRight
    <3>5. AllMissing(pos + 1)
      BY <1>2, <3>3, <3>4, ProgramShape, <1>1 DEF AllMissing, outcome, Aliases, DeclIds
    <3>6. published' = published
      BY <1>3, <3>3
    <3> QED BY <1>1, <3>5, <3>6, SamePool
  <2>2. ASSUME ~nonResolveError', unresolved' = 0, NEW d \in Aliases, d < pos + 1
        PROVE  d \in published'
    <3>1. unresolved \in Nat
      BY <1>1 DEF ControlOK
    <3>2. outcome = "ok" /\ unresolved = 0
      BY <1>3, <2>2, <3>1
    <3>3. outcome = "ok" /\ enters /\ unresolved = 0 /\ ~nonResolveError
      BY <1>4, <2>2, <3>2
    <3>4. d < pos \/ d = pos
      BY <1>1, <1>2, <2>2, ProgramShape DEF Aliases, DeclIds
    <3> QED BY <1>1, <1>3, <2>2, <3>3, <3>4 DEF IInv, PassIsRight
  <2>3. ASSUME emit PROVE AllMissing(NumDecls + 1)'
    <3>1. published' = published
      BY <1>3, <1>9, <2>3
    <3> QED BY <1>1, <1>8, <2>3, <3>1, SamePool, SameProgram
  <2> QED BY <1>1, <2>1, <2>2, <2>3, SameProgram DEF PassIsRight
<1>11. CASE ~enters
  BY <1>1, <1>3, <1>6, <1>7, <1>10, <1>11, PoolKept DEF IInv
<1>12. CASE enters
  <2>1. published' = published \union {pos} /\ pos \notin Uniques
    BY <1>2, <1>3, <1>12 DEF Aliases, Uniques
  <2>2. PoolNames' = PoolNames \union {NameOf(pos)}
    BY <1>1, <2>1, SameProgram DEF PoolNames, NameOf
  <2>3. NamesDenoteOneType'
    BY <1>1, <1>12, <2>1, SameProgram DEF IInv, NamesDenoteOneType, PoolNames
  <2>4. NameOf(pos) \in Resolvable
    <3>1. Named(Target(pos)) \subseteq Resolvable
      BY <1>5, <1>12 DEF IInv, PoolIsSound
    <3>2. ASSUME NEW names \in SUBSET Names, Closed(names) PROVE NameOf(pos) \in names
      BY <1>2, <3>1, <3>2 DEF Closed, Resolvable
    <3> QED BY <1>1, <1>2, <3>2, ProgramShape DEF Resolvable
  <2>5. PoolIsSound'
    BY <1>1, <2>2, <2>4, SameProgram DEF IInv, PoolIsSound
  <2>6. AliasesAreGrounded'
    BY <1>1, <1>5, <1>12, <2>1, <2>2, SameProgram DEF IInv, AliasesAreGrounded
  <2> QED BY <1>1, <1>6, <1>7, <1>10, <2>3, <2>5, <2>6 DEF IInv
<1> QED BY <1>11, <1>12

LEMMA NextPassStep ==
    ASSUME IInv, NextPass PROVE IInv'
<1>1. /\ ControlOK /\ ControlOK' /\ prog' = prog /\ published' = published
      /\ phase = "resolve" /\ phase' = phase /\ diags' = diags
      /\ pos > NumDecls /\ pos' = 1 /\ resolved' = 0 /\ ~nonResolveError
  BY ControlStep DEF IInv, NextPass, LastPass, Next
<1>2. UnresolvedOnlyOnFailure' /\ UnresolvedAreUnresolvable'
  BY <1>1, NoVerdictYet DEF CyclesReported
<1>3. FreshCounters' /\ UniquesComeFirst'
  BY <1>1, SameProgram DEF FreshCounters, UniquesComeFirst, IInv
<1>4. ASSUME emit' PROVE AllMissing(NumDecls + 1)
  <2>1. emit \/ resolved = 0
    BY <1>4 DEF NextPass
  <2>2. pos = NumDecls + 1
    BY <1>1, ProgramShape DEF ControlOK
  <2> QED BY <1>1, <2>1, <2>2 DEF IInv, PassIsRight
<1>5. \A d \in Aliases : ~(d < 1)
  BY <1>1, ProgramShape DEF Aliases, DeclIds
<1>6. PassIsRight'
  BY <1>1, <1>4, <1>5, SamePool, SameProgram DEF PassIsRight, AllMissing
<1> QED BY <1>1, <1>2, <1>3, <1>6, PoolKept DEF IInv

\* The steps that neither touch the pool nor the passes.
LEMMA BystanderStep ==
    ASSUME IInv, ControlOK', prog' = prog, phase' = phase, published' = published,
           phase \notin {"publish", "resolve", "failed"},
           CyclesReported' => CyclesReported
    PROVE  IInv'
<1>1. FreshCounters' /\ UniquesComeFirst' /\ PassIsRight'
  BY SameProgram DEF IInv, FreshCounters, UniquesComeFirst, PassIsRight
<1>2. UnresolvedOnlyOnFailure' /\ UnresolvedAreUnresolvable'
  BY NoVerdictYet
<1> QED BY <1>1, <1>2, PoolKept, SameProgram DEF IInv

LEMMA SkipAliasStep ==
    ASSUME IInv, SkipAlias PROVE IInv'
<1>1. /\ ControlOK /\ ControlOK' /\ pos \in Nat /\ pos' = pos + 1
      /\ UNCHANGED <<prog, phase, published, emit, resolved, unresolved,
                     nonResolveError, diags>>
      /\ phase = "resolve" /\ ~Unpublished(pos)
  BY ControlStep, ProgramShape DEF IInv, SkipAlias, Next, ControlOK
<1>2. FreshCounters' /\ UniquesComeFirst'
  BY <1>1, SameProgram DEF IInv, FreshCounters, UniquesComeFirst
<1>3. \A d \in Aliases : d < pos + 1 /\ d \notin published => d < pos
  BY <1>1, ProgramShape DEF Unpublished, Aliases, DeclIds
<1>4. PassIsRight'
  BY <1>1, <1>3, SamePool, SameProgram DEF IInv, PassIsRight, AllMissing
<1>5. UnresolvedOnlyOnFailure' /\ UnresolvedAreUnresolvable'
  BY <1>1, NoVerdictYet DEF CyclesReported
<1> QED BY <1>1, <1>2, <1>4, <1>5, PoolKept DEF IInv

LEMMA ResolveDeclStep ==
    ASSUME IInv, ResolveDecl PROVE IInv'
<1>1. /\ ControlOK /\ ControlOK' /\ UNCHANGED <<prog, phase, published>>
      /\ phase \notin {"publish", "resolve", "failed"}
  BY ControlStep DEF IInv, ResolveDecl, Next, PhaseKinds
<1>2. diags' \subseteq diags \union At(EmittedBy(Decl.body), pos)
  BY DEF ResolveDecl
<1> QED BY <1>1, <1>2, NotAboutDecl, BystanderStep

LEMMA ResolveAnonymousStep ==
    ASSUME IInv, ResolveAnonymous PROVE IInv'
<1>1. /\ ControlOK /\ ControlOK' /\ UNCHANGED <<prog, phase, published>>
      /\ phase \notin {"publish", "resolve", "failed"}
  BY ControlStep DEF IInv, ResolveAnonymous, Next
<1>2. CyclesReported' => CyclesReported
  BY OtherCodes DEF ResolveAnonymous, CyclesReported, At
<1> QED BY <1>1, <1>2, BystanderStep

\* The order of the loops: only the first is followed by the passes.
LEMMA LoopOrder ==
    ASSUME phase \in DOMAIN Following, phase' = Following[phase]
    PROVE  /\ phase # "failed" /\ phase' \notin {"publish", "failed"}
           /\ phase' = "resolve" <=> phase = "publish"
BY DEF Following

LEMMA EndLoopStep ==
    ASSUME IInv, EndLoop PROVE IInv'
<1>1. /\ ControlOK /\ ControlOK' /\ UNCHANGED <<prog, published, diags, emit, resolved,
                                               unresolved, nonResolveError, ok>>
      /\ pos' = 1 /\ phase \in DOMAIN Following /\ phase' = Following[phase]
      /\ LoopEnds /\ ~LoopFailed
  BY ControlStep DEF IInv, EndLoop, Next
<1>2. phase # "failed" /\ phase' \notin {"publish", "failed"}
      /\ (phase' = "resolve" <=> phase = "publish")
  BY <1>1, LoopOrder
<1>3. UnresolvedOnlyOnFailure' /\ UnresolvedAreUnresolvable'
  BY <1>1, <1>2, NoVerdictYet DEF CyclesReported
<1>4. FreshCounters'
  BY <1>2 DEF FreshCounters
<1>5. Uniques \subseteq published
  <2>1. CASE phase = "publish"
    <3>1. ok /\ pos > NumDecls
      BY <1>1, <2>1 DEF LoopEnds, LoopFailed
    <3>2. \A d \in Uniques : d < pos
      BY <1>1, <3>1, ProgramShape DEF Uniques, DeclIds, ControlOK
    <3> QED BY <2>1, <3>1, <3>2 DEF IInv, UniquesComeFirst
  <2> QED BY <1>2, <2>1 DEF IInv, UniquesComeFirst
<1>6. UniquesComeFirst'
  BY <1>1, <1>2, <1>5, SameProgram DEF UniquesComeFirst
<1>7. PassIsRight'
  <2> SUFFICES ASSUME phase = "publish" PROVE PassIsRight'
    BY <1>2 DEF PassIsRight
  <2>1. ~emit
    BY DEF IInv, FreshCounters
  <2>2. \A d \in Aliases : ~(d < 1)
    BY <1>1, ProgramShape DEF Aliases, DeclIds
  <2> QED BY <1>1, <2>1, <2>2, SameProgram DEF PassIsRight, AllMissing
<1>8. phase' # "resolve" => Aliases \subseteq published
  <2>1. CASE phase = "resolve"
    <3>1. pos > NumDecls /\ ~nonResolveError /\ ~(unresolved > 0)
      BY <1>1, <2>1 DEF LoopEnds, LoopFailed
    <3>2. \A d \in Aliases : d < pos
      BY <1>1, <3>1, ProgramShape DEF Aliases, DeclIds, ControlOK
    <3>3. unresolved = 0
      BY <1>1, <3>1 DEF ControlOK
    <3> QED BY <2>1, <3>1, <3>2, <3>3 DEF IInv, PassIsRight
  <2>2. CASE phase \notin {"publish", "resolve", "failed"}
    BY <2>2 DEF IInv
  <2> QED BY <1>2, <2>1, <2>2
<1> QED BY <1>1, <1>2, <1>3, <1>4, <1>6, <1>7, <1>8, PoolKept, SameProgram DEF IInv

LEMMA FailLoopStep ==
    ASSUME IInv, FailLoop PROVE IInv'
<1>1. /\ ControlOK /\ ControlOK' /\ UNCHANGED <<prog, published>>
      /\ phase' = "failed" /\ phase \in DOMAIN Following
      /\ LoopEnds /\ LoopFailed
  BY ControlStep DEF IInv, FailLoop, Next
<1>2. FreshCounters' /\ UniquesComeFirst' /\ PassIsRight' /\ UnresolvedOnlyOnFailure'
  BY <1>1 DEF FreshCounters, UniquesComeFirst, PassIsRight, UnresolvedOnlyOnFailure
<1>3. ~CyclesReported
  BY <1>1 DEF IInv, UnresolvedOnlyOnFailure, Following
<1>4. ASSUME CyclesReported'
      PROVE  UnresolvedAreUnresolvable'
  <2>1. phase = "resolve" /\ ~nonResolveError
    BY <1>3, <1>4 DEF FailLoop, CyclesReported
  <2>2. pos > NumDecls /\ resolved = 0
    BY <1>1, <2>1 DEF LoopEnds, LastPass
  <2>3. AllMissing(pos) /\ Uniques \subseteq published
    BY <2>1, <2>2 DEF IInv, PassIsRight, UniquesComeFirst
  <2>4. \A d \in Aliases : d < pos
    BY <1>1, <2>2, ProgramShape DEF Aliases, DeclIds, ControlOK
  <2>5. \A d \in Aliases \ published : ~(Named(Target(d)) \subseteq PoolNames)
    BY <1>1, <2>3, <2>4, OutcomeFacts, ProgramShape DEF AllMissing
  <2>6. PoolNames = Resolvable
    BY <1>1, <2>3, <2>5, FixedPoint DEF IInv
  <2>7. \A d \in Aliases : d \in published => Named(Target(d)) \subseteq PoolNames
    BY DEF IInv, AliasesAreGrounded
  <2> QED BY <1>1, <2>5, <2>6, <2>7, SameProgram DEF UnresolvedAreUnresolvable
<1>5. UnresolvedAreUnresolvable'
  BY <1>4 DEF UnresolvedAreUnresolvable
<1> QED BY <1>1, <1>2, <1>5, PoolKept DEF IInv

-----------------------------------------------------------------------------
(* The theorems.                                                           *)

\* At the start nothing is in the pool but the builtins.
LEMMA InvariantInit == Init => IInv
<1> SUFFICES ASSUME Init PROVE IInv
  OBVIOUS
<1>1. ControlOK
  BY ControlInit
<1>2. FreshCounters /\ NamesDenoteOneType /\ AliasesAreGrounded /\ PassIsRight
  BY DEF Init, FreshCounters, NamesDenoteOneType, AliasesAreGrounded, PassIsRight
<1>3. PoolIsSound
  BY BuiltinsAssumption DEF Init, PoolIsSound, PoolNames, Resolvable, Closed
<1>4. UniquesComeFirst
  <2>1. \A d \in Uniques : ~(d < 1)
    BY <1>1, ProgramShape DEF Uniques, DeclIds
  <2> QED BY <2>1 DEF Init, UniquesComeFirst
<1>5. ~CyclesReported
  BY DEF Init, CyclesReported
<1> QED BY <1>1, <1>2, <1>3, <1>4, <1>5
        DEF IInv, Init, UnresolvedOnlyOnFailure, UnresolvedAreUnresolvable

\* Every step of the analyzer keeps the invariant.
LEMMA InvariantStep == IInv /\ [Next]_vars => IInv'
<1> SUFFICES ASSUME IInv, [Next]_vars PROVE IInv'
  OBVIOUS
<1>1. CASE UNCHANGED vars
  <2>1. UNCHANGED <<prog, phase, pos, published, emit, resolved, unresolved,
                    nonResolveError, ok, diags>>
    BY <1>1 DEF vars
  <2>2. ControlOK' /\ FreshCounters' /\ UniquesComeFirst'
    BY <2>1, ControlStep, SameProgram DEF IInv, FreshCounters, UniquesComeFirst
  <2>3. PassIsRight'
    BY <2>1, SamePool, SameProgram DEF IInv, PassIsRight
  <2>4. UnresolvedOnlyOnFailure' /\ UnresolvedAreUnresolvable'
    BY <2>1, SameProgram DEF IInv, UnresolvedOnlyOnFailure,
                             UnresolvedAreUnresolvable, CyclesReported
  <2> QED BY <2>1, <2>2, <2>3, <2>4, PoolKept, SameProgram DEF IInv
<1> QED BY <1>1, PublishUniqueStep, SkipAliasStep, ResolveAliasStep, NextPassStep,
           ResolveDeclStep, ResolveAnonymousStep, EndLoopStep, FailLoopStep DEF Next

\* The invariant holds throughout the analysis of any program.
THEOREM Invariance == Spec => []IInv
BY InvariantInit, InvariantStep, PTL DEF Spec

\* apigen_register_type never lets a name denote two types, or hide a builtin.
THEOREM OneTypePerName == Spec => []NamesDenoteOneType
<1>1. IInv => NamesDenoteOneType
  BY DEF IInv
<1> QED BY Invariance, <1>1, PTL

\* The pool holds only names whose meaning is not circular.
THEOREM PoolSound == Spec => []PoolIsSound
<1>1. IInv => PoolIsSound
  BY DEF IInv
<1> QED BY Invariance, <1>1, PTL

\* Once the passes are through, the pool holds every name that has a meaning,
\* in whatever order the declarations are written.
THEOREM PoolComplete == Spec => []PoolIsComplete
<1>1. ASSUME IInv, phase \notin {"publish", "resolve", "failed"}
      PROVE  PoolNames = Resolvable /\ Aliases \subseteq published
  <2>1. Aliases \subseteq published /\ Uniques \subseteq published
    BY <1>1 DEF IInv, UniquesComeFirst
  <2> QED BY <1>1, <2>1, FixedPoint DEF IInv
<1>2. IInv => PoolIsComplete
  BY <1>1 DEF PoolIsComplete
<1> QED BY Invariance, <1>2, PTL

\* The aliases reported as cyclic or undeclared are exactly those without a
\* meaning, whatever else the program declares.
THEOREM VerdictIsRight == Spec => []UnresolvedAreUnresolvable
<1>1. IInv => UnresolvedAreUnresolvable
  BY DEF IInv
<1> QED BY Invariance, <1>1, PTL

\* No alias is resolved in a pass that reports missing names.
THEOREM ReportingPassFindsNothing == Spec => []ReportingPassResolvesNothing
<1> DEFINE J == ReportingPassResolvesNothing
<1>1. Init => J
  BY DEF Init, ReportingPassResolvesNothing
<1>2. IInv /\ J /\ [Next]_vars => J'
  <2> SUFFICES ASSUME IInv, J, [Next]_vars PROVE J'
    OBVIOUS
  <2>1. CASE ResolveAlias
    <3>1. ControlOK /\ phase = "resolve" /\ emit' = emit /\ phase' = phase
      BY <2>1 DEF ResolveAlias, IInv
    <3>2. pos \in Aliases /\ pos < NumDecls + 1 /\ pos \notin published
      BY <2>1, <3>1, ProgramShape DEF ResolveAlias, Unpublished, ControlOK, Aliases, DeclIds
    <3>3. emit => Outcome(Target(pos)) = "missing"
      BY <3>1, <3>2 DEF IInv, PassIsRight, AllMissing
    <3>4. emit => resolved' = resolved
      BY <2>1, <3>3 DEF ResolveAlias
    <3> QED BY <3>1, <3>4 DEF ReportingPassResolvesNothing
  <2>2. CASE NextPass
    BY <2>2 DEF NextPass, ReportingPassResolvesNothing
  <2>3. CASE EndLoop
    <3>1. /\ phase \in DOMAIN Following /\ phase' = Following[phase]
          /\ resolved' = resolved
      BY <2>3 DEF EndLoop
    <3>2. phase' = "resolve" => phase = "publish"
      BY <3>1, LoopOrder
    <3> QED BY <3>1, <3>2 DEF IInv, FreshCounters, ReportingPassResolvesNothing
  <2>4. CASE PublishUnique \/ SkipAlias \/ ResolveDecl \/ ResolveAnonymous
             \/ UNCHANGED vars
    BY <2>4 DEF PublishUnique, SkipAlias, ResolveDecl, ResolveAnonymous, vars,
                ReportingPassResolvesNothing
  <2>5. CASE FailLoop
    BY <2>5 DEF FailLoop, ReportingPassResolvesNothing
  <2> QED BY <2>1, <2>2, <2>3, <2>4, <2>5 DEF Next
<1> QED BY Invariance, <1>1, <1>2, PTL DEF Spec

\* An alias enters the pool after the names it uses, so chains of aliases end.
THEOREM AliasesLookBack == Spec => AliasesPointBackwards
<1> DEFINE Backwards == \A d \in published' \ published :
                           d \in Aliases => Named(Target(d)) \subseteq PoolNames
<1>1. ASSUME IInv, [Next]_vars PROVE Backwards
  <2>1. ControlOK
    BY <1>1 DEF IInv
  <2>2. CASE ResolveAlias
    <3>1. ASSUME NEW d \in published' \ published, d \in Aliases
          PROVE  Named(Target(d)) \subseteq PoolNames
      <4>1. d = pos /\ Outcome(Target(pos)) = "ok"
        BY <2>2, <3>1 DEF ResolveAlias
      <4> QED BY <2>1, <3>1, <4>1, OutcomeFacts, ProgramShape
    <3> QED BY <3>1
  <2>3. CASE PublishUnique
    <3>1. \A d \in published' \ published : d \notin Aliases
      BY <2>3 DEF PublishUnique, Decl, Aliases
    <3> QED BY <3>1
  <2>4. CASE published' = published
    BY <2>4
  <2> QED BY <1>1, <2>2, <2>3, <2>4 DEF Next, SkipAlias, NextPass, ResolveDecl,
             ResolveAnonymous, EndLoop, FailLoop, vars
<1>2. IInv /\ [Next]_vars => [Backwards]_vars
  BY <1>1
<1> QED BY Invariance, <1>2, PTL DEF Spec, AliasesPointBackwards

-----------------------------------------------------------------------------
(* What is reported, and what the document holds.                          *)

\* An alias that can never enter the pool.
Plain(expr) == \A j \in DOMAIN expr : expr[j].op \notin {"size", "params"}
Doomed(d)   == ~Plain(Target(d)) \/ ~(Named(Target(d)) \subseteq Resolvable)

AliasesArePlain == \A d \in published \intersect Aliases : Plain(Target(d))

\* A diagnostic that makes the analysis fail, or will in the end.
IsError(x) == x.code # "reported"
Failing    == ~ok \/ nonResolveError \/ phase = "failed"

ReportsLastingErrors ==
    \A x \in diags : IsError(x) => Failing \/ (x.at \in Aliases /\ Doomed(x.at))

\* The flags are clear in the loops that do not use them.
FlagsAreClear ==
    /\ phase \notin {"publish", "resolve", "failed"} => ~nonResolveError
    /\ phase \in {"resolve", "done"} => ok

\* The inductive invariant behind the theorems about the diagnostics.
ReportInv ==
    /\ NoFalseAlarm
    /\ AliasesArePlain
    /\ ReportsLastingErrors
    /\ Failing => \E x \in diags : IsError(x)
    /\ FlagsAreClear

\* The loops after the one that resolves the declarations of a kind.
After == [unique    |-> {"variables", "functions", "constexprs", "anonymous", "done"},
          variable  |-> {"functions", "constexprs", "anonymous", "done"},
          function  |-> {"constexprs", "anonymous", "done"},
          constexpr |-> {"anonymous", "done"}]

\* The declarations that were resolved so far.
Handled(d) ==
    LET kind == prog.decls[d].kind
    IN  IF kind = "alias" THEN d \in published
        ELSE \/ phase \in After[kind]
             \/ phase \in DOMAIN PhaseKinds /\ kind = PhaseKinds[phase] /\ d < pos

Seen == Range(queue) \union Range(ready)

\* The anonymous types of what was resolved are queued, or were.
NodesAreSeen ==
    ok /\ phase # "failed" =>
        /\ \A d \in DeclIds : Handled(d) => NodesIn(prog.decls[d].body) \subseteq Seen
        /\ \A m \in Range(ready) : NodesIn(prog.nodes[m]) \subseteq Seen

TypesAreStored ==
    /\ phase \in {"variables", "functions", "constexprs", "anonymous"} =>
          Range(types) = Aliases \union Uniques
    /\ phase = "done" => /\ Range(types) = Aliases \union Uniques \union Range(ready)
                         /\ queue = <<>>

\* The inductive invariant behind the theorems about the document.
DocumentInv ==
    /\ TypeOK
    /\ Seen \subseteq ReachedNodes
    /\ NodesAreSeen
    /\ TypesAreStored

-----------------------------------------------------------------------------
(* Sequences and expressions.                                              *)

\* Induction over the natural numbers, for a set of them.
LEMMA Induction ==
    ASSUME NEW S, 0 \in S, \A n \in Nat : n \in S => n + 1 \in S
    PROVE  \A n \in Nat : n \in S
<1> SUFFICES ASSUME Nat \ S # {} PROVE FALSE
  OBVIOUS
<1> DEFINE Less == {ss \in Nat \X Nat : ss[1] < ss[2]}
<1>1. IsWellFoundedOn(Less, Nat)
  BY NatLessThanWellFounded DEF OpToRel
<1>2. PICK x \in Nat \ S : \A y \in Nat \ S : ~(<<y, x>> \in Less)
  <2>1. Nat \ S \subseteq Nat
    OBVIOUS
  <2> QED
    BY <1>1, <2>1, WFMin
<1>3. \A y \in Nat \ S : ~(y < x)
  BY <1>2
<1>4. x # 0 /\ x - 1 \in Nat
  BY <1>2
<1>5. x - 1 \in S
  BY <1>3, <1>4
<1> QED
  BY <1>2, <1>4, <1>5

\* What a sequence holds that is made of two.
LEMMA JoinedRange ==
    ASSUME NEW M, NEW s \in Seq(M), NEW t \in Seq(M)
    PROVE  s \o t \in Seq(M) /\ Range(s \o t) = Range(s) \union Range(t)
<1>1. Range(s \o t) \subseteq Range(s) \union Range(t)
  <2> SUFFICES ASSUME NEW i \in DOMAIN (s \o t) PROVE (s \o t)[i] \in Range(s) \union Range(t)
    BY DEF Range
  <2>1. i \in 1 .. Len(s) + Len(t)
    OBVIOUS
  <2>2. CASE i <= Len(s)
    <3>1. i \in DOMAIN s /\ (s \o t)[i] = s[i]
      BY <2>1, <2>2
    <3> QED
      BY <3>1 DEF Range
  <2>3. CASE ~(i <= Len(s))
    <3>1. i - Len(s) \in DOMAIN t /\ (s \o t)[i] = t[i - Len(s)]
      BY <2>1, <2>3
    <3> QED
      BY <3>1 DEF Range
  <2> QED
    BY <2>2, <2>3
<1>2. \A i \in DOMAIN s : i \in DOMAIN (s \o t) /\ (s \o t)[i] = s[i]
  OBVIOUS
<1>3. \A i \in DOMAIN t : Len(s) + i \in DOMAIN (s \o t) /\ (s \o t)[Len(s) + i] = t[i]
  OBVIOUS
<1>4. s \o t \in Seq(M)
  OBVIOUS
<1>5. Range(s) \union Range(t) \subseteq Range(s \o t)
  BY <1>2, <1>3 DEF Range
<1> QED
  BY <1>1, <1>4, <1>5

\* Joining sequences keeps all their members and adds none.
LEMMA Flattened ==
    ASSUME NEW M, NEW parts \in Seq(Seq(M))
    PROVE  /\ FlattenSeq(parts) \in Seq(M)
           /\ Range(FlattenSeq(parts)) = UNION {Range(parts[n]) : n \in DOMAIN parts}
<1> DEFINE k == Len(parts)
           Joined(f, i) == IF i = 1 THEN parts[i] ELSE f[i - 1] \o parts[i]
           Holds(f, i) == f[i] \in Seq(M) /\ Range(f[i]) = UNION {Range(parts[n]) : n \in 1 .. i}
           Upto(f, n) == \A i \in 1 .. k : i <= n => f[i] = Joined(f, i)
           S == {n \in Nat : \E f : f = [i \in 1 .. k |-> f[i]] /\ Upto(f, n)}
           F == CHOOSE h : h = [i \in 1 .. k |-> Joined(h, i)]
           T == {n \in Nat : \A i \in 1 .. k : i <= n => Holds(F, i)}
<1>0. k \in Nat /\ DOMAIN parts = 1 .. k /\ \A i \in 1 .. k : parts[i] \in Seq(M)
  OBVIOUS
<1>1. \A s, t \in Seq(M) : s \o t \in Seq(M) /\ Range(s \o t) = Range(s) \union Range(t)
  BY JoinedRange
<1>2. 0 \in S
  <2> DEFINE f == [i \in 1 .. k |-> <<>>]
  <2>1. f = [i \in 1 .. k |-> f[i]]
    OBVIOUS
  <2>2. Upto(f, 0)
    BY <1>0
  <2> HIDE DEF f, Upto
  <2> QED
    BY <2>1, <2>2
<1>3. ASSUME NEW n \in Nat, n \in S PROVE n + 1 \in S
  <2>1. PICK f : f = [i \in 1 .. k |-> f[i]] /\ Upto(f, n)
    BY <1>3
  <2> DEFINE g == [i \in 1 .. k |-> Joined(f, i)]
  <2>2. g = [i \in 1 .. k |-> g[i]]
    OBVIOUS
  <2>3. \A i \in 1 .. k : i <= n => f[i] = g[i]
    BY <2>1
  <2>4. Upto(g, n + 1)
    <3> SUFFICES ASSUME NEW i \in 1 .. k, i <= n + 1 PROVE g[i] = Joined(g, i)
      OBVIOUS
    <3>1. i # 1 => i - 1 \in 1 .. k /\ i - 1 <= n
      BY <1>0
    <3>2. g[i] = Joined(f, i)
      OBVIOUS
    <3> HIDE DEF g
    <3> QED
      BY <2>3, <3>1, <3>2
  <2> HIDE DEF g, Upto
  <2> QED
    BY <2>2, <2>4
<1>4. k \in S
  <2> HIDE DEF S
  <2> QED
    BY <1>0, <1>2, <1>3, Induction
<1>5. PICK f : f = [i \in 1 .. k |-> f[i]] /\ Upto(f, k)
  BY <1>4
<1>6. f = [i \in 1 .. k |-> Joined(f, i)]
  <2>1. \A i \in 1 .. k : i <= k
    BY <1>0
  <2>2. \A i \in 1 .. k : f[i] = Joined(f, i)
    BY <1>5, <2>1
  <2> HIDE DEF Joined
  <2> QED
    BY <1>5, <2>2
<1>7. F = [i \in 1 .. k |-> Joined(F, i)]
  BY <1>6
<1> HIDE DEF F
<1>8. 0 \in T
  BY <1>0
<1>9. ASSUME NEW n \in Nat, n \in T PROVE n + 1 \in T
  <2> SUFFICES ASSUME NEW i \in 1 .. k, i = n + 1 PROVE Holds(F, i)
    <3>1. \A i \in 1 .. k : i <= n + 1 => i <= n \/ i = n + 1
      BY <1>0, SMTT(30)
    <3> HIDE DEF Holds
    <3> QED
      BY <1>9, <3>1
  <2>1. F[i] = Joined(F, i)
    BY <1>7
  <2>2. CASE i = 1
    <3>1. \A m : m \in 1 .. i <=> m = 1
      BY <2>2
    <3>2. UNION {Range(parts[m]) : m \in 1 .. i} = Range(parts[1])
      BY <3>1
    <3> QED
      BY <1>0, <2>1, <2>2, <3>2
  <2>3. CASE i # 1
    <3>1. i - 1 \in 1 .. k /\ i - 1 <= n
      BY <1>0, <2>3
    <3>2. Holds(F, i - 1)
      BY <1>9, <3>1
    <3>3. \A m : m \in 1 .. i <=> m \in 1 .. i - 1 \/ m = i
      BY <1>0
    <3>4. UNION {Range(parts[m]) : m \in 1 .. i}
            = (UNION {Range(parts[m]) : m \in 1 .. i - 1}) \union Range(parts[i])
      BY <3>3
    <3> QED
      <4>1. F[i] = F[i - 1] \o parts[i] /\ parts[i] \in Seq(M) /\ F[i - 1] \in Seq(M)
        BY <1>0, <2>1, <2>3, <3>2
      <4>2. F[i] \in Seq(M) /\ Range(F[i]) = Range(F[i - 1]) \union Range(parts[i])
        BY <1>1, <4>1
      <4> QED
        BY <3>2, <3>4, <4>2, Zenon
  <2> QED
    BY <2>2, <2>3
<1>10. k \in T
  <2> HIDE DEF T
  <2> QED
    BY <1>0, <1>8, <1>9, Induction
<1>11. CASE k = 0
  <2>1. FlattenSeq(parts) = parts /\ parts = <<>>
    BY <1>0, <1>11 DEF FlattenSeq
  <2> QED
    BY <1>0, <1>11, <2>1 DEF Range
<1>12. CASE k # 0
  <2>1. FlattenSeq(parts) = F[k]
    BY <1>12 DEF FlattenSeq, F
  <2>2. Holds(F, k)
    <3>1. k \in 1 .. k
      BY <1>0, <1>12
    <3> HIDE DEF Holds
    <3> QED
      BY <1>10, <3>1
  <2> QED
    BY <1>0, <2>1, <2>2
<1> QED
  BY <1>11, <1>12

\* Where one thing stops the resolution, one of them stops it first.
LEMMA FirstStopExists ==
    ASSUME NEW expr \in Exprs, NEW i \in 1 .. Len(expr), Stops(expr[i])
    PROVE  \E j \in 1 .. Len(expr) : FirstStop(expr, j)
<1> DEFINE Less == {ss \in Nat \X Nat : ss[1] < ss[2]}
           T == {j \in 1 .. Len(expr) : Stops(expr[j])}
<1>1. IsWellFoundedOn(Less, Nat)
  BY NatLessThanWellFounded DEF OpToRel
<1>2. T \subseteq Nat /\ T # {} /\ Len(expr) \in Nat
  BY DEF Exprs
<1>3. PICK j \in T : \A m \in T : ~(<<m, j>> \in Less)
  <2> HIDE DEF T, Less
  <2> QED
    BY <1>1, <1>2, WFMin
<1>4. ASSUME NEW k \in 1 .. j - 1 PROVE ~Stops(expr[k])
  <2>1. k \in 1 .. Len(expr) /\ <<k, j>> \in Less
    BY <1>2, <1>3
  <2> QED
    BY <1>3, <2>1
<1> QED
  BY <1>3, <1>4 DEF FirstStop

\* What is visited: all of an expression that resolves, otherwise what comes
\* before the first obstacle, and that one.
LEMMA VisitedPart ==
    ASSUME NEW expr \in Exprs
    PROVE  /\ Outcome(expr) = "ok" =>
                 Visited(expr) = expr /\ \A j \in 1 .. Len(expr) : ~Stops(expr[j])
           /\ Outcome(expr) # "ok" => \E j \in 1 .. Len(expr) :
                 /\ FirstStop(expr, j)
                 /\ Visited(expr) = SubSeq(expr, 1, j)
                 /\ Outcome(expr) = "missing" <=> expr[j].op = "named"
<1>0. expr \in Seq(Atoms) /\ Len(expr) \in Nat
  BY DEF Exprs
<1>1. ASSUME Outcome(expr) = "ok"
      PROVE  Visited(expr) = expr /\ \A j \in 1 .. Len(expr) : ~Stops(expr[j])
  <2>1. \A j \in 1 .. Len(expr) : ~Stops(expr[j])
    BY <1>1 DEF Outcome
  <2>2. Visited(expr) = SubSeq(expr, 1, Len(expr))
    BY <1>1 DEF Visited
  <2>3. SubSeq(expr, 1, Len(expr)) = expr
    BY <1>0
  <2> QED
    BY <2>1, <2>2, <2>3
<1>2. ASSUME Outcome(expr) # "ok"
      PROVE  \E j \in 1 .. Len(expr) :
                 /\ FirstStop(expr, j)
                 /\ Visited(expr) = SubSeq(expr, 1, j)
                 /\ Outcome(expr) = "missing" <=> expr[j].op = "named"
  <2>1. PICK i \in 1 .. Len(expr) : Stops(expr[i])
    BY <1>2 DEF Outcome
  <2>2. \E j \in 1 .. Len(expr) : FirstStop(expr, j)
    BY <2>1, FirstStopExists
  <2> DEFINE j == CHOOSE j \in 1 .. Len(expr) : FirstStop(expr, j)
  <2>3. j \in 1 .. Len(expr) /\ FirstStop(expr, j)
    BY <2>2
  <2>4. Visited(expr) = SubSeq(expr, 1, j)
    BY <1>2 DEF Visited
  <2> HIDE DEF j
  <2>5. ASSUME NEW k \in 1 .. Len(expr), FirstStop(expr, k) PROVE k = j
    BY <1>0, <2>3, <2>5 DEF FirstStop
  <2>6. Outcome(expr) = "missing" <=> expr[j].op = "named"
    BY <2>1, <2>3, <2>5 DEF Outcome
  <2> QED
    BY <2>3, <2>4, <2>6
<1> QED
  BY <1>1, <1>2

\* Which diagnostics an expression yields, and when it yields one.
LEMMA Emissions ==
    ASSUME NEW expr \in Exprs, NEW b \in BOOLEAN
    PROVE  /\ Outcome(expr) = "ok" => Plain(expr) /\ Emitted(expr, b) = {}
           /\ "reported" \notin Emitted(expr, b)
           /\ Emitted(expr, b) \subseteq {"undeclared_identifier"} \/ ~Plain(expr)
           /\ "undeclared_identifier" \in Emitted(expr, b) =>
                 b /\ Outcome(expr) = "missing"
           /\ Outcome(expr) = "generic" \/ (Outcome(expr) = "missing" /\ b) =>
                 Emitted(expr, b) # {}
<1>0. expr \in Seq(Atoms) /\ Len(expr) \in Nat /\ DOMAIN expr = 1 .. Len(expr)
  BY DEF Exprs
<1>1. \A j \in 1 .. Len(expr) : expr[j].op = "duplicate" => ~Plain(expr)
  <2> SUFFICES ASSUME NEW j \in 1 .. Len(expr), expr[j].op = "duplicate" PROVE ~Plain(expr)
    OBVIOUS
  <2>1. PICK k \in j + 1 .. Len(expr) : expr[k].op = "params"
    BY <1>0 DEF Exprs
  <2>2. k \in DOMAIN expr
    BY <1>0, <2>1
  <2> QED
    BY <2>1, <2>2 DEF Plain
<1>2. PICK v \in 0 .. Len(expr) : Visited(expr) = SubSeq(expr, 1, v)
  BY <1>0, VisitedPart
<1>3. /\ Len(Visited(expr)) = v
      /\ \A j \in 1 .. v : j \in 1 .. Len(expr) /\ Visited(expr)[j] = expr[j]
  BY <1>0, <1>2
<1>4. \A c : c \in Emitted(expr, b) <=>
          \/ c = "array_size_not_uint" /\ \E j \in 1 .. v : expr[j].op = "size"
          \/ c = "duplicate_parameter" /\ \E j \in 1 .. v : expr[j].op = "duplicate"
          \/ c = "undeclared_identifier" /\ b /\ Outcome(expr) = "missing"
  <2>1. \A op, c : c \in ErrorOf(op) <=> \/ c = "array_size_not_uint" /\ op = "size"
                                         \/ c = "duplicate_parameter" /\ op = "duplicate"
    BY DEF ErrorOf
  <2> DEFINE codes == UNION {ErrorOf(Visited(expr)[j].op) : j \in 1 .. Len(Visited(expr))}
  <2>2. \A c : c \in codes <=> \E j \in 1 .. v : c \in ErrorOf(expr[j].op)
    BY <1>3
  <2>3. \A c : c \in Emitted(expr, b) <=>
          c \in codes \/ (c = "undeclared_identifier" /\ b /\ Outcome(expr) = "missing")
    BY DEF Emitted
  <2> HIDE DEF codes
  <2>4. \A c : c \in codes <=> \E j \in 1 .. v :
          (c = "array_size_not_uint" /\ expr[j].op = "size")
            \/ (c = "duplicate_parameter" /\ expr[j].op = "duplicate")
    BY <2>1, <2>2
  <2> HIDE DEF codes
  <2> QED
    BY <2>3, <2>4
<1>5. ASSUME Outcome(expr) = "ok" PROVE Plain(expr) /\ Emitted(expr, b) = {}
  <2>1. Plain(expr)
    BY <1>0, <1>5, VisitedPart DEF Stops, Plain
  <2>2. \A c : c \notin Emitted(expr, b)
    BY <1>0, <1>1, <1>3, <1>4, <1>5, <2>1 DEF Plain
  <2> QED
    BY <2>1, <2>2
<1>6. "reported" \notin Emitted(expr, b)
  BY <1>4
<1>7. Emitted(expr, b) \subseteq {"undeclared_identifier"} \/ ~Plain(expr)
  BY <1>0, <1>1, <1>3, <1>4 DEF Plain
<1>8. ASSUME Outcome(expr) = "generic" PROVE Emitted(expr, b) # {}
  <2>1. PICK j \in 1 .. Len(expr) : /\ FirstStop(expr, j) /\ expr[j].op # "named"
                                   /\ Visited(expr) = SubSeq(expr, 1, j)
    BY <1>8, VisitedPart
  <2>2. j = v
    BY <1>0, <1>3, <2>1
  <2>3. expr[j].op \in {"size", "params"}
    BY <2>1 DEF FirstStop, Stops
  <2>4. CASE expr[j].op = "size"
    <3>1. \E k \in 1 .. v : expr[k].op = "size"
      BY <2>2, <2>4
    <3>2. "array_size_not_uint" \in Emitted(expr, b)
      BY <1>4, <3>1
    <3> QED
      BY <3>2
  <2>5. CASE expr[j].op = "params"
    <3>1. PICK k \in 1 .. j - 1 : expr[k].op = "duplicate"
      BY <1>0, <2>5 DEF Exprs
    <3>2. k \in 1 .. v
      BY <2>2, <3>1
    <3> QED
      BY <1>4, <3>1, <3>2
  <2> QED
    BY <2>3, <2>4, <2>5
<1> QED
  BY <1>4, <1>5, <1>6, <1>7, <1>8

\* A body that does not resolve yields a diagnostic of its own, and one that
\* does yields none but the kind that never fails the analysis.
LEMMA BodyEmissions ==
    ASSUME NEW body \in Bodies
    PROVE  /\ BodyOk(body) => EmittedBy(body) \subseteq {"reported"}
           /\ ~BodyOk(body) => \E c \in EmittedBy(body) : c # "reported"
<1>0. body.fields \in Seq(Exprs) /\ \A n \in 1 .. Len(body.fields) : body.fields[n] \in Exprs
  BY DEF Bodies
<1> DEFINE codes == UNION {Emitted(body.fields[n], TRUE) : n \in 1 .. Len(body.fields)}
<1>1. \A c : c \in codes <=> \E n \in 1 .. Len(body.fields) : c \in Emitted(body.fields[n], TRUE)
  OBVIOUS
<1>2. \A c : c \in EmittedBy(body) <=> c \in codes \/ (c \in {"reported", "fatal"} /\ c = body.flaw)
  BY DEF EmittedBy
<1> HIDE DEF codes
<1>3. ASSUME BodyOk(body) PROVE EmittedBy(body) \subseteq {"reported"}
  <2>1. \A n \in 1 .. Len(body.fields) : Emitted(body.fields[n], TRUE) = {}
    BY <1>0, <1>3, Emissions DEF BodyOk
  <2> QED
    BY <1>1, <1>2, <1>3, <2>1 DEF BodyOk
<1>4. ASSUME ~BodyOk(body) PROVE \E c \in EmittedBy(body) : c # "reported"
  <2>1. CASE body.flaw = "fatal"
    BY <1>2, <2>1
  <2>2. CASE body.flaw # "fatal"
    <3>1. PICK n \in 1 .. Len(body.fields) : Outcome(body.fields[n]) # "ok"
      BY <1>4, <2>2 DEF BodyOk
    <3>2. Outcome(body.fields[n]) \in {"missing", "generic"}
      BY <1>0, <3>1, OutcomeFacts
    <3>3. Emitted(body.fields[n], TRUE) # {} /\ "reported" \notin Emitted(body.fields[n], TRUE)
      BY <1>0, <3>2, Emissions
    <3>4. PICK c : c \in Emitted(body.fields[n], TRUE)
      BY <3>3
    <3>5. c \in EmittedBy(body) /\ c # "reported"
      BY <1>1, <1>2, <3>3, <3>4
    <3> QED
      BY <3>5
  <2> QED
    BY <2>1, <2>2
<1> QED
  BY <1>3, <1>4

\* What an alias means, and whether it can, depends on the program alone.
LEMMA SameDoom ==
    ASSUME prog' = prog
    PROVE  \A d : Doomed(d)' <=> Doomed(d)
BY SameProgram DEF Doomed, Plain

-----------------------------------------------------------------------------
(* The steps and the diagnostics.                                          *)

\* A step that reports about one place only keeps what is said of the others.
LEMMA ReportsAbout ==
    ASSUME ControlOK, ReportInv, prog' = prog,
           NEW codes, NEW place, diags' = diags \union At(codes, place),
           Failing => Failing',
           "undeclared_identifier" \in codes /\ place \in Aliases =>
               ~(Named(Target(place)) \subseteq Resolvable),
           \/ codes \subseteq {"reported"}
           \/ Failing'
           \/ place \in Aliases /\ Doomed(place),
           Failing' => Failing \/ \E c \in codes : c # "reported"
    PROVE  /\ NoFalseAlarm' /\ ReportsLastingErrors'
           /\ Failing' => (\E x \in diags : IsError(x))'
<1>1. \A x : x \in diags' <=> x \in diags \/ \E c \in codes : x = [code |-> c, at |-> place]
  BY DEF At
<1>2. NoFalseAlarm'
  <2> SUFFICES ASSUME NEW d \in Aliases, [code |-> "undeclared_identifier", at |-> d] \in diags'
               PROVE  ~(Named(Target(d)) \subseteq Resolvable)
    BY SameProgram DEF NoFalseAlarm
  <2>1. CASE [code |-> "undeclared_identifier", at |-> d] \in diags
    BY <2>1 DEF ReportInv, NoFalseAlarm
  <2>2. CASE \E c \in codes : [code |-> "undeclared_identifier", at |-> d] = [code |-> c, at |-> place]
    BY <2>2
  <2> QED
    BY <1>1, <2>1, <2>2
<1>3. ReportsLastingErrors'
  <2> SUFFICES ASSUME NEW x \in diags', IsError(x)
               PROVE  Failing' \/ (x.at \in Aliases /\ Doomed(x.at))
    BY SameProgram, SameDoom DEF ReportsLastingErrors, IsError
  <2>1. CASE x \in diags
    BY <2>1 DEF ReportInv, ReportsLastingErrors
  <2>2. CASE \E c \in codes : x = [code |-> c, at |-> place]
    BY <2>2 DEF IsError
  <2> QED
    BY <1>1, <2>1, <2>2
<1>4. Failing' => (\E x \in diags : IsError(x))'
  <2>1. CASE Failing
    <3>1. PICK x \in diags : IsError(x)
      BY <2>1 DEF ReportInv
    <3> QED
      BY <1>1, <3>1 DEF IsError
  <2>2. CASE \E c \in codes : c # "reported"
    <3>1. PICK c \in codes : c # "reported"
      BY <2>2
    <3>2. [code |-> c, at |-> place] \in diags' /\ [code |-> c, at |-> place].code = c
      BY <1>1
    <3> QED
      BY <3>1, <3>2 DEF IsError
  <2> QED
    BY <2>1, <2>2
<1> QED
  BY <1>2, <1>3, <1>4

\* A step that reports nothing and fails nothing.
LEMMA ReportsKept ==
    ASSUME ControlOK, ReportInv, prog' = prog, published' = published, diags' = diags,
           Failing' <=> Failing, FlagsAreClear'
    PROVE  ReportInv'
<1>1. At({}, 0) = {}
  BY DEF At
<1>2. diags' = diags \union At({}, 0)
  BY <1>1
<1>3. /\ NoFalseAlarm' /\ ReportsLastingErrors'
      /\ Failing' => (\E x \in diags : IsError(x))'
  BY <1>2, ReportsAbout
<1>4. AliasesArePlain'
  BY SameProgram DEF ReportInv, AliasesArePlain, Plain
<1> QED
  BY <1>3, <1>4 DEF ReportInv

LEMMA PublishUniqueReports ==
    ASSUME IInv, ReportInv, PublishUnique PROVE ReportInv'
<1>1. /\ ControlOK /\ prog' = prog /\ phase = "publish" /\ phase' = phase
      /\ nonResolveError' = nonResolveError
  BY DEF IInv, PublishUnique
<1>2. FlagsAreClear'
  BY <1>1 DEF FlagsAreClear
<1>3. CASE Decl.kind # "unique" \/ ~InPool(Decl.name)
  <2>1. ok' = ok /\ diags' = diags
    BY <1>3 DEF PublishUnique
  <2>2. AliasesArePlain'
    <3>1. \A d \in published' \ published : d \notin Aliases
      BY DEF PublishUnique, Decl, Aliases
    <3> QED
      BY <1>1, <3>1, SameProgram DEF ReportInv, AliasesArePlain, Plain
  <2>3. Failing' <=> Failing
    BY <1>1, <2>1 DEF Failing
  <2>4. diags' = diags \union At({}, 0)
    BY <2>1 DEF At
  <2>5. /\ NoFalseAlarm' /\ ReportsLastingErrors'
        /\ Failing' => (\E x \in diags : IsError(x))'
    BY <1>1, <2>3, <2>4, ReportsAbout
  <2> QED
    BY <1>2, <2>2, <2>5 DEF ReportInv
<1>4. CASE Decl.kind = "unique" /\ InPool(Decl.name)
  <2>1. ok' = FALSE /\ diags' = diags \union At({"duplicate_symbol"}, pos) /\ published' = published
    BY <1>4 DEF PublishUnique
  <2>2. AliasesArePlain'
    BY <1>1, <2>1, SameProgram DEF ReportInv, AliasesArePlain, Plain
  <2>3. Failing'
    BY <2>1 DEF Failing
  <2>4. \E c \in {"duplicate_symbol"} : c # "reported"
    OBVIOUS
  <2>5. /\ NoFalseAlarm' /\ ReportsLastingErrors'
        /\ Failing' => (\E x \in diags : IsError(x))'
    BY <1>1, <2>1, <2>3, <2>4, ReportsAbout
  <2> QED
    BY <1>2, <2>2, <2>5 DEF ReportInv
<1> QED
  BY <1>3, <1>4

LEMMA ResolveAliasReports ==
    ASSUME IInv, ReportInv, ResolveAlias PROVE ReportInv'
<1> DEFINE outcome == Outcome(Target(pos))
           clash   == outcome = "ok" /\ InPool(Decl.name)
           codes   == Emitted(Target(pos), emit) \union (IF clash THEN {"duplicate_symbol"} ELSE {})
<1>1. /\ ControlOK /\ prog' = prog /\ emit' = emit /\ ok' = ok /\ emit \in BOOLEAN
      /\ phase = "resolve" /\ phase' = phase /\ nonResolveError \in BOOLEAN
  BY DEF IInv, ResolveAlias, ControlOK
<1>2. pos \in Aliases /\ pos \notin published /\ Target(pos) \in Exprs
  BY <1>1, ProgramShape DEF ResolveAlias, Unpublished, ControlOK, DeclIds, Aliases
<1>3. /\ published' = IF outcome = "ok" /\ ~clash THEN published \union {pos} ELSE published
      /\ nonResolveError' <=> nonResolveError \/ outcome = "generic" \/ clash
      /\ diags' = diags \union At(Emitted(Target(pos), emit), pos)
                       \union (IF clash THEN At({"duplicate_symbol"}, pos) ELSE {})
  BY <1>1 DEF ResolveAlias
<1>4. diags' = diags \union At(codes, pos)
  BY <1>3 DEF At
<1>5. \A c : c \in codes <=> c \in Emitted(Target(pos), emit) \/ (clash /\ c = "duplicate_symbol")
  OBVIOUS
<1>6. /\ outcome \in {"ok", "missing", "generic"}
      /\ outcome = "ok" => Plain(Target(pos)) /\ Emitted(Target(pos), emit) = {}
      /\ "reported" \notin Emitted(Target(pos), emit)
      /\ Emitted(Target(pos), emit) \subseteq {"undeclared_identifier"} \/ ~Plain(Target(pos))
      /\ "undeclared_identifier" \in Emitted(Target(pos), emit) => emit /\ outcome = "missing"
      /\ outcome = "generic" => Emitted(Target(pos), emit) # {}
      /\ outcome = "missing" => ~(Named(Target(pos)) \subseteq PoolNames)
  BY <1>1, <1>2, OutcomeFacts, Emissions
<1>7. ASSUME emit PROVE PoolNames = Resolvable
  <2>1. AllMissing(NumDecls + 1) /\ Uniques \subseteq published
    BY <1>1, <1>7 DEF IInv, PassIsRight, UniquesComeFirst
  <2>2. \A d \in Aliases : d < NumDecls + 1 /\ Target(d) \in Exprs
    BY <1>1, ProgramShape DEF Aliases, DeclIds
  <2>3. \A d \in Aliases \ published : ~(Named(Target(d)) \subseteq PoolNames)
    BY <2>1, <2>2, OutcomeFacts DEF AllMissing
  <2> QED
    BY <1>1, <2>1, <2>3, FixedPoint DEF IInv
<1> HIDE DEF outcome, clash, codes
<1>8. "undeclared_identifier" \in codes => ~(Named(Target(pos)) \subseteq Resolvable)
  BY <1>5, <1>6, <1>7
<1>9. Failing => Failing'
  BY <1>1, <1>3 DEF Failing
<1>10. Failing' \/ Doomed(pos) \/ codes \subseteq {"reported"}
  <2>1. CASE clash
    BY <1>3, <2>1 DEF Failing
  <2>2. CASE ~clash /\ codes # {}
    BY <1>2, <1>5, <1>6, <1>8, <2>2 DEF Doomed
  <2> QED
    BY <2>1, <2>2
<1>11. Failing' => Failing \/ \E c \in codes : c # "reported"
  <2> SUFFICES ASSUME Failing', ~Failing PROVE \E c \in codes : c # "reported"
    OBVIOUS
  <2>1. outcome = "generic" \/ clash
    BY <1>1, <1>3 DEF Failing
  <2>2. CASE clash
    BY <1>5, <2>2
  <2>3. CASE outcome = "generic"
    BY <1>5, <1>6, <2>3
  <2> QED
    BY <2>1, <2>2, <2>3
<1>12. /\ NoFalseAlarm' /\ ReportsLastingErrors'
       /\ Failing' => (\E x \in diags : IsError(x))'
  BY <1>1, <1>2, <1>4, <1>8, <1>9, <1>10, <1>11, ReportsAbout
<1>13. AliasesArePlain'
  <2>1. \A d \in published' : d \in published \/ (d = pos /\ outcome = "ok")
    BY <1>3
  <2> QED
    BY <1>1, <1>6, <2>1, SameProgram DEF ReportInv, AliasesArePlain, Plain
<1>14. FlagsAreClear'
  BY <1>1 DEF ReportInv, FlagsAreClear
<1> QED
  BY <1>12, <1>13, <1>14 DEF ReportInv

LEMMA NextPassKeepsReports ==
    ASSUME IInv, ReportInv, NextPass PROVE ReportInv'
<1>1. /\ ControlOK /\ UNCHANGED <<prog, published, diags, phase, ok>>
      /\ ~nonResolveError /\ ~nonResolveError'
  BY DEF IInv, NextPass, LastPass
<1>2. Failing' <=> Failing
  BY <1>1 DEF Failing
<1>3. FlagsAreClear'
  BY <1>1 DEF ReportInv, FlagsAreClear
<1> QED
  BY <1>1, <1>2, <1>3, ReportsKept

\* Phases 4 and 6 to 9 report about a declaration that is no alias, or about an
\* anonymous type, and fail exactly when they report an error.
LEMMA ResolveBodyReports ==
    ASSUME ControlOK, ReportInv, NEW body \in Bodies, NEW place, place \notin Aliases,
           UNCHANGED <<prog, phase, published, nonResolveError>>,
           phase \in DOMAIN PhaseKinds \union {"anonymous"},
           ok' = (ok /\ BodyOk(body)),
           diags' = diags \union At(EmittedBy(body), place)
    PROVE  ReportInv'
<1>1. ok \in BOOLEAN /\ nonResolveError \in BOOLEAN
  BY DEF ControlOK
<1>2. Failing => Failing'
  BY <1>1 DEF Failing
<1>3. BodyOk(body) \/ Failing'
  BY <1>1 DEF Failing
<1>4. EmittedBy(body) \subseteq {"reported"} \/ Failing'
  BY <1>3, BodyEmissions
<1>5. Failing' => Failing \/ ~BodyOk(body)
  BY <1>1 DEF Failing
<1>6. Failing' => Failing \/ \E c \in EmittedBy(body) : c # "reported"
  BY <1>5, BodyEmissions
<1>7. /\ NoFalseAlarm' /\ ReportsLastingErrors'
      /\ Failing' => (\E x \in diags : IsError(x))'
  BY <1>2, <1>4, <1>6, ReportsAbout
<1>8. AliasesArePlain'
  BY SameProgram DEF ReportInv, AliasesArePlain, Plain
<1>9. FlagsAreClear'
  BY DEF ReportInv, FlagsAreClear, PhaseKinds
<1> QED
  BY <1>7, <1>8, <1>9 DEF ReportInv

LEMMA ResolveDeclReports ==
    ASSUME IInv, ReportInv, ResolveDecl PROVE ReportInv'
<1>1. /\ ControlOK /\ UNCHANGED <<prog, phase, published, nonResolveError>>
      /\ phase \in DOMAIN PhaseKinds
  BY DEF IInv, ResolveDecl
<1>2. CASE Decl.kind # PhaseKinds[phase]
  <2>1. ok' = ok /\ diags' = diags
    BY <1>2 DEF ResolveDecl
  <2>2. Failing' <=> Failing
    BY <1>1, <2>1 DEF Failing
  <2>3. FlagsAreClear'
    BY <1>1, <2>1 DEF ReportInv, FlagsAreClear
  <2> QED
    BY <1>1, <2>1, <2>2, <2>3, ReportsKept
<1>3. CASE Decl.kind = PhaseKinds[phase]
  <2>1. pos \in DeclIds /\ Decl.body \in Bodies /\ pos \notin Aliases
    <3>1. pos \in DeclIds
      BY <1>1, ProgramShape DEF ResolveDecl, ControlOK, DeclIds
    <3>2. Decl \in Decls
      BY <1>1, <3>1, ProgramShape DEF Decl
    <3>3. Decl.kind # "alias"
      BY <1>1, <1>3 DEF PhaseKinds
    <3> QED
      BY <3>1, <3>2, <3>3 DEF Decls, Decl, Aliases
  <2>2. ok' = (ok /\ BodyOk(Decl.body)) /\ diags' = diags \union At(EmittedBy(Decl.body), pos)
    BY <1>3 DEF ResolveDecl
  <2> QED
    BY <1>1, <2>1, <2>2, ResolveBodyReports
<1> QED
  BY <1>2, <1>3

\* The anonymous types and the declarations are different places.
LEMMA NodesAreNoDecls ==
    ASSUME ControlOK
    PROVE  /\ Nodes \intersect DeclIds = {}
           /\ \A m \in Nodes : prog.nodes[m] \in Bodies
<1>1. prog \in Programs /\ prog \in Program
  BY ProgramsAssumption DEF ControlOK
<1>2. Nodes \intersect (0 .. Len(prog.decls)) = {}
  BY <1>1, PlacesAssumption
<1>3. prog.nodes \in [Nodes -> Bodies]
  BY <1>1 DEF Program
<1>4. \A d \in DeclIds : d \in 0 .. Len(prog.decls)
  BY ProgramShape DEF DeclIds, NumDecls
<1> QED
  BY <1>2, <1>3, <1>4

LEMMA ResolveAnonymousReports ==
    ASSUME IInv, ReportInv, queue \in Seq(Nodes), ResolveAnonymous PROVE ReportInv'
<1>1. /\ ControlOK /\ UNCHANGED <<prog, phase, published, nonResolveError>>
      /\ phase = "anonymous" /\ queue # <<>>
  BY DEF IInv, ResolveAnonymous
<1>2. Head(queue) \in Nodes
  BY <1>1
<1>3. Head(queue) \notin Aliases /\ prog.nodes[Head(queue)] \in Bodies
  BY <1>1, <1>2, NodesAreNoDecls DEF Aliases
<1>4. /\ ok' = (ok /\ BodyOk(prog.nodes[Head(queue)]))
      /\ diags' = diags \union At(EmittedBy(prog.nodes[Head(queue)]), Head(queue))
  BY DEF ResolveAnonymous
<1> QED
  BY <1>1, <1>3, <1>4, ResolveBodyReports

LEMMA EndLoopReports ==
    ASSUME IInv, ReportInv, EndLoop PROVE ReportInv'
<1>1. /\ ControlOK /\ UNCHANGED <<prog, published, diags, ok, nonResolveError>>
      /\ phase \in DOMAIN Following /\ phase' = Following[phase] /\ ~LoopFailed
      /\ ok \in BOOLEAN /\ nonResolveError \in BOOLEAN
  BY DEF IInv, EndLoop, ControlOK
<1>2. Failing' <=> Failing
  BY <1>1, LoopOrder DEF Failing
<1>3. FlagsAreClear'
  <2>1. phase = "resolve" => ~nonResolveError
    BY <1>1 DEF LoopFailed
  <2>2. phase # "resolve" => ok
    BY <1>1 DEF LoopFailed
  <2>3. /\ phase' = "resolve" => phase = "publish"
        /\ phase' = "done" => phase = "anonymous"
    BY <1>1 DEF Following
  <2> QED
    BY <1>1, <2>1, <2>2, <2>3, LoopOrder DEF ReportInv, FlagsAreClear
<1> QED
  BY <1>1, <1>2, <1>3, ReportsKept

LEMMA FailLoopReports ==
    ASSUME IInv, ReportInv, FailLoop PROVE ReportInv'
<1>1. /\ ControlOK /\ UNCHANGED <<prog, published, ok, nonResolveError>>
      /\ phase' = "failed" /\ LoopFailed /\ 0 \notin Aliases
  BY ProgramShape DEF IInv, FailLoop, Aliases, DeclIds
<1>2. Failing'
  BY <1>1 DEF Failing
<1>3. PICK codes : /\ diags' = diags \union At(codes, 0)
                   /\ "undeclared_identifier" \notin codes
                   /\ Failing \/ \E c \in codes : c # "reported"
  <2>1. CASE phase = "resolve" /\ ~nonResolveError
    <3>1. diags' = diags \union At({"unresolved_symbols"}, 0)
      BY <2>1 DEF FailLoop
    <3> QED
      BY <3>1
  <2>2. CASE ~(phase = "resolve" /\ ~nonResolveError)
    <3>1. diags' = diags \union At({}, 0)
      BY <2>2 DEF FailLoop, At
    <3>2. Failing
      BY <1>1, <2>2 DEF LoopFailed, Failing
    <3> QED
      BY <3>1, <3>2
  <2> QED
    BY <2>1, <2>2
<1>4. /\ NoFalseAlarm' /\ ReportsLastingErrors'
      /\ Failing' => (\E x \in diags : IsError(x))'
  BY <1>1, <1>2, <1>3, ReportsAbout
<1>5. AliasesArePlain' /\ FlagsAreClear'
  BY <1>1, SameProgram DEF ReportInv, AliasesArePlain, Plain, FlagsAreClear
<1> QED
  BY <1>4, <1>5 DEF ReportInv

\* Every step keeps the invariant about the diagnostics.
LEMMA ReportStep ==
    ASSUME IInv, ReportInv, queue \in Seq(Nodes), [Next]_vars PROVE ReportInv'
<1>1. CASE SkipAlias \/ UNCHANGED vars
  <2>1. /\ ControlOK
        /\ UNCHANGED <<prog, published, diags, phase, ok, nonResolveError>>
    BY <1>1 DEF IInv, SkipAlias, vars
  <2>2. (Failing' <=> Failing) /\ FlagsAreClear'
    BY <2>1 DEF Failing, ReportInv, FlagsAreClear
  <2> QED
    BY <2>1, <2>2, ReportsKept
<1> QED
  BY <1>1, PublishUniqueReports, ResolveAliasReports, NextPassKeepsReports, ResolveDeclReports,
     ResolveAnonymousReports, EndLoopReports, FailLoopReports DEF Next

\* At the start nothing is reported and nothing has failed.
LEMMA ReportInit == Init => ReportInv
BY DEF Init, ReportInv, NoFalseAlarm, AliasesArePlain, ReportsLastingErrors, Failing,
       FlagsAreClear

-----------------------------------------------------------------------------
(* The steps and the document.                                             *)

\* The anonymous types an expression pushes are nested in it, and all of those
\* are pushed when it resolves.
LEMMA PushedNodes ==
    ASSUME NEW expr \in Exprs
    PROVE  /\ Pushed(expr) \in Seq(Nodes)
           /\ Range(Pushed(expr)) \subseteq Nested(expr)
           /\ Outcome(expr) = "ok" => Range(Pushed(expr)) = Nested(expr)
<1>0. expr \in Seq(Atoms) /\ Len(expr) \in Nat /\ DOMAIN expr = 1 .. Len(expr)
  BY DEF Exprs
<1>00. \A j \in 1 .. Len(expr) : expr[j].op = "anonymous" => expr[j].node \in Nodes
  <2>1. \A x \in Atoms : x.op = "anonymous" => x.node \in Nodes
    BY DEF Atoms
  <2> QED
    BY <2>1 DEF Exprs
<1>1. PICK v \in 0 .. Len(expr) :
          Visited(expr) = SubSeq(expr, 1, v) /\ (Outcome(expr) = "ok" => v = Len(expr))
  <2>1. CASE Outcome(expr) = "ok"
    <3>1. Visited(expr) = SubSeq(expr, 1, Len(expr)) /\ Len(expr) \in 0 .. Len(expr)
      BY <1>0, <2>1 DEF Visited
    <3> QED
      BY <3>1
  <2>2. CASE Outcome(expr) # "ok"
    <3>1. PICK j \in 1 .. Len(expr) : Visited(expr) = SubSeq(expr, 1, j)
      BY <2>2, VisitedPart
    <3>2. j \in 0 .. Len(expr)
      BY <1>0
    <3> QED
      BY <2>2, <3>1, <3>2
  <2> QED
    BY <2>1, <2>2
<1>2. Len(Visited(expr)) = v
  <2>1. \A n \in 0 .. Len(expr) : Len(SubSeq(expr, 1, n)) = n
    BY <1>0
  <2> QED
    BY <1>1, <2>1
<1> DEFINE parts == [j \in 1 .. v |-> IF expr[j].op = "anonymous" THEN <<expr[j].node>> ELSE <<>>]
<1>3. Pushed(expr) = FlattenSeq(parts)
  BY <1>2 DEF Pushed
<1>4. /\ parts \in Seq(Seq(Nodes)) /\ DOMAIN parts = 1 .. v
      /\ \A j \in 1 .. v : Range(parts[j]) = IF expr[j].op = "anonymous" THEN {expr[j].node} ELSE {}
  <2>1. \A j \in 1 .. v : j \in 1 .. Len(expr)
    BY <1>0
  <2>2. \A j \in 1 .. v : parts[j] \in Seq(Nodes)
    BY <1>00, <2>1
  <2>3. \A x : Range(<<x>>) = {x} /\ Range(<<>>) = {}
    BY DEF Range
  <2>4. parts = [j \in 1 .. v |-> parts[j]]
    OBVIOUS
  <2>5. \A j \in 1 .. v : parts[j] = IF expr[j].op = "anonymous" THEN <<expr[j].node>> ELSE <<>>
    OBVIOUS
  <2> HIDE DEF parts
  <2>6. parts \in Seq(Seq(Nodes)) /\ DOMAIN parts = 1 .. v
    BY <2>2, <2>4
  <2> QED
    BY <2>3, <2>5, <2>6
<1> HIDE DEF parts
<1>5. /\ FlattenSeq(parts) \in Seq(Nodes)
      /\ Range(FlattenSeq(parts)) = UNION {Range(parts[j]) : j \in 1 .. v}
  BY <1>4, Flattened
<1>6. Range(FlattenSeq(parts)) = {expr[j].node : j \in {k \in 1 .. v : expr[k].op = "anonymous"}}
  BY <1>4, <1>5
<1>7. \A j \in 1 .. v : j \in 1 .. Len(expr)
  BY <1>0
<1>8. Range(Pushed(expr)) \subseteq Nested(expr)
  BY <1>0, <1>3, <1>6, <1>7 DEF Nested
<1>9. ASSUME Outcome(expr) = "ok" PROVE Range(Pushed(expr)) = Nested(expr)
  BY <1>0, <1>1, <1>3, <1>6, <1>9 DEF Nested
<1> QED
  BY <1>3, <1>5, <1>8, <1>9

\* The same of a body.
LEMMA PushedByNodes ==
    ASSUME NEW body \in Bodies
    PROVE  /\ PushedBy(body) \in Seq(Nodes)
           /\ Range(PushedBy(body)) \subseteq NodesIn(body)
           /\ BodyOk(body) => Range(PushedBy(body)) = NodesIn(body)
<1>0. /\ body.fields \in Seq(Exprs) /\ DOMAIN body.fields = 1 .. Len(body.fields)
      /\ Len(body.fields) \in Nat
      /\ \A n \in 1 .. Len(body.fields) : body.fields[n] \in Exprs
  BY DEF Bodies
<1> DEFINE parts == [n \in 1 .. Len(body.fields) |-> Pushed(body.fields[n])]
<1>1. /\ parts \in Seq(Seq(Nodes)) /\ DOMAIN parts = 1 .. Len(body.fields)
      /\ \A n \in 1 .. Len(body.fields) : parts[n] = Pushed(body.fields[n])
  <2>1. \A n \in 1 .. Len(body.fields) : Pushed(body.fields[n]) \in Seq(Nodes)
    BY <1>0, PushedNodes
  <2> QED
    BY <1>0, <2>1
<1>2. PushedBy(body) = FlattenSeq(parts)
  BY DEF PushedBy
<1> HIDE DEF parts
<1>3. /\ PushedBy(body) \in Seq(Nodes)
      /\ Range(PushedBy(body)) = UNION {Range(parts[n]) : n \in 1 .. Len(body.fields)}
  BY <1>1, <1>2, Flattened
<1>4. Range(PushedBy(body)) = UNION {Range(Pushed(body.fields[n])) : n \in 1 .. Len(body.fields)}
  BY <1>1, <1>3
<1>5. Range(PushedBy(body)) \subseteq NodesIn(body)
  <2>1. \A n \in 1 .. Len(body.fields) : Range(Pushed(body.fields[n])) \subseteq Nested(body.fields[n])
    BY <1>0, PushedNodes
  <2> QED
    BY <1>0, <1>4, <2>1 DEF NodesIn
<1>6. ASSUME BodyOk(body) PROVE Range(PushedBy(body)) = NodesIn(body)
  <2>1. \A n \in 1 .. Len(body.fields) : Range(Pushed(body.fields[n])) = Nested(body.fields[n])
    BY <1>0, <1>6, PushedNodes DEF BodyOk
  <2> QED
    BY <1>0, <1>4, <2>1 DEF NodesIn
<1> QED
  BY <1>3, <1>5, <1>6

\* Phase 5 stores exactly the declarations of types.
LEMMA TypeDeclsStored ==
    ASSUME ControlOK
    PROVE  TypeDecls \in Seq(DeclIds) /\ Range(TypeDecls) = Aliases \union Uniques
<1> DEFINE parts == [d \in 1 .. NumDecls |->
                       IF prog.decls[d].kind \in TypeDeclKinds THEN <<d>> ELSE <<>>]
<1>0. NumDecls \in Nat /\ DeclIds = 1 .. NumDecls
  BY ProgramShape DEF DeclIds
<1>1. /\ parts = [d \in 1 .. NumDecls |-> parts[d]]
      /\ \A d \in 1 .. NumDecls :
            parts[d] = IF prog.decls[d].kind \in TypeDeclKinds THEN <<d>> ELSE <<>>
  OBVIOUS
<1>2. TypeDecls = FlattenSeq(parts)
  BY DEF TypeDecls
<1> HIDE DEF parts
<1>3. ASSUME NEW d \in 1 .. NumDecls PROVE parts[d] \in Seq(DeclIds)
  <2>1. <<d>> \in Seq(DeclIds) /\ <<>> \in Seq(DeclIds)
    BY <1>0
  <2> QED
    BY <1>1, <2>1
<1>4. parts \in Seq(Seq(DeclIds)) /\ DOMAIN parts = 1 .. NumDecls
  BY <1>0, <1>1, <1>3
<1>5. /\ TypeDecls \in Seq(DeclIds)
      /\ Range(TypeDecls) = UNION {Range(parts[d]) : d \in 1 .. NumDecls}
  BY <1>2, <1>4, Flattened
<1>6. \A x : Range(<<x>>) = {x} /\ Range(<<>>) = {}
  BY DEF Range
<1>7. \A x : x \in Range(TypeDecls) <=> x \in DeclIds /\ prog.decls[x].kind \in TypeDeclKinds
  BY <1>0, <1>1, <1>5, <1>6
<1>8. \A x : x \in Aliases \union Uniques <=> x \in DeclIds /\ prog.decls[x].kind \in TypeDeclKinds
  BY DEF Aliases, Uniques, TypeDeclKinds
<1> QED
  BY <1>5, <1>7, <1>8

\* The anonymous types written in a body are nodes of the program.
LEMMA NodesInBody ==
    ASSUME NEW body \in Bodies
    PROVE  NodesIn(body) \subseteq Nodes
<1>1. ASSUME NEW expr \in Exprs PROVE Nested(expr) \subseteq Nodes
  <2>1. \A x \in Atoms : x.op = "anonymous" => x.node \in Nodes
    BY DEF Atoms
  <2>2. \A j \in DOMAIN expr : expr[j] \in Atoms
    BY DEF Exprs
  <2> QED
    BY <2>1, <2>2 DEF Nested
<1>2. \A n \in DOMAIN body.fields : body.fields[n] \in Exprs
  BY DEF Bodies
<1> QED
  BY <1>1, <1>2 DEF NodesIn

\* What a declaration holds is reached, and what a reached node holds.
LEMMA ReachedAreClosed ==
    ASSUME ControlOK
    PROVE  /\ \A d \in DeclIds : NodesIn(prog.decls[d].body) \subseteq ReachedNodes
           /\ \A m \in ReachedNodes : NodesIn(prog.nodes[m]) \subseteq ReachedNodes
           /\ ReachedNodes \subseteq Nodes
<1>1. \A d \in DeclIds : prog.decls[d].body \in Bodies
  BY ProgramShape DEF Decls
<1>2. \A d \in DeclIds : NodesIn(prog.decls[d].body) \subseteq ReachedNodes
  BY <1>1, NodesInBody DEF ReachedNodes
<1>3. ASSUME NEW m \in ReachedNodes, NEW node \in NodesIn(prog.nodes[m])
      PROVE  node \in ReachedNodes
  <2>1. m \in Nodes /\ node \in Nodes
    BY <1>3, NodesInBody, NodesAreNoDecls DEF ReachedNodes
  <2>2. ASSUME NEW s \in SUBSET Nodes,
               \A d \in DeclIds : NodesIn(prog.decls[d].body) \subseteq s,
               \A k \in s : NodesIn(prog.nodes[k]) \subseteq s
        PROVE  node \in s
    <3>1. m \in s
      BY <2>2 DEF ReachedNodes
    <3> QED
      BY <1>3, <2>2, <3>1
  <2> QED
    BY <2>1, <2>2 DEF ReachedNodes
<1>4. ReachedNodes \subseteq Nodes
  BY DEF ReachedNodes
<1> QED
  BY <1>2, <1>3, <1>4

\* What is written in the program, and what of it is reached, never changes.
LEMMA SameNodes ==
    ASSUME prog' = prog
    PROVE  /\ ReachedNodes' = ReachedNodes
           /\ \A body : NodesIn(body)' = NodesIn(body)
<1>1. \A body : NodesIn(body)' = NodesIn(body)
  BY DEF NodesIn, Nested
<1>2. DeclIds' = DeclIds
  BY SameProgram
<1>3. ReachedNodes' = ReachedNodes
  BY <1>1, <1>2 DEF ReachedNodes, NodesIn, Nested
<1> QED
  BY <1>1, <1>3

\* A step that queues the anonymous types of one place, and keeps what was
\* resolved before: the flag of the loop says that nothing was left out.
LEMMA DocumentStepped ==
    ASSUME ControlOK, ControlOK', DocumentInv, prog' = prog,
           phase # "failed",
           NEW pushed \in Seq(Nodes), Range(pushed) \subseteq ReachedNodes,
           \/ queue' = queue \o pushed /\ ready' = ready
           \/ /\ queue # <<>> /\ queue' = Tail(queue) \o pushed
              /\ ready' = Append(ready, Head(queue))
              /\ ok' => NodesIn(prog.nodes[Head(queue)]) \subseteq Range(pushed),
           ok' => ok,
           \A d \in DeclIds : ok' /\ Handled(d)' =>
               Handled(d) \/ NodesIn(prog.decls[d].body) \subseteq Range(pushed)
    PROVE  /\ queue' \in Seq(Nodes) /\ ready' \in Seq(Nodes)
           /\ Seen' \subseteq ReachedNodes /\ NodesAreSeen'
<1>0. queue \in Seq(Nodes) /\ ready \in Seq(Nodes) /\ Seen \subseteq ReachedNodes
  BY DEF DocumentInv, TypeOK
<1>j. \A s, t \in Seq(Nodes) :
         s \o t \in Seq(Nodes) /\ Range(s \o t) = Range(s) \union Range(t)
  BY JoinedRange
<1>1. /\ queue' \in Seq(Nodes) /\ ready' \in Seq(Nodes)
      /\ Seen' = Seen \union Range(pushed)
      /\ \A m \in Range(ready') :
            m \in Range(ready) \/ (ok' => NodesIn(prog.nodes[m]) \subseteq Range(pushed))
  <2>1. CASE queue' = queue \o pushed /\ ready' = ready
    <3>1. queue' \in Seq(Nodes) /\ Range(queue') = Range(queue) \union Range(pushed)
      BY <1>0, <2>1, JoinedRange
    <3> QED
      BY <1>0, <2>1, <3>1 DEF Seen
  <2>2. CASE /\ queue # <<>> /\ queue' = Tail(queue) \o pushed
             /\ ready' = Append(ready, Head(queue))
             /\ ok' => NodesIn(prog.nodes[Head(queue)]) \subseteq Range(pushed)
    <3>1. /\ Tail(queue) \in Seq(Nodes) /\ Head(queue) \in Nodes
          /\ <<Head(queue)>> \in Seq(Nodes) /\ queue = <<Head(queue)>> \o Tail(queue)
      BY <1>0, <2>2
    <3>2. Range(<<Head(queue)>>) = {Head(queue)}
      BY DEF Range
    <3>3. Range(queue) = {Head(queue)} \union Range(Tail(queue))
      <4>1. Range(<<Head(queue)>> \o Tail(queue)) = Range(<<Head(queue)>>) \union Range(Tail(queue))
        BY <1>j, <3>1
      <4> QED
        BY <3>1, <3>2, <4>1
    <3>4. queue' \in Seq(Nodes) /\ Range(queue') = Range(Tail(queue)) \union Range(pushed)
      <4>1. /\ Tail(queue) \o pushed \in Seq(Nodes)
            /\ Range(Tail(queue) \o pushed) = Range(Tail(queue)) \union Range(pushed)
        BY <1>j, <3>1
      <4> QED
        BY <2>2, <4>1, Zenon
    <3>5. ready' = ready \o <<Head(queue)>>
      BY <1>0, <2>2, <3>1
    <3>6. ready' \in Seq(Nodes) /\ Range(ready') = Range(ready) \union {Head(queue)}
      <4>1. /\ ready \o <<Head(queue)>> \in Seq(Nodes)
            /\ Range(ready \o <<Head(queue)>>) = Range(ready) \union Range(<<Head(queue)>>)
        BY <1>j, <1>0, <3>1
      <4> QED
        BY <3>2, <3>5, <4>1
    <3>7. Seen' = Seen \union Range(pushed)
      BY <3>3, <3>4, <3>6 DEF Seen
    <3> QED
      BY <2>2, <3>4, <3>6, <3>7
  <2> QED
    BY <2>1, <2>2
<1>2. Seen' \subseteq ReachedNodes
  BY <1>0, <1>1
<1>3. NodesAreSeen'
  <2> SUFFICES ASSUME ok'
               PROVE  /\ \A d \in DeclIds : Handled(d)' => NodesIn(prog.decls[d].body) \subseteq Seen'
                      /\ \A m \in Range(ready') : NodesIn(prog.nodes[m]) \subseteq Seen'
    BY SameProgram, SameNodes DEF NodesAreSeen
  <2>1. /\ \A d \in DeclIds : Handled(d) => NodesIn(prog.decls[d].body) \subseteq Seen
        /\ \A m \in Range(ready) : NodesIn(prog.nodes[m]) \subseteq Seen
    BY DEF DocumentInv, NodesAreSeen
  <2>2. \A d \in DeclIds : Handled(d)' => NodesIn(prog.decls[d].body) \subseteq Seen'
    BY <1>1, <2>1
  <2>3. \A m \in Range(ready') : NodesIn(prog.nodes[m]) \subseteq Seen'
    BY <1>1, <2>1
  <2> QED
    BY <2>2, <2>3
<1> QED
  BY <1>1, <1>2, <1>3

\* A step within a loop stores no types.
LEMMA TypesKept ==
    ASSUME ControlOK, ControlOK', DocumentInv, UNCHANGED <<prog, phase, types>>,
           phase # "done"
    PROVE  types' \in Seq(DeclIds' \union Nodes) /\ TypesAreStored'
BY SameProgram DEF DocumentInv, TypeOK, TypesAreStored

\* What is handled in a loop over the declarations, and what changes from loop
\* to loop.
LEMMA HandledKept ==
    ASSUME UNCHANGED <<prog, published>>,
           UNCHANGED <<phase, pos>> \/ (phase' = phase /\ phase \in {"publish", "resolve"})
    PROVE  \A d : Handled(d)' <=> Handled(d)
BY DEF Handled, PhaseKinds

LEMMA HandledAtEnd ==
    ASSUME ControlOK, UNCHANGED <<prog, published>>, phase \in DOMAIN Following,
           phase' = Following[phase], pos' = 1, LoopEnds
    PROVE  \A d \in DeclIds : Handled(d)' => Handled(d)
<1> SUFFICES ASSUME NEW d \in DeclIds, Handled(d)', prog.decls[d].kind # "alias"
             PROVE  Handled(d)
  BY DEF Handled
<1>1. prog.decls[d].kind \in {"unique", "variable", "function", "constexpr"} /\ ~(d < 1)
  BY ProgramShape DEF Decls, DeclKinds, ValueKinds, DeclIds
<1>2. phase' \in After[prog.decls[d].kind]
  BY <1>1 DEF Handled
<1>3. phase # "anonymous" => d < pos
  BY ProgramShape DEF LoopEnds, DeclIds, ControlOK
<1>4. \/ phase \in After[prog.decls[d].kind]
      \/ phase # "anonymous" /\ phase \in DOMAIN PhaseKinds /\ prog.decls[d].kind = PhaseKinds[phase]
  BY <1>1, <1>2 DEF After, Following, PhaseKinds
<1> QED
  BY <1>1, <1>3, <1>4 DEF Handled

LEMMA ResolveAliasDocument ==
    ASSUME IInv, ControlOK', DocumentInv, ResolveAlias PROVE DocumentInv'
<1>1. /\ ControlOK /\ UNCHANGED <<prog, phase, ok, ready, types>> /\ phase = "resolve"
      /\ queue' = queue \o Pushed(Target(pos))
  BY DEF IInv, ResolveAlias
<1>2. pos \in Aliases /\ Target(pos) \in Exprs
  BY <1>1, ProgramShape DEF ResolveAlias, Unpublished, ControlOK, DeclIds, Aliases
<1>3. NodesIn(prog.decls[pos].body) = Nested(Target(pos))
  <2>1. Len(prog.decls[pos].body.fields) = 1 /\ prog.decls[pos].body.fields \in Seq(Exprs)
    <3>1. pos \in DOMAIN prog.decls /\ prog.decls[pos].kind # "unique"
      BY <1>1, <1>2, ProgramsAssumption DEF Aliases, DeclIds, NumDecls, Program, ControlOK
    <3>2. prog.decls[pos] \in Decls
      BY <1>1, <1>2, ProgramShape DEF Aliases
    <3> QED
      BY <1>1, <3>1, <3>2, ProgramsAssumption DEF ControlOK, Decls, Bodies
  <2>2. DOMAIN prog.decls[pos].body.fields = {1}
    BY <2>1
  <2> QED
    BY <2>2 DEF NodesIn, Target
<1>4. /\ Pushed(Target(pos)) \in Seq(Nodes)
      /\ Range(Pushed(Target(pos))) \subseteq ReachedNodes
      /\ Outcome(Target(pos)) = "ok" =>
            NodesIn(prog.decls[pos].body) \subseteq Range(Pushed(Target(pos)))
  BY <1>1, <1>2, <1>3, PushedNodes, ReachedAreClosed DEF Aliases
<1>5. \A d \in DeclIds : Handled(d)' =>
          Handled(d) \/ NodesIn(prog.decls[d].body) \subseteq Range(Pushed(Target(pos)))
  <2>1. \A d \in published' : d \in published \/ (d = pos /\ Outcome(Target(pos)) = "ok")
    BY DEF ResolveAlias
  <2>2. phase \notin DOMAIN PhaseKinds
    BY <1>1 DEF PhaseKinds
  <2> QED
    BY <1>1, <1>4, <2>1, <2>2 DEF Handled
<1>6. /\ queue' \in Seq(Nodes) /\ ready' \in Seq(Nodes)
      /\ Seen' \subseteq ReachedNodes /\ NodesAreSeen'
  BY <1>1, <1>4, <1>5, DocumentStepped
<1>9. types' \in Seq(DeclIds' \union Nodes) /\ TypesAreStored'
  BY <1>1, TypesKept
<1> QED
  BY <1>1, <1>6, <1>9, SameNodes DEF DocumentInv, TypeOK

LEMMA ResolveDeclDocument ==
    ASSUME IInv, ControlOK', DocumentInv, ResolveDecl PROVE DocumentInv'
<1>1. /\ ControlOK /\ UNCHANGED <<prog, phase, published, ready, types>>
      /\ phase \in DOMAIN PhaseKinds /\ phase \notin {"done", "failed"} /\ pos' = pos + 1
      /\ ok \in BOOLEAN /\ pos \in Nat
  BY ProgramShape DEF IInv, ResolveDecl, PhaseKinds, ControlOK
<1>2. pos \in DeclIds /\ Decl.body \in Bodies
  <2>1. pos \in DeclIds
    BY <1>1, ProgramShape DEF ResolveDecl, ControlOK, DeclIds
  <2> QED
    BY <1>1, <2>1, ProgramShape DEF Decl, Decls
<1>3. PICK pushed \in Seq(Nodes) :
          /\ queue' = queue \o pushed
          /\ Range(pushed) \subseteq ReachedNodes
          /\ ok' => ok
          /\ ok' /\ Decl.kind = PhaseKinds[phase] =>
                NodesIn(prog.decls[pos].body) \subseteq Range(pushed)
  <2>1. CASE Decl.kind = PhaseKinds[phase]
    <3>1. ok' = (ok /\ BodyOk(Decl.body)) /\ queue' = queue \o PushedBy(Decl.body)
      BY <2>1 DEF ResolveDecl
    <3>2. NodesIn(Decl.body) \subseteq ReachedNodes
      BY <1>1, <1>2, ReachedAreClosed DEF Decl
    <3>3. /\ PushedBy(Decl.body) \in Seq(Nodes)
          /\ Range(PushedBy(Decl.body)) \subseteq NodesIn(Decl.body)
          /\ BodyOk(Decl.body) => Range(PushedBy(Decl.body)) = NodesIn(Decl.body)
      BY <1>2, PushedByNodes
    <3> QED
      BY <3>1, <3>2, <3>3 DEF Decl
  <2>2. CASE Decl.kind # PhaseKinds[phase]
    <3>1. ok' = ok /\ queue' = queue
      BY <2>2 DEF ResolveDecl
    <3>2. queue \in Seq(Nodes)
      BY DEF DocumentInv, TypeOK
    <3>3. queue' = queue \o <<>> /\ <<>> \in Seq(Nodes)
      BY <3>1, <3>2
    <3>4. Range(<<>>) = {}
      BY DEF Range
    <3> QED
      BY <2>2, <3>1, <3>3, <3>4
  <2> QED
    BY <2>1, <2>2
<1>4. ASSUME NEW d \in DeclIds, ok', Handled(d)'
      PROVE  Handled(d) \/ NodesIn(prog.decls[d].body) \subseteq Range(pushed)
  <2>1. CASE prog.decls[d].kind = "alias" \/ phase \in After[prog.decls[d].kind]
    BY <1>1, <2>1, <1>4 DEF Handled
  <2>2. CASE prog.decls[d].kind = PhaseKinds[phase] /\ d < pos + 1
    <3>1. d < pos \/ d = pos
      BY <1>1, <2>2, ProgramShape DEF DeclIds
    <3>2. PhaseKinds[phase] # "alias"
      BY <1>1 DEF PhaseKinds
    <3>3. CASE d < pos
      BY <1>1, <2>2, <3>2, <3>3 DEF Handled
    <3>4. CASE d = pos
      BY <1>3, <1>4, <2>2, <3>4 DEF Decl
    <3> QED
      BY <3>1, <3>3, <3>4
  <2> QED
    BY <1>1, <1>4, <2>1, <2>2 DEF Handled
<1>5. /\ queue' \in Seq(Nodes) /\ ready' \in Seq(Nodes)
      /\ Seen' \subseteq ReachedNodes /\ NodesAreSeen'
  BY <1>1, <1>3, <1>4, DocumentStepped
<1>9. types' \in Seq(DeclIds' \union Nodes) /\ TypesAreStored'
  BY <1>1, TypesKept
<1> QED
  BY <1>1, <1>5, <1>9, SameNodes DEF DocumentInv, TypeOK

LEMMA ResolveAnonymousDocument ==
    ASSUME IInv, ControlOK', DocumentInv, ResolveAnonymous PROVE DocumentInv'
<1> DEFINE body == prog.nodes[Head(queue)]
<1>1. /\ ControlOK /\ UNCHANGED <<prog, phase, pos, published, types>> /\ phase = "anonymous"
      /\ queue # <<>> /\ queue' = Tail(queue) \o PushedBy(body)
      /\ ready' = Append(ready, Head(queue)) /\ ok' = (ok /\ BodyOk(body))
  BY DEF IInv, ResolveAnonymous
<1>2. Head(queue) \in ReachedNodes
  <2>1. queue \in Seq(Nodes) /\ Range(queue) \subseteq ReachedNodes
    BY DEF DocumentInv, TypeOK, Seen
  <2>2. 1 \in DOMAIN queue /\ Head(queue) = queue[1]
    BY <1>1, <2>1
  <2> QED
    BY <2>1, <2>2 DEF Range
<1>3. body \in Bodies /\ NodesIn(body) \subseteq ReachedNodes
  BY <1>1, <1>2, NodesAreNoDecls, ReachedAreClosed
<1>4. /\ PushedBy(body) \in Seq(Nodes)
      /\ Range(PushedBy(body)) \subseteq NodesIn(body)
      /\ BodyOk(body) => Range(PushedBy(body)) = NodesIn(body)
  BY <1>3, PushedByNodes
<1>5. \A d \in DeclIds : Handled(d)' => Handled(d)
  BY <1>1, HandledKept
<1>6. ok' => ok /\ NodesIn(body) \subseteq Range(PushedBy(body))
  BY <1>1, <1>4
<1>7. Range(PushedBy(body)) \subseteq ReachedNodes
  BY <1>3, <1>4
<1>8. /\ queue' \in Seq(Nodes) /\ ready' \in Seq(Nodes)
      /\ Seen' \subseteq ReachedNodes /\ NodesAreSeen'
  BY <1>1, <1>4, <1>5, <1>6, <1>7, DocumentStepped
<1>9. types' \in Seq(DeclIds' \union Nodes) /\ TypesAreStored'
  BY <1>1, TypesKept
<1> QED
  BY <1>1, <1>8, <1>9, SameNodes DEF DocumentInv, TypeOK

\* A step that resolves nothing queues nothing.
LEMMA DocumentKept ==
    ASSUME ControlOK, ControlOK', DocumentInv, UNCHANGED <<prog, queue, ready>>,
           phase # "failed", ok' => ok,
           types' \in Seq(DeclIds' \union Nodes), TypesAreStored',
           \A d \in DeclIds : Handled(d)' => Handled(d)
    PROVE  DocumentInv'
<1>1. <<>> \in Seq(Nodes) /\ Range(<<>>) \subseteq ReachedNodes
  BY DEF Range
<1>2. queue' = queue \o <<>> /\ ready' = ready
  BY DEF DocumentInv, TypeOK
<1>3. /\ queue' \in Seq(Nodes) /\ ready' \in Seq(Nodes)
      /\ Seen' \subseteq ReachedNodes /\ NodesAreSeen'
  BY <1>1, <1>2, DocumentStepped
<1> QED
  BY <1>3, SameNodes DEF DocumentInv, TypeOK

LEMMA PublishUniqueDocument ==
    ASSUME IInv, ControlOK', DocumentInv, PublishUnique PROVE DocumentInv'
<1>1. /\ ControlOK /\ UNCHANGED <<prog, phase, queue, ready, types>> /\ phase = "publish"
      /\ ok' => ok
  BY DEF IInv, PublishUnique, ControlOK
<1>2. \A d \in DeclIds : Handled(d)' => Handled(d)
  <2>1. \A d \in published' : d \in published \/ prog.decls[d].kind = "unique"
    BY DEF PublishUnique, Decl
  <2>2. phase \notin DOMAIN PhaseKinds
    BY <1>1 DEF PhaseKinds
  <2> QED
    BY <1>1, <2>1, <2>2 DEF Handled
<1>3. types' \in Seq(DeclIds' \union Nodes) /\ TypesAreStored'
  BY <1>1, TypesKept
<1> QED
  BY <1>1, <1>2, <1>3, DocumentKept

LEMMA PassDocument ==
    ASSUME IInv, ControlOK', DocumentInv, SkipAlias \/ NextPass PROVE DocumentInv'
<1>1. /\ ControlOK /\ UNCHANGED <<prog, phase, published, ok, queue, ready, types>>
      /\ phase = "resolve"
  BY DEF IInv, SkipAlias, NextPass
<1>2. \A d \in DeclIds : Handled(d)' => Handled(d)
  BY <1>1, HandledKept
<1>3. types' \in Seq(DeclIds' \union Nodes) /\ TypesAreStored'
  BY <1>1, TypesKept
<1> QED
  BY <1>1, <1>2, <1>3, DocumentKept

LEMMA EndLoopDocument ==
    ASSUME IInv, ControlOK', DocumentInv, EndLoop PROVE DocumentInv'
<1>1. /\ ControlOK /\ UNCHANGED <<prog, published, ok, queue, ready>>
      /\ phase \in DOMAIN Following /\ phase' = Following[phase] /\ pos' = 1 /\ LoopEnds
      /\ types' = StoredTypes /\ DeclIds' = DeclIds /\ Aliases' = Aliases /\ Uniques' = Uniques
  BY SameProgram DEF IInv, EndLoop
<1>2. \A d \in DeclIds : Handled(d)' => Handled(d)
  BY <1>1, HandledAtEnd
<1>3. types \in Seq(DeclIds \union Nodes) /\ ready \in Seq(DeclIds \union Nodes)
  BY DEF DocumentInv, TypeOK
<1>4. types' \in Seq(DeclIds \union Nodes) /\ TypesAreStored'
  <2>1. CASE phase = "uniques"
    <3>1. types' = TypeDecls /\ phase' = "variables"
      BY <1>1, <2>1 DEF StoredTypes, Following
    <3>2. TypeDecls \in Seq(DeclIds \union Nodes) /\ Range(TypeDecls) = Aliases \union Uniques
      BY <1>1, TypeDeclsStored
    <3> QED
      BY <1>1, <3>1, <3>2 DEF TypesAreStored
  <2>2. CASE phase = "anonymous"
    <3>1. types' = types \o ready /\ phase' = "done" /\ queue = <<>>
      BY <1>1, <2>2 DEF StoredTypes, Following, LoopEnds
    <3>2. /\ types \o ready \in Seq(DeclIds \union Nodes)
          /\ Range(types \o ready) = Range(types) \union Range(ready)
      BY <1>3, JoinedRange
    <3>3. Range(types) = Aliases \union Uniques
      BY <2>2 DEF DocumentInv, TypesAreStored
    <3> QED
      BY <1>1, <3>1, <3>2, <3>3 DEF TypesAreStored
  <2>3. CASE phase \in {"publish", "resolve"}
    <3>1. types' = types /\ phase' \in {"resolve", "uniques"}
      BY <1>1, <2>3 DEF StoredTypes, Following
    <3> QED
      BY <1>3, <3>1 DEF TypesAreStored
  <2>4. CASE phase \in {"variables", "functions", "constexprs"}
    <3>1. types' = types /\ phase' \in {"functions", "constexprs", "anonymous"}
      BY <1>1, <2>4 DEF StoredTypes, Following
    <3>2. Range(types) = Aliases \union Uniques
      BY <2>4 DEF DocumentInv, TypesAreStored
    <3> QED
      BY <1>1, <1>3, <3>1, <3>2 DEF TypesAreStored
  <2> QED
    BY <1>1, <2>1, <2>2, <2>3, <2>4 DEF Following
<1>5. phase # "failed"
  BY <1>1 DEF Following
<1> QED
  BY <1>1, <1>2, <1>4, <1>5, DocumentKept

\* After a failure nothing more is said of the document.
LEMMA FailLoopDocument ==
    ASSUME IInv, ControlOK', DocumentInv, FailLoop PROVE DocumentInv'
<1>1. /\ UNCHANGED <<prog, queue, ready, types>> /\ phase' = "failed"
  BY DEF FailLoop
<1> QED
  BY <1>1, SameNodes, SameProgram DEF DocumentInv, TypeOK, Seen, NodesAreSeen, TypesAreStored

LEMMA DocumentStep ==
    ASSUME IInv, DocumentInv, [Next]_vars PROVE DocumentInv'
<1>1. ControlOK /\ ControlOK'
  BY ControlStep DEF IInv
<1>2. CASE UNCHANGED vars
  <2>1. /\ UNCHANGED <<prog, phase, pos, published, ok, queue, ready, types>>
        /\ DeclIds' = DeclIds /\ Aliases' = Aliases /\ Uniques' = Uniques
    BY <1>2, SameProgram DEF vars
  <2>2. \A d \in DeclIds : Handled(d)' <=> Handled(d)
    BY <2>1, HandledKept
  <2>3. TypeOK' /\ TypesAreStored' /\ Seen' = Seen
    BY <1>1, <2>1 DEF DocumentInv, TypeOK, TypesAreStored, Seen
  <2>4. NodesAreSeen'
    BY <2>1, <2>2, <2>3, SameNodes DEF DocumentInv, NodesAreSeen
  <2> QED
    BY <2>1, <2>3, <2>4, SameNodes DEF DocumentInv
<1> QED
  BY <1>1, <1>2, PublishUniqueDocument, PassDocument, ResolveAliasDocument, ResolveDeclDocument,
     ResolveAnonymousDocument, EndLoopDocument, FailLoopDocument DEF Next

LEMMA DocumentInit == Init => DocumentInv
<1> SUFFICES ASSUME Init PROVE DocumentInv
  OBVIOUS
<1>1. ControlOK
  BY ControlInit
<1>2. TypeOK
  BY <1>1 DEF Init, TypeOK
<1>3. Range(queue) = {} /\ Range(ready) = {}
  BY DEF Init, Range
<1>4. \A d \in DeclIds : ~Handled(d)
  <2>1. phase = "publish" /\ published = {}
    BY DEF Init
  <2>2. \A d \in DeclIds : prog.decls[d].kind \in DeclKinds
    BY <1>1, ProgramShape DEF Decls
  <2> QED
    BY <2>1, <2>2 DEF Handled, PhaseKinds, After, DeclKinds, ValueKinds
<1>5. NodesAreSeen /\ Seen \subseteq ReachedNodes
  BY <1>3, <1>4 DEF NodesAreSeen, Seen
<1> QED
  BY <1>2, <1>5 DEF Init, DocumentInv, TypesAreStored

\* Together with what holds of the pool, the two invariants are inductive.
THEOREM Bookkeeping == Spec => [](IInv /\ ReportInv /\ DocumentInv)
<1> DEFINE J == IInv /\ ReportInv /\ DocumentInv
<1>1. Init => J
  BY InvariantInit, ReportInit, DocumentInit
<1>2. J /\ [Next]_vars => J'
  <2> SUFFICES ASSUME J, [Next]_vars PROVE J'
    OBVIOUS
  <2>1. queue \in Seq(Nodes)
    BY DEF DocumentInv, TypeOK
  <2> QED
    BY <2>1, InvariantStep, ReportStep, DocumentStep
<1> QED
  BY <1>1, <1>2, PTL DEF Spec

\* The state of the analyzer stays of its type, the queue and the document
\* included.
THEOREM TypeCorrect == Spec => []TypeOK
<1>1. DocumentInv => TypeOK
  BY DEF DocumentInv
<1> QED
  BY Bookkeeping, <1>1, PTL

\* A name is called undeclared only where it is: in the pass that reports missing
\* names the pool already holds every name that has a meaning.
THEOREM NothingFalselyUndeclared == Spec => []NoFalseAlarm
<1>1. ReportInv => NoFalseAlarm
  BY DEF ReportInv
<1> QED
  BY Bookkeeping, <1>1, PTL

\* An analysis fails exactly when it has said why.
THEOREM FailuresAreReported == Spec => []FailureMatchesReports
<1>1. ASSUME IInv, ReportInv PROVE FailureMatchesReports
  <2>1. phase = "failed" => \E x \in diags : x.code # "reported"
    BY <1>1 DEF ReportInv, Failing, IsError
  <2>2. ASSUME phase = "done", NEW x \in diags PROVE x.code = "reported"
    <3>1. ~Failing /\ Aliases \subseteq published
      BY <1>1, <2>2 DEF ReportInv, FlagsAreClear, Failing, IInv
    <3>2. ASSUME NEW d \in Aliases PROVE ~Doomed(d)
      BY <1>1, <3>1, <3>2 DEF Doomed, IInv, AliasesAreGrounded, PoolIsSound, ReportInv, AliasesArePlain
    <3> QED
      BY <1>1, <3>1, <3>2 DEF ReportInv, ReportsLastingErrors, IsError
  <2> QED
    BY <2>1, <2>2 DEF FailureMatchesReports
<1>2. IInv /\ ReportInv => FailureMatchesReports
  BY <1>1
<1> QED
  BY Bookkeeping, <1>2, PTL

\* The document of an accepted program holds its declared types and exactly the
\* anonymous types reached from its declarations, at whatever depth.
THEOREM NothingIsLeftOut == Spec => []DocumentIsComplete
<1>1. ASSUME IInv, ReportInv, DocumentInv, phase = "done"
      PROVE  Range(types) = Aliases \union Uniques \union ReachedNodes
  <2>1. ControlOK /\ ok /\ queue = <<>> /\ Aliases \subseteq published
    BY <1>1 DEF IInv, ReportInv, FlagsAreClear, DocumentInv, TypesAreStored
  <2>2. Range(types) = Aliases \union Uniques \union Range(ready)
    BY <1>1 DEF DocumentInv, TypesAreStored
  <2>3. Seen = Range(ready)
    BY <2>1 DEF Seen, Range
  <2>4. \A d \in DeclIds : Handled(d)
    <3>1. \A d \in DeclIds : prog.decls[d].kind \in DeclKinds
      BY <2>1, ProgramShape DEF Decls
    <3> QED
      BY <1>1, <2>1, <3>1 DEF Handled, After, DeclKinds, ValueKinds, Aliases
  <2>5. ReachedNodes \subseteq Range(ready)
    <3>1. /\ \A d \in DeclIds : NodesIn(prog.decls[d].body) \subseteq Range(ready)
          /\ \A m \in Range(ready) : NodesIn(prog.nodes[m]) \subseteq Range(ready)
      BY <1>1, <2>1, <2>3, <2>4 DEF DocumentInv, NodesAreSeen
    <3>2. Range(ready) \in SUBSET Nodes
      BY <1>1 DEF DocumentInv, TypeOK, Range
    <3> QED
      BY <3>1, <3>2 DEF ReachedNodes
  <2>6. Range(ready) \subseteq ReachedNodes
    BY <1>1, <2>3 DEF DocumentInv
  <2> QED
    BY <2>2, <2>5, <2>6
<1>2. IInv /\ ReportInv /\ DocumentInv => DocumentIsComplete
  BY <1>1 DEF DocumentIsComplete
<1> QED
  BY Bookkeeping, <1>2, PTL
=============================================================================
