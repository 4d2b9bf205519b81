---------------------------- MODULE Diagnostics ----------------------------
(***************************************************************************)
(* The list of diagnostics (src/diag.c) and the test runner that compares  *)
(* it with the codes a test expects (src/test-runner.c).                   *)
(*                                                                         *)
(* The nth diagnostic emitted is node n of a linked list, 0 is NULL.  The  *)
(* parser and the analyzer, which emit the diagnostics, are external here: *)
(* they emit any codes, and do not fail without emitting one.              *)
(***************************************************************************)
EXTENDS Naturals, Sequences, FiniteSets

CONSTANTS
    Codes,          \* diagnostic codes
    ClassOf,        \* their classes: the ranges of errors, warnings and notes
    MaxEmitted,     \* bound: the number of diagnostics
    MaxExpected     \* max_expected_items

Classes == {"error", "warn", "note"}
EXIT_SUCCESS == 0
EXIT_FAILURE == 1

ASSUME CodesAssumption ==
    /\ ClassOf \in [Codes -> Classes]
    /\ MaxEmitted \in Nat /\ MaxExpected \in Nat

VARIABLES
    expected,       \* expectations: the codes named by the first line of the test
    phase,          \* "emit", "compare", "search" (in remove_one), "done"
    codes, next,    \* the nodes: code and next
    items,          \* the first node of the list
    count, flags,   \* item_count and flags
    index,          \* the expectation at hand
    previous, iter, \* the search for it
    met,            \* expectations_met
    result          \* the exit code

list == <<codes, next, items, count, flags>>
vars == <<expected, phase, codes, next, items, count, flags, index, previous, iter, met, result>>

\* The codes the first line of a test can name.
Expectations == UNION {[1 .. n -> Codes] : n \in 0 .. MaxExpected}

Init ==
    /\ expected \in Expectations
    /\ phase = "emit"
    /\ codes = <<>> /\ next = <<>> /\ items = 0
    /\ count = 0 /\ flags = {}
    /\ index = 1
    /\ previous = 0 /\ iter = 0
    /\ met = TRUE /\ result = EXIT_SUCCESS

\* apigen_diagnostics_vemit
Emit(code) ==
    /\ phase = "emit" /\ Len(codes) < MaxEmitted
    /\ codes' = Append(codes, code)
    /\ next' = Append(next, items)
    /\ items' = Len(codes) + 1
    /\ count' = count + 1
    /\ flags' = flags \union {ClassOf[code]}
    /\ UNCHANGED <<expected, phase, index, previous, iter, met, result>>

\* What the parser and the analyzer return counts only when nothing is expected.
Analyzed(ok) ==
    /\ phase = "emit"
    /\ ok \/ items # 0
    /\ phase' = IF expected = <<>> THEN "done" ELSE "compare"
    /\ result' = IF expected = <<>> /\ ~ok THEN EXIT_FAILURE ELSE EXIT_SUCCESS
    /\ UNCHANGED <<expected, list, index, previous, iter, met>>

-----------------------------------------------------------------------------
(* apigen_diagnostics_remove_one, called for one expectation after another. *)

Search ==
    /\ phase = "compare" /\ index <= Len(expected)
    /\ phase' = "search"
    /\ previous' = 0 /\ iter' = items
    /\ UNCHANGED <<expected, list, index, met, result>>

Found == iter # 0 /\ codes[iter] = expected[index]

\* Mutated form: the search stays where it is behind the first node.
FollowingFirst == IF previous = 0 THEN next[iter] ELSE iter

Following == next[iter]

SkipNode ==
    /\ phase = "search" /\ iter # 0 /\ ~Found
    /\ previous' = iter /\ iter' = Following
    /\ UNCHANGED <<expected, phase, list, index, met, result>>

\* Mutated form: the link of the node found is cleared first.
LinksWithoutRest == [n \in 1 .. Len(next) |-> IF n \in {previous, iter} THEN 0 ELSE next[n]]

\* The links without the node found: the previous one takes over its link.
LinksWithoutFound ==
    [n \in 1 .. Len(next) |->
        IF n = previous THEN next[iter] ELSE IF n = iter THEN 0 ELSE next[n]]

HeadWithoutFound == IF iter = items THEN next[iter] ELSE items

RemoveNode ==
    /\ phase = "search" /\ Found
    /\ next' = LinksWithoutFound
    /\ items' = HeadWithoutFound
    /\ index' = index + 1
    /\ phase' = "compare"
    /\ UNCHANGED <<expected, codes, count, flags, previous, iter, met, result>>

Missing ==
    /\ phase = "search" /\ iter = 0
    /\ met' = FALSE
    /\ index' = index + 1
    /\ phase' = "compare"
    /\ UNCHANGED <<expected, list, previous, iter, result>>

-----------------------------------------------------------------------------
\* Mutated form: missing codes do not count.
VerdictOnRest == IF items # 0 THEN EXIT_FAILURE ELSE EXIT_SUCCESS

\* The function returns an int; "return false" is EXIT_SUCCESS.
Verdict == IF items # 0 THEN EXIT_SUCCESS ELSE IF met THEN EXIT_SUCCESS ELSE EXIT_FAILURE

Conclude ==
    /\ phase = "compare" /\ index > Len(expected)
    /\ result' = Verdict
    /\ phase' = "done"
    /\ UNCHANGED <<expected, list, index, previous, iter, met>>

Next ==
    \/ \E code \in Codes : Emit(code)
    \/ \E ok \in BOOLEAN : Analyzed(ok)
    \/ Search \/ SkipNode \/ RemoveNode \/ Missing
    \/ Conclude

Spec == Init /\ [][Next]_vars

-----------------------------------------------------------------------------
(* Properties.                                                             *)

Nodes == 0 .. Len(codes)

\* Type correctness; every link leads to an older node or nowhere.
TypeOK ==
    /\ expected \in Seq(Codes)
    /\ phase \in {"emit", "compare", "search", "done"}
    /\ codes \in Seq(Codes) /\ Len(codes) <= MaxEmitted
    /\ next \in Seq(Nat) /\ Len(next) = Len(codes)
    /\ \A n \in 1 .. Len(next) : next[n] < n
    /\ items \in Nodes /\ previous \in Nodes /\ iter \in Nodes
    /\ count = Len(codes) /\ flags \subseteq Classes
    /\ index \in 1 .. Len(expected) + 1
    /\ met \in BOOLEAN
    /\ result \in {EXIT_SUCCESS, EXIT_FAILURE}

\* The nodes of the list, found by following the links.
Linked ==
    LET from[n \in Nodes] == IF n = 0 THEN {} ELSE {n} \union from[next[n]]
    IN  from[items]

InList(code)   == Cardinality({n \in Linked : codes[n] = code})
Emitted(code)  == Cardinality({n \in 1 .. Len(codes) : codes[n] = code})
Asked(code, n) == Cardinality({i \in 1 .. n : expected[i] = code})

AsExpected == \A c \in Codes : Emitted(c) = Asked(c, Len(expected))
Unexpected == \E c \in Codes : Emitted(c) > Asked(c, Len(expected))

\* Without an unexpected diagnostic a test succeeds exactly when the emitted
\* codes are the expected ones, each as often as it is expected.
VerdictIsRight ==
    phase = "done" /\ expected # <<>> /\ ~Unexpected =>
        (result = EXIT_SUCCESS <=> AsExpected)

\* The list is a bag of codes (DiagnosticBag).
Bag == INSTANCE DiagnosticBag WITH present <- [c \in Codes |-> InList(c)], missing <- ~met
ImplementsBag == Bag!Spec

\* "got unexpected diagnostics, test failed"
UnexpectedIsFailure ==
    phase = "done" /\ expected # <<>> /\ Unexpected => result # EXIT_SUCCESS
=============================================================================
