# apigen: specifications, model checks and proofs

apigen reads a description of an API (`*.api`) and prints declarations for it in
C (and Zig). It is a batch program: one thread reads a file, checks it, prints
the result and ends. What makes it hard is therefore not concurrency but
*order*: declarations may refer to each other in any textual order, C wants them
in one particular order, and most components work through growing lists that
they change while they walk over them. This directory models that logic in
TLA+, checks the models with TLC on small instances, and proves the properties
that matter most with TLAPS.

All paths below are relative to the repository (`src/` is its root here, so the
C code is in `src/src`).

## 1. Inventory

| Component | State it keeps | Operations | What makes it correct | Modelled in |
|---|---|---|---|---|
| Option parser (`src/src/args.c`) | argv, which it permutes; the options read so far | scan | an accepted command line is read as it is written | `Program` |
| Main (`src/src/apigen.c`) | – | help, parse, analyze, open output, render | output only after an analysis that succeeded; an output that is not whole is accounted for; the program ends if its back end does | `Program` |
| Parser driver, includes (`src/src/parser/parser.c`) | list of declarations, one state per open file | `apigen_parse`, `apigen_parser_file_include`, list building, string conversion | declarations of nested files end up in reading order; an include that fails is reported, and reading goes on behind it | `Includes` (not the strings) |
| Grammar, lexer (`parser.y`, `lexer.l`) | generated automata | tokens | – | number tokens in `Constants` |
| Numbers, strings (`src/src/base.c`) | – | `apigen_parse_uint`, `apigen_parse_sint`, comparisons | the number written | `Constants` |
| Analyzer, names (`src/src/analyzer.c`, `src/src/type-pool.c`) | pool of names, queue of anonymous types, the document | nine phases of `apigen_analyze`, `resolve_type`, `apigen_lookup_type`, `apigen_register_type` | every name that has a meaning is found in whatever order it is written, none that has not; nothing fails silently; nothing is lost from the document | `TypeResolution` |
| Analyzer, enums (`analyze_enum_type` and the value ranges) | running value, collected range, items | one step per item, selection of the backing integer | printed values are those written; errors are true; the selected integer is the smallest that fits | `EnumAnalysis`, `IntegerRanges` |
| Analyzer, constexpr checks (phase 8 of `apigen_analyze`) | – | range and type check of a constant | a constant is called wrong exactly when its text does not fit its type | `Constants`, `IntegerRanges` |
| Type pool, interning (`src/src/type-pool.c`) | cache of structural types | `apigen_intern_type`, `apigen_type_eql` | equal types have equal addresses | `TypePool`, `InternedTypes` |
| Memory arena (`src/src/memory.c`) | list of chunks, the rest of the last one | init, alloc, dupestr, deinit | blocks are disjoint, aligned and inside their chunk | `Arena` |
| C back end, ordering (`src/src/gen/c_cpp.c`) | array of types with dependencies and marks | collect, rotate, mark, print forward declarations, print typedefs | C may compile the result: definitions before uses by value, declarations before pointers; it ends | `TypeOrder`, `DeclarationOrder` |
| C back end, text | – | prefix and suffix of a type, declarations, bodies, docs | the text declares the type the API names | `TypeText`, `TypePrinting` (types only) |
| Zig back end (`src/src/gen/zig.c`) | – | prints the document in its own order | as above | `TypeText`, `TypePrinting` (types only) |
| C++, Rust, Go back ends | – | return failure | – | as failures of `Program` |
| Diagnostics (`src/src/diag.c`) | list of items, count, flags | emit, remove one, has any, render | the list is what was emitted and not removed | `Diagnostics`, `DiagnosticBag` |
| Test runner (`src/src/test-runner.c`) | expected codes | run, compare | the exit code says whether the codes are those expected | `Diagnostics` |
| Stream I/O (`src/src/io.c`) | file handles | thin wrappers of stdio and openat | – | opening and reading in `Includes`, writing in `Program` |

How they interact: everything is a plain call on one thread. The parser appends
to one list of declarations and calls itself for included files; the analyzer
walks that list once per phase and writes types into the pool and into the
document; the back end reads the document. Every component reports to the same
diagnostics list and takes memory from the same arena. There are no callbacks
that come back later, no timeouts, no persistence: the hazards (PROJECT.json,
`hazards`) are of ordering, of loops that may not end, of partial failure (a
phase goes on after an error and must not forget it), and of numbers at their
limits.

## 2. Modules

| Module | What it is |
|---|---|
| `TypeUses` | documents as the C back end sees them: which type uses which, by value or through a pointer; what an order of declarations must satisfy |
| `DeclarationOrder` | abstract specification of the sorting pass: one step that publishes some correct order and exactly the forward declarations it needs |
| `TypeOrder` | the sorting pass and the two type loops of `apigen_render_c`, step by step |
| `TypeOrderProofs` | proofs about `TypeOrder`, the refinement of `DeclarationOrder` included |
| `TypeResolution` | `apigen_analyze` with the pool of names and the queue of anonymous types |
| `TypeResolutionProofs` | proofs about it |
| `IntegerRanges` | the integer types and the values they hold, for `EnumAnalysis` and `Constants` |
| `EnumAnalysis` | `analyze_enum_type` for one enumeration |
| `EnumAnalysisProofs` | proofs about it |
| `Constants` | one constexpr, from the digits of its text to the errors about it |
| `ConstantsProofs` | proofs about it |
| `InternedTypes` | abstract specification of the cache of types: a function from types to addresses that only grows |
| `TypePool` | `apigen_intern_type` with the recursive `apigen_type_eql` |
| `TypePoolProofs` | proofs about it, the refinement of `InternedTypes` included, and about the texts of `TypePrinting` |
| `TypeText` | the text of types in C and in Zig, and a reader for each |
| `TypePrinting` | composition of `TypePool` and `TypeText`: what is interned is printed |
| `Arena` | the arena allocator |
| `ArenaProofs` | proofs about it |
| `Includes` | the parser driver: files that include files |
| `IncludesProofs` | proofs about it |
| `DiagnosticBag` | abstract specification of the list of diagnostics: a bag of codes |
| `Diagnostics` | the list of diagnostics, and the test runner that takes the expected codes out of it |
| `Program` | composition: the command line, the phases and the output around `Diagnostics` |
| `ProgramProofs` | proofs about both, the refinement of `DiagnosticBag` included |
| `MC...` | families of small inputs for TLC; they contain nothing else |

The definitions called "mutated form" in the comments are plausible wrong
versions of the definition next to them. They are not used by the specification;
replacing a definition by its mutated form must make TLC report a violation,
which shows that the property has something to say about that code.

### 2.1 TypeUses, DeclarationOrder, TypeOrder

`create_type_order_map` copies `document->types` into an array of
`TypeDeclSpec`, gives each a list of dependencies, permutes the array and sets
`requires_forward_decl`; `apigen_render_c` then runs over the array twice.

* `array`, `hard`, `weak`, `forward` are the array and the fields of its
  elements; `phase`, `index`, `cursor` say which loop runs and where. `tags` and
  `names` are ghosts of the printed text: the struct/enum tags and the typedef
  names it has declared so far. They are kept apart because C keeps them apart.
* `FetchDependency` is one named type reached by the recursive
  `fetch_dependencies`; the chain of unnamed pointers, arrays and functions that
  leads to it is abstracted to what the code remembers of it, whether the last
  wrapper is a pointer. `AddTypeDependency` strengthens a known dependency.
* `Advance` and `Postpone` are one turn of the ordering loop: `dep_last` is the
  greatest position of a hard dependency, and 0 when there is none, exactly as
  in the code. `RotateDeclsDown` is `rotate_decls_down`.
* `Mark`, `ForwardDeclare`, `Define` are one turn of the last three loops.

Struct and union are treated alike by the code and are one kind here. The text of
a declaration is abstracted to the names it declares and needs.

### 2.2 TypeResolution

One action per turn of a loop of `apigen_analyze`. `published` is the set of
declarations whose types are in the pool (`apigen_register_type`); `InPool` is
`apigen_lookup_type`. `emit`, `resolved`, `unresolved`, `nonResolveError` are the
locals of the passes over the aliases, `queue` and `ready` the two
`GlobalResolutionQueue`s, `types` is `document->types`.

A type expression is reduced to the sequence of places where
`resolve_type_inner` can do something else than go on: names, anonymous types
(which are queued), array sizes that are not unsigned, duplicate parameters.
`Outcome`, `Pushed`, `Emitted` are what one call of `resolve_type` returns,
queues and reports, including what a call that fails has queued before. The
errors a body can have of its own are reduced to whether they make the analysis
fail. A parameter list that met a duplicate goes on to its end and fails there, so
`"duplicate"` and `"params"` come together (`Exprs`); a declaration, an anonymous
type and the whole document are told apart as places of diagnostics
(`PlacesAssumption`).

### 2.3 EnumAnalysis

`bits` is the union `current_value`; `Read` is its reading as `uint64_t` or
`int64_t`, which changes in the middle of a list when the first negative item
comes, be it `-0`. `low` and `high` are `actual_range`. Two outcomes of the undefined signed
increment at the top of the range are kept: wrapping, or the end of the program.
`Halves` gives the widths, so TLC works with integers of 2, 3, 4 and 5 bits in
place of 8, 16, 32 and 64, while the proofs hold for any widths. The warning
about platform dependent backing types is left out.

### 2.4 Arena

An address is a chunk and an offset from its start. `chunks` holds the fields of
every `apigen_MemoryArenaChunk` (`memory`, the border between its used and unused
part, `size`, the unused rest, `next`), and `length`, what was asked of malloc;
`first` and `last` are `first_chunk` and `last_chunk`. `blocks` is a ghost of
everything `apigen_memory_arena_alloc` has returned, `filled` of the last memset,
and `freed` counts the calls of free.

`AllocFromLast` and `AllocNewChunk` are the two ways through
`apigen_memory_arena_alloc`, `OutOfMemory` its panic; `Deinit`, `FreeChunk` and
`Poison` are `apigen_memory_arena_deinit`, one turn of its loop at a time.
`apigen_memory_arena_dupestr` is an allocation and a copy into it. malloc is
external: it fails, or returns fresh memory aligned for any type. Sizes are far
from `SIZE_MAX`, so rounding does not wrap (the code asserts it).

### 2.5 Includes

`apigen_parser_file_include` calls the parser from within the parser, so the
files being read form `stack`, one parser state each. A file is a list of
declarations and includes, `broken` when a syntax error ends it. The generated
parser is external: it reports the items in the order of the text, and a file
with an unexpected character (`src/src/parser/lexer.l:135`) is for it a shorter
file, since the scanner's -1 means its end.

* Locations and paths are sequences of names, `..` among them. `dir` is
  `source_dir`; `IncludedDir` is what `split_include_path` makes of it, the path
  up to its *first* slash, and `IncludedFile` is found from there, through
  directories that must be there (`Leads`). Empty names and "." are left out of
  paths, and so are links in the file system and empty directories.
* openat opens a directory like a file, and only reading it fails, which
  `posix_fd_read` takes for the end of the file (`src/src/io.c:182`): an include that
  names a directory is an empty file (`IncludeDirectory`). Any other read error also ends
  a file early; the contents of a file are what reading it delivers.
* `handles` counts what openat has opened. `MaxHandles` is the limit of the
  process: a file that includes itself goes on until openat fails, and is
  reported as missing then. A directory that was opened for a file which does
  not open is not closed (`MissingInclude`).
* `HasList` tells the sentinel for an empty document from the list of a file which
  is not empty but has no declarations, for which the assertion fails.
* `reported` keeps the place each diagnostic is about (`file`, `at`) and how many
  handles were open then. The file name that is printed is left out; for an
  included file the code has only NULL to print (`src/src/parser/parser.c:133`).

`Meant` and `Problems` are the reference: what the files stand for when each path
is relative to the file that contains it, down to as many levels of includes as
there can be handles (`MeantAt`, `ProblemsAt`). An include that names a directory
stands for nothing and is no problem there, as the code has it (section 4). Two cases are excluded from the
comparison: no handles left (`Exhausted`), and paths through two directories
(`Shallow`), behind which the code looks for further files in the first directory.
A disk is a file system: no file of it is the directory of another
(`DisksAssumption`).

### 2.6 DiagnosticBag, Diagnostics

The nth diagnostic is node n of the list; `next` are the links, 0 is NULL.
`Search`, `SkipNode`, `RemoveNode`, `Missing` are
`apigen_diagnostics_remove_one`, one turn of its loop at a time, called by the loop
of `apigen_test_runner` over the `expected` codes; `Verdict` is what the runner
returns. The parser and the analyzer emit any codes here, and do not fail without
emitting one (`FailureMatchesReports` of `TypeResolution` and
`EveryProblemIsReported` of `Includes` are about that). `DiagnosticBag` forgets
the links and the search: a code is taken out of the bag, or missing when the bag
has none.

### 2.7 Program

The steps of `Diagnostics` are the stage `"analyze"` of a run that begins with a
command line and ends with an exit code.

* `argv` is permuted by the scan, `given` is a ghost of what it was; `at` is
  `index`. An argument keeps its text and what the scan finds in it: its kind,
  the options it names, the value behind "=". `ReadOption`, `RejectOption`,
  `ReadPositional`, `EndScan` are one turn of the loop of
  `apigen_parse_options_or_exit`. `MovedToEnd` is `move_arg_to_end`, after
  which the index goes on: the argument that moved into the gap is not read.
* `ShowHelp` to `Render` are `wrapped_main` and `apigen_main` with every early
  return. Whether a file opens is a choice. `Panic` is language "go" or an
  illegal expectation, `PanicInParser` what the other modules find to end the
  program in the middle (numbers with an underscore, an include without
  declarations). An analysis with diagnostics may succeed (warnings, errors about
  constants and includes); one that fails has some.
* `target` is what the output holds. `OpenOutput` empties a file before the back end
  runs. `WriteBuffer` is stdio writing what was printed so far; `FailToWrite` is
  `apigen_io_writeFile` at an error, and `write_failed` a ghost that remembers it.
  `PanicInBackEnd` is the C back end at a reserved identifier or without memory;
  what it has printed is in the buffer or in the file. `Render` ends the back end, and
  fclose (or the exit) writes the rest; in `LoseRest` that fails, and nobody looks at
  what fclose returns. That the C back end ends its sorting is the question of
  `TypeOrder`. Writing diagnostics to stderr is taken to work.

When it is no longer read, `argv` is forgotten (`DropArguments`), which only
keeps the number of states small.

### 2.8 IntegerRanges, Constants

`Halves` has half the number of values of each width; the range of every integer
type lies within a word (`IntTypes`), and holds 0 (`IsType`). A number is read one digit a
step (`ReadDigit`, with the wrapping multiplication of a `uint64_t`), and becomes
a signed or an unsigned value by its sign alone; `Check` is phase 8 of
`apigen_analyze` for one constant whose type is resolved. Pointers to characters
and arrays of them are reduced to the length they ask for. All other types are
illegal for `Check`. The reference (`Fitting`) says so only of those that no token is
a value of (`"valueless"`); floats, which the documentation has constants of, other
pointers, enumerations and aliases are kept apart and left open (`Unsettled`).

### 2.9 InternedTypes, TypePool, TypeText, TypePrinting

A structural type has an id, the addresses of the types it is made of, and other
data (sentinel, size, names of parameters). `resolve_type_inner` interns bottom-up,
so the parts are `Canonical`: names, or answers it got before.

* `Intern` calls `apigen_intern_type` with any type over canonical parts;
  `Compare` and `NextEntry` are its loop, `CacheHit` and `CacheMiss` its two ends.
  `calls` is the stack of `apigen_type_eql`: `ComparePart` calls it for the next
  part, `PartIsEqual` and `EntryDiffers` return.
* Builtin types and declared ones (struct, union, enum, opaque, alias) are
  compared by address alone; interning them returns them as they are, which is no
  step here.
* `TypeText` writes a type down as `render_type_prefix`, `render_type_suffix` and
  `render_declaration` do for C, and `render_type` for Zig: as tokens, without
  layout. The recursive functions of the back ends are recursive functions over the
  addresses of the cache (`Written`, `ZigText`), which is sound because parts are older
  than the whole.
* `ReadDeclaration` and `ReadZig` are what a compiler of the language reads in the
  tokens; these are external. A declarator is read from the outside to the name, one
  token a step (`DeclaratorStep`). Parameters are declarations within a declaration
  and are read by the reader one level below (`CReader`, `ZigReader`); there are as
  many levels as the cache has entries, and no type is deeper. C has one kind of
  pointer, so for C the optional and the many-item pointers mean the same (`InC`).

`Expressible` says exactly for which types prefix and suffix are enough: not for
pointers to arrays, for arrays of arrays of different sizes, and for arrays of
function pointers and functions that return them. `CTextIsRightIfExpressible` has
it in both directions.

## 3. Runs

| Run | Question | Bounds |
|---|---|---|
| `TypeOrder_sorting` | Are the dependencies, rotations, marks and printed declarations right, does the pass implement `DeclarationOrder`, and does it end? | 3 types of any kind, up to 2 uses each, type 0 also of itself |
| `TypeOrder_hang` | Is every resolvable document sorted? (no) | 2 structs |
| `TypeResolution_all` | Do the passes find exactly the names with a meaning, is no error forgotten, nothing lost from the document, and does the analysis end? | 3 declarations of types over 5 names, every reference and clash; 3 declarations of every kind, with anonymous types two levels deep |
| `EnumAnalysis_values` | Are values, errors and the selected type those the text means? | 3 items of 19 literals (4 items of 3), 12 sorts of backing type, words of 5 bits |
| `EnumAnalysis_mixed` | Can the selected integer store all items? (no) | as above |
| `Constants_values` | Are numbers read as written, and the errors about constants right? | numbers of up to 3 digits, binary ones of up to 9; words of 8 bits; integers of every width and sign, platform dependent ones, characters with 3 lengths, and one type of each of 5 other kinds |
| `Arena_blocks` | Are blocks aligned, disjoint and inside their chunks? | 5 blocks of 8 sizes: none, around each multiple of the alignment, more than a chunk; an alignment of 4, a header of 6 bytes, chunks of 12 |
| `Includes_order` | Are all declarations listed in reading order, all problems reported once, and all handles returned? | 3 files in a directory, in the same and in one below it, including each other, themselves or a directory; the outermost with up to 2 items of 8 sorts (3 when it begins and ends with a declaration), the others up to 2 and 1, each whole or broken; 8 handles |
| `TypePool_types` | Do equal types share an address, does the cache implement `InternedTypes`, and is the text of each type right? | 3 cached types over 2 names; 8 kinds of pointers with every combination of two of their flags, 2 sizes, 1 sentinel, up to 1 parameter of 2 names |
| `TypePool_arrays` | Is the C text of every type right? (no) | 2 cached types |
| `Program_runs` | Is an accepted command line read as given, is an output that is not whole accounted for, does the list behave as a bag, is the verdict of a test right, and does every run end whose back end ends? | up to 4 arguments of 15 sorts; writing may fail at any moment; up to 4 diagnostics of 3 codes, and up to 3 expected codes |
| `Program_unexpected` | Do unexpected diagnostics fail a test? (no) | as above |

Why these bounds are enough to be interesting: three types are the fewest with
which a rotation moves a type past one that was placed, with which rotations
follow each other in a cycle, with which a chain of uses is longer than the array
prefix it must pass, and with which one type is marked on behalf of another while
a third stands between them. Three declarations are the fewest with a chain of
aliases that needs two passes next to a declaration that fails, and with a cycle
next to a declaration that resolves. Three items are the fewest with which an
enumeration can be unsigned, turn signed, and go on counting; the literals lie on
both sides of the limit of every width. Eight handles are three levels of nested
files below the outermost one, so a file has one that it includes and one that
includes it, and self-including files reach the limit; two items before or behind an include are the fewest with an order that could
be wrong. Four diagnostics of which two are equal have a head, a middle and an
end to be unlinked, and an equal code behind each. Four arguments are the fewest
with an option, its value, a positional argument and one more that moves into its
place. Three cached types are the fewest in which a type is made of a type that is
made of another, next to one that equals it but for a part two levels down. Words
of 8 bits keep the limits of all widths apart, and three decimal digits or nine
binary ones reach beyond a word.

`CHECK_DEADLOCK FALSE` appears where the program ends: the last state is its
return, not a deadlock.

Fairness: `FairSpec` is weak fairness of `Next`. Each module models one sequential
function that nothing interrupts or waits for, so it keeps taking steps until
it returns. Weak fairness assumes nothing else, in particular not which of
several steps is taken. `ProgramFairSpec` is the same for the whole program: the
choices of the environment (a file that does not open, a panic) are always
enabled together with some other step, so weak fairness promises none of them.
The back end is a loop that ends there, which the C back end is not always
(`TypeOrder_hang`); `ProgramEnds` is about everything around it.
`ProgramEnds`, `AnalysisEnds` and the termination of the sorting pass need it.

## 4. What the runs found

* `TypeOrder_hang`: a struct at position 0 that has only pointers to later types
  makes `create_type_order_map` loop forever (`src/src/gen/c_cpp.c:660-690`):
  without a hard dependency `dep_last` is 0, and "`0 < index`" is false at
  index 0. `SortableDocumentsFinish` states when the loop does end.
* `EnumAnalysis_mixed`: an item of 2^63 or more next to a negative one is stored in
  an `i64` without an error, against `src/README.md:213`.
* `TypePool_arrays`: a pointer to an array is printed in C as an array of pointers
  (`src/src/gen/c_cpp.c:237`), against `src/README.md:145` and `:157`.
* `Program_unexpected`: `return false` at `src/src/test-runner.c:152` is the exit
  code of a success, under the comment "got unexpected diagnostics, test failed".

Observed while modelling, kept in the models as the code has it and excluded by
name where a property would fail; no run of its own shows them:

* A pointer to an enum that is defined later is printed as the bare name `E`, but
  the forward declaration `enum E;` (`src/src/gen/c_cpp.c:753`) declares only the tag.
* `-0` is rejected for an unsigned backing type, because "all signed ints are less
  than zero" (`src/src/analyzer.c:774`) is not so. Without a backing type it makes the
  reading signed, and an item of 2^63 or more behind it comes out negative.
* The assertion at `src/src/parser/parser.c:194` fails for an included file that only
  includes a file which is empty, missing or broken.
* `src/src/args.c:150` says of a lone "--" that "everything after here is
  positional", but the scan ends there and counts nothing: `apigen -- a.api` is
  rejected. "only last option sees the value" (`src/src/args.c:214`) compares the
  wrong index: without "=" every letter sees it, with "=" none does.
* Lower-case hexadecimal digits are counted from 'F' (`src/src/base.c:70`), so `0xa`
  is 37; an underscore, which the tokens allow, makes the program panic; numbers of
  2^64 and more wrap; -2^63 cannot be written.
* `constexpr pi: f32 = 10;` is what `src/README.md:83` shows for a constant, but the code
  reports it as a constant of an unsupported type (`src/src/analyzer.c:1268`), like every
  type but integers and characters; aliases of integers, and pointers that could be
  null, are among them.
* The C back end aborts at a field, parameter, type, global or constant with a reserved name
  such as `default` (`src/src/gen/c_cpp.c:133`), when the file for the output is
  already emptied (`src/src/apigen.c:45`) and perhaps half written. The result of
  fclose is ignored (`src/src/apigen.c:73`): a success may leave a truncated file.
* An include that names a directory is read as an empty file, without a diagnostic:
  openat opens it (`src/src/io.c:207`), and a read error is taken for the end of the
  file (`src/src/io.c:182`), in every other file too.
* Errors about constants do not make the analysis fail (`src/src/analyzer.c:1239`), nor
  do errors about includes (`src/src/parser/parser.c:126`): the output is printed and
  the exit code is that of a success.
* An alias that fails after it has queued an anonymous type queues it again in the
  next pass (`src/src/analyzer.c:568`).

## 5. Proofs

The theorems hold for every value of the constants: any number of types and any
documents, any programs, any widths and lists, any files, any command line. The
assumptions are those named in the modules (`NAssumption`, `DocumentsAssumption`,
`BuiltinsAssumption`, `ProgramsAssumption`, `PlacesAssumption`, `HalvesAssumption`,
`EnumsAssumption`, `TextsAssumption`, `ConstantsAssumption`, `PoolAssumption`,
`TextAssumption`, `DisksAssumption`, `CodesAssumption`, `ArgumentsAssumption`): the
shape of the inputs and the bounds being numbers. TLC evaluates them in every run.

Every invariant the passing runs check is a theorem, and so are the refinements of
all three abstract specifications (`DeclarationOrder`, `InternedTypes`,
`DiagnosticBag`).

**TypeOrder.** `IInv` says what each loop has done so far: the lists hold the uses
visited so far, the array is a permutation, the types before `index` use by value
only types before them, the marks are those asked for by the types before
`index`, the text declares what was printed. The point is the ordering loop:
`Postpone` disturbs only positions from `index` on, because a rotation starts
there, so the ordered prefix survives; this needs that the array stays a
permutation, and that the lists are complete before the loop begins. From the
invariant follow `StrongestDependencies`, `TypesAreKept`, `PlacedInOrder`,
`ForwardExactly`, and the action properties `DefinedBeforeUse` and
`DeclaredBeforeUse` (the latter with enums excepted, which are declared as tags only). `Refinement` shows that the pass implements
`DeclarationOrder`: the step from the marking loop to the next is `Publish`,
every other step stutters.

**TypeResolution.** The meaning of a name is a least fixed point: `Resolvable` is
the intersection of all sets of names closed under the declarations. Soundness of
the pool is inductive since an alias enters it after the names it uses.
Completeness needs what a pass has established up to its position
(`PassIsRight`): while it has resolved nothing, every unpublished alias before
the position misses a name; the pool names then form a closed set when a pass
that resolves nothing ends, so they contain the least one. From this follow
`PoolSound`, `PoolComplete`, `VerdictIsRight` ("Found cyclic dependencies or
undeclared types" names exactly those aliases), `OneTypePerName`,
`ReportingPassFindsNothing` and `AliasesLookBack` (following aliases ends).

Two further invariants need the first one (`Bookkeeping`). `ReportInv` relates the
diagnostics to the flags the phases keep. An error in a pass over the aliases does
not make that pass fail; it is enough that its alias is `Doomed`, that no later pass
can resolve it, so that the passes fail in the end. This is where the reporting pass
must be the last one. From it follow `NothingFalselyUndeclared` and
`FailuresAreReported`. `DocumentInv` says that the anonymous types of whatever was
resolved are in one of the two queues (`NodesAreSeen`), and none but reachable ones;
when the queue is empty the visited ones are closed under nesting, so they contain
the least such set, `ReachedNodes` (`NothingIsLeftOut`).

**EnumAnalysis.** `IInv` says that each stored word lies in the collected range
under one of its two readings. Which reading is not known until the last item
(the switch to signed may come later), so the invariant keeps both, and
`NoItemIsTruncated` settles it by the sign of the final range: words read
unsigned below 2^63 have the same signed reading, and words read signed in a
range that is not negative have the same unsigned one.

`JInv` goes on to what the words mean: each is that of the value its text means
(`Counting`) as long as no item before it counted beyond the word, the collected range
is that of the meant values (`Ranging`) as long as they fit the reading of the moment,
and the reports so far are right (`Reporting`, `OutOfRangeSoFar`). What fits one
reading from the beginning fits the reading of every moment, or turns signed while
all words are below 2^63. `EnumPrintedAsMeant`, `SmallestSelected` and
`EnumErrorsAreRight` follow.

**Constants.** While the digits are read, `val` is the number that those read so far
mean (`ReadSoFar`). The multiplication wraps, but not for a number that fits a word:
a number's leading digits mean less than the whole (`ReadAsWritten`). The errors
(`ErrorsAreRight`) are then a comparison of numbers; it is signed or unsigned by the
sign of the text, and so needs that the range of a type lies within a word.

**TypePool.** The cache holds no type twice (`NoDuplicates`), and the entries that a
search has left behind are not the type searched for (`SearchedInVain`). To carry
the second over a comparison that fails, the invariant follows the recursion of
`apigen_type_eql` (`CallsAreRight`): each call on the stack has found its types equal
so far, in parts of which both addresses are the same, and waits for the call above
it. So a call that finds a difference refutes all those below, and one that finds
none has compared a type with itself. Hence addresses decide about equality, which
`Refinement` states as the refinement of `InternedTypes`, and `PointerEquality` for
types that are equal all the way down, by induction from the oldest entry.

**TypePrinting.** The text of a type follows from the invariant of the cache alone.
For Zig (`ZigIsRight`), every token tells which constructor it belongs to and what
remains behind it, so n + 1 levels of the reader read back a type that lies n levels deep
(`ZigIsReadBack`).

For C (`CIsRight`), each type lies over a name or over a function
(`OverNameOrFunction`), by induction from the oldest entry.
Over a name, the prefix is read as the pointers of the type (`Leads`), and the sizes
behind the name, read from the last to the first, are the sizes of the type in reverse
order (`Fits`): this is right for a list of sizes that reads the same both ways, and
never when a pointer is over an array, as then more sizes are read than the type has.
Over a function, the text is what the function returns, a group around the name and
the parameters behind it (`FunctionText`). If what it returns needs a suffix, then
that stands before the name, and no step of reading can take it off (`Behind`,
`NeverDeclared`). If not, sizes behind the parameters would be the sizes of what is
returned, which no function may return (`CalledTextIsRead`), and without sizes the
declaration is right if the parameters are (`CalledIsMeant`, `InsideIsRead`). The
parameters lie less deep, so this is again an induction over the levels of the reader
(`CIsReadBack`).

**Includes.** `IInv` keeps what is open for each file on the stack, which gives
`HandlesReturned`. `ReadingInv` is about the nesting: the list of each file on the
stack is what its items read so far mean, a file that waits being in the middle of
an include, and the reports are the problems of those items, the outermost file's
first (`Read`). Returning from an include joins two neighbouring lists, which is why
the lists of *all* files on the stack must be in the invariant. `Meant` is defined by
levels of nesting, and a file on the stack at depth n has as many levels below it as
there are handles left for. A legal path of one or two names leads to something in the
directory that is opened first (`ShortPaths`), so that the including file's location and
`source_dir` agree on it and it is opened if it is there (`OpenedIfThere`); this is where
`Shallow` is needed. From `OrderInv` follow `DocumentInOrder` and `ProblemsReported`;
the latter speaks of the problems the code knows of, to which the include of a
directory does not belong.

**Diagnostics and Program.** The links lead to older nodes, so the members of the list are the
one set that begins at the head and has no gap (`IsChain`, `LinkedChain`). Unlinking
a node keeps this, because the search holds the newer neighbour (`SearchIsRight`). What is in
the list is what was emitted less what was expected so far (`ListIsCounted`); this
gives `TestVerdict`, and `ListIsABag` the refinement of `DiagnosticBag`. The stages
of a run keep apart what was done to the output (`StageInv`), when a
write failed and when a back end aborted, which gives `OutputAccountedFor`. For the
command line, `ScanIsOrdinary` says that the scan reads what is given up to the first
positional argument; when that is not the last argument, `move_arg_to_end` leaves it
where the scan must meet it a second time, so that there are two and the command line
is rejected. Accepted ones were therefore never permuted (`CommandLine`).

**Arena.** `IInv` adds to the properties that a chunk begins with its header, that
the list is the sequence of chunks (chunk n links to n + 1, the last to none), and
that the chunks before the cursor of `deinit` are the freed ones. A new block
begins at the border of the used part of its chunk, and no older block reaches
beyond that border (`BlocksStayInside`): so it is disjoint from them, and filling
it disturbs none. The assertion `chunk->size >= aligned_size` is part of
`TypeOK`: a chunk cut too far would have a negative rest. `Aligned` has an invariant
of its own: borders and blocks are multiples of the alignment, given by a factor, so
that the solver need not divide.

Induction over data is done with sets: the numbers for which a claim holds are all of
them, as a set of numbers that is not empty has a least one (`Induction`, from the
library's theorem about well-founded relations). Recursive functions are first shown to exist and
to satisfy their equations, in the same way.

The parts of the inductive invariants that only serve the proofs
(`CollectedSoFar`, `PrintedSoFar`, `PassIsRight`, `ReadingInv` and others) are in no
run.

Some theorems state more than the runs ask: `PlacedInOrder`, `ForwardExactly`,
`TypesAreKept`, `AliasesLookBack`, `ReportingPassFindsNothing`, `FreedOnce` and
`ContentsSurvive` hold for every value of the constants and have no run.

Only model-checked: everything about liveness (`SortableDocumentsFinish`,
`AnalysisEnds`, `ProgramEnds`), since the prover has no fairness.

## 6. Plan

The order followed was: the sorting pass and the analyzer, where order is hardest;
the arena; the parser driver; diagnostics; then the pool of types with the text of
types, the constants, and the program as a whole; then the proofs, those about the
text of types last. What is left is the composition of `TypeResolution` with
`TypeOrder`: the documents the analyzer produces are those the back end assumes
(aliases ranked, no dangling types).

## 7. Not modelled

* Strings: the conversion of string literals, doc comments and identifiers copies
  characters into a block of the arena; it keeps no state. (At
  `src/src/parser/parser.c:308` the terminator of a joined line is written one byte
  behind the block that was asked for; `Arena` rounds blocks up, so whether that byte
  belongs to another block depends on the length.)
* The generated lexer and parser: what bison and flex make of `parser.y` and
  `lexer.l` is trusted, but for the tokens of numbers.
* The rest of the printed text: docstrings, the case of identifiers, values of
  constants, and the bodies of structs, unions and enums, a layout without decisions.
* Streams: formatting in `src/src/io.c`, and writing to stderr, its failure included. The
  rendering of diagnostics only prints.
* The C++, Rust and Go back ends, which only return failure.
* `src/examples` and `src/tests` are not program logic; the tests are the input of the
  test runner.
