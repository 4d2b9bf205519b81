------------------------------ MODULE Program ------------------------------
(***************************************************************************)
(* A run of the program from its command line to its exit code: the option *)
(* parser (src/args.c), main and the pipeline of phases (src/apigen.c),    *)
(* and Diagnostics, which stands for what is between them: the parser, the *)
(* analyzer and the test runner.                                           *)
(*                                                                         *)
(* An argument is a record of its text and of what the scan makes of it:   *)
(* its kind, the options it names (one, or one per letter), and the value  *)
(* behind its "=".  Whether a file opens is a choice of the environment.   *)
(***************************************************************************)
EXTENDS Diagnostics

CONSTANTS
    Arguments,      \* the arguments a command line is made of
    MaxArguments    \* bound: the length of a command line

NoText == "NULL"
Kinds == {"word", "long", "short", "separator"}

\* CliOptions: the options, and those with a value of their own.
Default == [help |-> FALSE, implementation |-> FALSE, test_mode |-> "disabled",
            output |-> NoText, language |-> "c"]
Consuming == {"test_mode", "output", "language"}

ValuesOf == [test_mode |-> {"disabled", "parser", "analyzer"},
             language  |-> {"c", "c++", "rust", "go", "zig"}]

\* How apigen_panic ends the program.
SIGABRT == 134

\* The back ends that print something; apigen_main panics for "go".
BackEnds == {"c", "zig"}

ASSUME ArgumentsAssumption ==
    /\ \A a \in Arguments :
          /\ a.kind \in Kinds /\ a.names \in Seq(STRING)
          /\ a.text \in STRING \ {NoText} /\ a.value \in STRING
          /\ a.kind = "long" => Len(a.names) = 1
          /\ a.kind \in {"word", "separator"} => a.names = <<>>
    /\ MaxArguments \in Nat

VARIABLES
    given,          \* the command line
    argv,           \* argv without the executable; the scan permutes it
    at,             \* index
    positional_count,
    options,        \* CliOptions
    stage,          \* "options", "main", "analyze", "render", "exit"
    target,         \* what the output holds: "old", "empty", "part", "whole"
    write_failed,   \* the operating system has refused a part of the output
    exit            \* the exit code, at stage "exit"

scan == <<given, argv, at, positional_count, options>>
programVars == <<vars, scan, stage, target, write_failed, exit>>

ProgramInit ==
    /\ expected = <<>> /\ Init
    /\ given \in UNION {[1 .. n -> Arguments] : n \in 0 .. MaxArguments}
    /\ argv = given /\ at = 1
    /\ positional_count = 0
    /\ options = Default
    /\ stage = "options" /\ target = "old" /\ write_failed = FALSE /\ exit = EXIT_SUCCESS

Exit(code) == stage' = "exit" /\ exit' = code

-----------------------------------------------------------------------------
(* apigen_parse_options_or_exit: one turn of its loop.                     *)

Scanning == stage = "options" /\ at <= Len(argv)

\* Mutated form: the last argument is a value as well.
NextArgument == IF at < Len(argv) THEN argv[at + 1].text ELSE NoText

\* The next argument is a value unless it is the last one.
FreeArgument == IF at + 1 < Len(argv) THEN argv[at + 1].text ELSE NoText

\* What an option of argument a gets.  Behind a letter "=" leads nowhere.
ValueFor(a) ==
    IF a.value = NoText THEN FreeArgument
    ELSE IF a.kind = "long" THEN a.value ELSE NoText

Legal(name, value) ==
    \/ name \in {"help", "implementation"}
    \/ name = "output" /\ value # NoText
    \/ name \in DOMAIN ValuesOf /\ value \in ValuesOf[name]

Setting(name, value) == IF name \in Consuming THEN value ELSE TRUE

Names(a) == {a.names[n] : n \in DOMAIN a.names}

\* Every option that takes a value skips an argument for it.
Consumed(a) ==
    IF a.value = NoText
    THEN Cardinality({n \in DOMAIN a.names : a.names[n] \in Consuming}) ELSE 0

ReadOption ==
    /\ Scanning /\ argv[at].kind \in {"long", "short"}
    /\ LET a == argv[at] IN
          /\ \A name \in Names(a) : Legal(name, ValueFor(a))
          /\ options' = [name \in DOMAIN options |->
                            IF name \in Names(a) THEN Setting(name, ValueFor(a))
                            ELSE options[name]]
          /\ at' = at + 1 + Consumed(a)
    /\ UNCHANGED <<vars, given, argv, positional_count, stage, target, write_failed, exit>>

\* parse_option_error
RejectOption ==
    /\ Scanning /\ argv[at].kind \in {"long", "short"}
    /\ \E name \in Names(argv[at]) : ~Legal(name, ValueFor(argv[at]))
    /\ Exit(EXIT_FAILURE)
    /\ UNCHANGED <<vars, scan, target, write_failed>>

\* Mutated form: the argument that moves is not saved.
MovedOver ==
    [n \in DOMAIN argv |-> IF n < at \/ n = Len(argv) THEN argv[n] ELSE argv[n + 1]]

\* move_arg_to_end
MovedToEnd ==
    [n \in DOMAIN argv |->
        IF n < at THEN argv[n] ELSE IF n < Len(argv) THEN argv[n + 1] ELSE argv[at]]

ReadPositional ==
    /\ Scanning /\ argv[at].kind = "word"
    /\ argv' = MovedToEnd
    /\ positional_count' = positional_count + 1
    /\ at' = at + 1
    /\ UNCHANGED <<vars, given, options, stage, target, write_failed, exit>>

\* The loop ends at a lone "--", whatever is behind it.
EndScan ==
    /\ stage = "options"
    /\ at <= Len(argv) => argv[at].kind = "separator"
    /\ stage' = "main"
    /\ UNCHANGED <<vars, scan, target, write_failed, exit>>

-----------------------------------------------------------------------------
(* wrapped_main and apigen_main.                                           *)

Compiling == options.test_mode = "disabled"

\* argv is not read again.
DropArguments == given' = <<>> /\ argv' = <<>> /\ at' = 1

ShowHelp ==
    /\ stage = "main" /\ options.help
    /\ Exit(EXIT_SUCCESS) /\ DropArguments
    /\ UNCHANGED <<vars, options, positional_count, target, write_failed>>

RejectPositionals ==
    /\ stage = "main" /\ ~options.help /\ positional_count # 1
    /\ Exit(EXIT_FAILURE) /\ DropArguments
    /\ UNCHANGED <<vars, options, positional_count, target, write_failed>>

Accepted == stage = "main" /\ ~options.help /\ positional_count = 1

\* The input, or the directory it is in, does not open.
MissingInput ==
    /\ Accepted
    /\ Exit(EXIT_FAILURE) /\ DropArguments
    /\ UNCHANGED <<vars, options, positional_count, target, write_failed>>

\* "go", or a test whose first line has an illegal code or too many of them.
Panic ==
    /\ Accepted
    /\ Compiling => options.language = "go"
    /\ Exit(SIGABRT) /\ DropArguments
    /\ UNCHANGED <<vars, options, positional_count, target, write_failed>>

\* A number with an underscore (Constants), an empty include (Includes), and the
\* like: the parser panics, or an assertion in it fails.
PanicInParser ==
    /\ stage = "analyze" /\ phase = "emit"
    /\ Exit(SIGABRT)
    /\ UNCHANGED <<vars, scan, target, write_failed>>

\* A test names what it expects; nothing is expected of a file that is compiled.
OpenInput ==
    /\ Accepted
    /\ Compiling => options.language # "go"
    /\ stage' = "analyze" /\ DropArguments
    /\ IF Compiling THEN UNCHANGED expected ELSE expected' \in Expectations
    /\ UNCHANGED <<phase, list, index, previous, iter, met, result>>
    /\ UNCHANGED <<options, positional_count, target, write_failed, exit>>

\* apigen_parse and apigen_analyze; for a test, also the rest of its runner.
Analyze ==
    /\ stage = "analyze" /\ Next
    /\ UNCHANGED <<scan, stage, target, write_failed, exit>>

Analysis(code) == stage = "analyze" /\ phase = "done" /\ result = code

\* The result of a test, or of an analysis that failed.
Finish(code) ==
    /\ Analysis(code)
    /\ Compiling => code = EXIT_FAILURE
    /\ Exit(code)
    /\ UNCHANGED <<vars, scan, target, write_failed>>

ToFile == options.output \notin {NoText, "-"}

\* fopen with "wb" empties the file.
OpenOutput ==
    /\ Compiling /\ Analysis(EXIT_SUCCESS)
    /\ stage' = "render"
    /\ target' = IF ToFile THEN "empty" ELSE target
    /\ UNCHANGED <<vars, scan, write_failed, exit>>

MissingOutput ==
    /\ Compiling /\ Analysis(EXIT_SUCCESS) /\ ToFile
    /\ Exit(EXIT_FAILURE)
    /\ UNCHANGED <<vars, scan, target, write_failed>>

Rendering == stage = "render" /\ options.language \in BackEnds

\* stdio buffers what is printed, and writes when the buffer is full.
WriteBuffer ==
    /\ Rendering
    /\ target' = "part"
    /\ UNCHANGED <<vars, scan, stage, write_failed, exit>>

\* apigen_io_writeFile panics when fwrite takes no more.
FailToWrite ==
    /\ Rendering
    /\ write_failed' = TRUE
    /\ Exit(SIGABRT)
    /\ UNCHANGED <<vars, scan, target>>

\* render_identifier, in C: a field, parameter, type, global or constant has a
\* reserved name, or there is no memory to sort in.
PanicInBackEnd ==
    /\ Rendering /\ options.language = "c"
    /\ Exit(SIGABRT)
    /\ UNCHANGED <<vars, scan, target, write_failed>>

\* Mutated form: the result of the back end is forgotten.
ForgottenVerdict == EXIT_SUCCESS

RenderVerdict == IF options.language \in BackEnds THEN EXIT_SUCCESS ELSE EXIT_FAILURE

\* The rest of the buffer is written by fclose, or at the exit.
Render ==
    /\ stage = "render"
    /\ target' = IF options.language \in BackEnds THEN "whole" ELSE target
    /\ Exit(RenderVerdict)
    /\ UNCHANGED <<vars, scan, write_failed>>

\* The rest of the buffer is not written; the result of fclose is ignored.
LoseRest ==
    /\ Rendering
    /\ write_failed' = TRUE
    /\ Exit(RenderVerdict)
    /\ UNCHANGED <<vars, scan, target>>

ProgramNext ==
    \/ ReadOption \/ RejectOption \/ ReadPositional \/ EndScan
    \/ ShowHelp \/ RejectPositionals \/ MissingInput \/ Panic \/ OpenInput
    \/ Analyze \/ PanicInParser
    \/ \E code \in {EXIT_SUCCESS, EXIT_FAILURE} : Finish(code)
    \/ OpenOutput \/ MissingOutput
    \/ WriteBuffer \/ FailToWrite \/ PanicInBackEnd \/ Render \/ LoseRest

ProgramSpec == ProgramInit /\ [][ProgramNext]_programVars

\* One thread that never waits keeps taking steps.  The back end is here a loop
\* that ends; the C back end may in fact sort for ever (TypeOrder).
ProgramFairSpec == ProgramSpec /\ WF_programVars(ProgramNext)

-----------------------------------------------------------------------------
(* Properties.                                                             *)

\* Type correctness; the scan does not lose an argument or count one it has
\* not read, and no output exists before the analysis has succeeded.
ProgramTypeOK ==
    /\ TypeOK
    /\ \A a \in Arguments :
          Cardinality({n \in DOMAIN argv : argv[n] = a})
        = Cardinality({n \in DOMAIN given : given[n] = a})
    /\ at \in Nat \ {0}
    /\ positional_count \in Nat
    /\ stage \in {"options", "main"} => positional_count < at
    /\ DOMAIN options = DOMAIN Default
    /\ options.help \in BOOLEAN /\ options.implementation \in BOOLEAN
    /\ \A name \in DOMAIN ValuesOf : options[name] \in ValuesOf[name]
    /\ options.output # NoText => \E a \in Arguments : options.output \in {a.text, a.value}
    /\ stage \in {"options", "main", "analyze", "render", "exit"}
    /\ target \in {"old", "empty", "part", "whole"}
    /\ write_failed \in BOOLEAN
    /\ target # "old" \/ write_failed => phase = "done" /\ result = EXIT_SUCCESS /\ Compiling
    /\ exit \in {EXIT_SUCCESS, EXIT_FAILURE, SIGABRT}

\* The usual reading of a command line, from the left: an option that takes a
\* value and has none behind "=" is followed by it, and what else is no option
\* is positional.
TakesNext(a) == a.value = NoText /\ Names(a) \intersect Consuming # {}
IsValue[i \in 1 .. MaxArguments] == i > 1 /\ ~IsValue[i - 1] /\ TakesNext(given[i - 1])
Read == {i \in DOMAIN given : ~IsValue[i]}
Words == {i \in Read : given[i].kind = "word"}
NamedAt(name) == {i \in Read : name \in Names(given[i])}
LastOf(S) == CHOOSE i \in S : \A j \in S : j <= i
MeantValue(i) == IF TakesNext(given[i]) THEN given[i + 1].text ELSE given[i].value
MeantOptions ==
    [name \in DOMAIN Default |->
        IF NamedAt(name) = {} THEN Default[name]
        ELSE Setting(name, MeantValue(LastOf(NamedAt(name))))]

\* A command line the scan does not misread: without "--" (which also hides the
\* argument that moved into the place of a positional one), and without letters
\* that both take a value (which skip two arguments).
Ordinary ==
    \A i \in DOMAIN given :
        given[i].kind # "separator" /\ Consumed(given[i]) <= 1

\* An accepted command line is read as it is written: its one positional argument
\* is the input, and every option has the value given last.  The scan moves
\* arguments while it counts them; those it passes over or meets twice must make
\* the count wrong, so that such a command line is not accepted.
ReadAsGiven ==
    Accepted /\ Ordinary =>
        /\ Cardinality(Words) = 1
        /\ \A i \in Words : argv[Len(argv)] = given[i]
        /\ options = MeantOptions

\* What the output holds in the end.  A success has printed the whole document,
\* unless the operating system refused its last part: nobody looks at that.  A
\* failure has left the output as it was, unless the language has no back end: then
\* a file is emptied.  Less than a document is left in it only when a write failed
\* or the C back end aborted; Zig's has nothing else to fail at.  Tests and the
\* help print no document.
OutputIsAccountedFor ==
    stage = "exit" =>
        /\ target = "whole" => exit = EXIT_SUCCESS /\ Compiling /\ ~options.help
        /\ exit = EXIT_SUCCESS /\ Compiling /\ ~options.help =>
              target = "whole" \/ write_failed
        /\ exit = EXIT_FAILURE /\ options.language \in BackEnds => target = "old"
        /\ options.language \notin BackEnds => target \in {"old", "empty"}
        /\ target \in {"empty", "part"} /\ options.language = "zig" => write_failed
        /\ target \in {"empty", "part"} /\ options.language = "c" =>
              write_failed \/ exit = SIGABRT

\* The program ends, if its back end does: the scan, the search for diagnostics
\* and the phases.  (TypeOrder says when the C back end sorts for ever.)
ProgramEnds == <>(stage = "exit")
=============================================================================
