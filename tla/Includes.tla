------------------------------ MODULE Includes ------------------------------
(***************************************************************************)
(* Reading a file and the files it includes (src/parser/parser.c).         *)
(*                                                                         *)
(* apigen_parser_file_include calls the generated parser from within the   *)
(* parser, so the files being read form a stack.  The generated parser is  *)
(* external: it reports each declaration and each include in the order of  *)
(* the text, and a syntax error ends the file.                             *)
(***************************************************************************)
EXTENDS Naturals, SequencesExt

CONSTANTS
    Disks,      \* file systems: functions from locations to contents, in which
                \* no directory is empty
    Root,       \* the location of the file given on the command line
    MaxHandles  \* the files and directories a process may hold open

\* A location or a path is a sequence of names, that of the file last.
Up == ".."
Names == STRING \ {"", "."}
Paths == Seq(Names) \ {<<>>}

\* validate_include_path: among others, a path that ends in ".." is not legal.
LegalPaths == {path \in Paths : Last(path) # Up}

Items == [is : {"decl"}]
         \union [is : {"include"}, path : LegalPaths, legal : {TRUE}]
         \union [is : {"include"}, path : Paths, legal : {FALSE}]

\* What reading a file delivers: posix_fd_read ends the file at a read error.
Contents == [items : Seq(Items), broken : BOOLEAN]
Locations == Seq(STRING)

ASSUME DisksAssumption ==
    /\ MaxHandles \in Nat \ {0, 1}
    /\ Root \in Locations \ {<<>>}
    /\ \A d \in Disks : /\ Root \in DOMAIN d
                        /\ \A file \in DOMAIN d :
                              /\ file \in Locations /\ d[file] \in Contents
                              \* No file is a directory.
                              /\ \A n \in 0 .. Len(file) - 1 : SubSeq(file, 1, n) \notin DOMAIN d

VARIABLES
    disk,
    stack,         \* the files being read, that of the command line first
    phase,         \* "reading", "done", "failed", "panic"
    handles,       \* the number of open files and directories
    declarations,  \* top_level_declarations of the outermost file
    reported       \* the diagnostics

vars == <<disk, stack, phase, handles, declarations, reported>>

\* A parser state; at is the item at hand, list the declarations before it.
Opened(file, dir) == [file |-> file, dir |-> dir, at |-> 1, list |-> <<>>]

\* The root's directory needs no handle when it is the current one.
RootHandles == IF Len(Root) > 1 THEN 2 ELSE 1

Init ==
    /\ disk \in Disks
    /\ stack = <<Opened(Root, Front(Root))>>
    /\ phase = "reading"
    /\ handles = RootHandles
    /\ declarations = <<>> /\ reported = <<>>

Top == stack[Len(stack)]
Text == disk[Top.file]
Item == Text.items[Top.at]
AtItem == phase = "reading" /\ Top.at <= Len(Text.items)
AtEnd == phase = "reading" /\ Top.at > Len(Text.items)
Including == AtItem /\ Item.is = "include"

\* The file at the top of the stack, behind the item at hand.
PastItem(list) == [stack EXCEPT ![Len(stack)] = [Top EXCEPT !.at = Top.at + 1, !.list = list]]

\* The file is the one the diagnostic is about; its name is printed for the
\* outermost file only, the others have a file_name of NULL.
Report(code) ==
    reported' = Append(reported, [code |-> code, file |-> Top.file, at |-> Top.at,
                                  handles |-> handles])

Walk(dir, path) ==
    LET at[n \in 0 .. Len(path)] ==
            IF n = 0 THEN dir
            ELSE IF path[n] = Up THEN Front(at[n - 1]) ELSE Append(at[n - 1], path[n])
    IN  at[Len(path)]

Appended(list, declaration) == Append(list, declaration)

\* apigen_parser_file_init, apigen_parser_file_append
ReadDeclaration ==
    /\ AtItem /\ Item.is = "decl"
    /\ stack' = PastItem(Appended(Top.list, [file |-> Top.file, at |-> Top.at]))
    /\ UNCHANGED <<disk, phase, handles, declarations, reported>>

-----------------------------------------------------------------------------
(* apigen_parser_file_include, up to the call of the parser.               *)

RejectInclude ==
    /\ Including /\ ~Item.legal
    /\ stack' = PastItem(Top.list)
    /\ Report("invalid_include_path")
    /\ UNCHANGED <<disk, phase, handles, declarations>>

\* Mutated form: the included file keeps the directory of the including one.
SameDir == Top.dir

\* split_include_path: the directory is the path up to the first slash.
IncludedDir == IF Len(Item.path) > 1 THEN Walk(Top.dir, <<Head(Item.path)>>) ELSE Top.dir
IncludedFile == Walk(Top.dir, Item.path)

\* The directories that a path leads through are there.
Directories == UNION {{SubSeq(file, 1, n) : n \in 0 .. Len(file) - 1} : file \in DOMAIN disk}
Leads ==
    \A n \in 1 .. Len(Item.path) - 1 : Walk(Top.dir, SubSeq(Item.path, 1, n)) \in Directories

\* openat fails on what is not there, and when no handle is left; a directory
\* opens as well as a file does.
DirOpens == handles < MaxHandles /\ IncludedDir \in Directories
Opens == DirOpens /\ handles + 1 < MaxHandles /\ Leads
FileOpens == Opens /\ IncludedFile \in DOMAIN disk
DirectoryOpens == Opens /\ IncludedFile \in Directories

\* A directory that was opened stays open when its file does not open.
MissingInclude ==
    /\ Including /\ Item.legal /\ ~FileOpens /\ ~DirectoryOpens
    /\ stack' = PastItem(Top.list)
    /\ handles' = IF DirOpens THEN handles + 1 ELSE handles
    /\ Report("missing_include_file")
    /\ UNCHANGED <<disk, phase, declarations>>

\* Nothing can be read from a directory, which posix_fd_read takes for the end of
\* an empty file: no declaration, no diagnostic, and both handles closed again.
IncludeDirectory ==
    /\ Including /\ Item.legal /\ DirectoryOpens
    /\ stack' = PastItem(Top.list)
    /\ UNCHANGED <<disk, phase, handles, declarations, reported>>

EnterInclude ==
    /\ Including /\ Item.legal /\ FileOpens
    /\ stack' = Append(PastItem(Top.list), Opened(IncludedFile, IncludedDir))
    /\ handles' = handles + 2
    /\ UNCHANGED <<disk, phase, declarations, reported>>

-----------------------------------------------------------------------------
(* apigen_parser_file_include, from the return of the parser on.           *)

Outer == stack[Len(stack) - 1]

Return(list) ==
    stack' = [n \in 1 .. Len(stack) - 1 |->
                IF n = Len(stack) - 1 THEN [Outer EXCEPT !.list = list] ELSE stack[n]]

\* Mutated forms: they are closed twice; they stay open.
ClosedTwice == handles - 4
LeftOpen == handles

\* Both handles are closed, whatever the parser returned.
Closed == handles - 2

Included == AtEnd /\ Len(stack) > 1

\* An empty file has a sentinel for a list, any other file needs declarations.
HasList == Text.items = <<>> \/ Top.list # <<>>

LeaveInclude ==
    /\ Included /\ ~Text.broken /\ HasList
    /\ Return(Outer.list \o Top.list)
    /\ handles' = Closed
    /\ UNCHANGED <<disk, phase, declarations, reported>>

\* The list of a file that has none, though it is not empty, fails an assertion.
FailAssertion ==
    /\ Included /\ ~Text.broken /\ ~HasList
    /\ handles' = Closed
    /\ phase' = "panic"
    /\ UNCHANGED <<disk, stack, declarations, reported>>

\* Mutated form: the failure of an included file loses what was read before it.
NothingKept == <<>>

\* What the including file goes on with when an included one has failed.
Kept == Outer.list

AbandonInclude ==
    /\ Included /\ Text.broken
    /\ Report("syntax_error")
    /\ Return(Kept)
    /\ handles' = Closed
    /\ UNCHANGED <<disk, phase, declarations>>

\* apigen_parse, of the outermost file.
Finish ==
    /\ AtEnd /\ Len(stack) = 1 /\ ~Text.broken
    /\ declarations' = Top.list
    /\ phase' = "done"
    /\ UNCHANGED <<disk, stack, handles, reported>>

Fail ==
    /\ AtEnd /\ Len(stack) = 1 /\ Text.broken
    /\ Report("syntax_error")
    /\ phase' = "failed"
    /\ UNCHANGED <<disk, stack, handles, declarations>>

Next ==
    \/ ReadDeclaration
    \/ RejectInclude \/ MissingInclude \/ IncludeDirectory \/ EnterInclude
    \/ LeaveInclude \/ FailAssertion \/ AbandonInclude
    \/ Finish \/ Fail

Spec == Init /\ [][Next]_vars

-----------------------------------------------------------------------------
(* Properties.                                                             *)

Declaration == [file : Locations, at : Nat]
Frame == [file : Locations, dir : Locations, at : Nat \ {0}, list : Seq(Declaration)]
Codes == {"invalid_include_path", "missing_include_file", "syntax_error"}

\* Type correctness; in particular handles are opened within the limit only.
TypeOK ==
    /\ Root \in DOMAIN disk
    /\ stack \in Seq(Frame) /\ stack # <<>>
    /\ \A n \in 1 .. Len(stack) : stack[n].file \in DOMAIN disk
    /\ phase \in {"reading", "done", "failed", "panic"}
    /\ handles \in 0 .. MaxHandles
    /\ declarations \in Seq(Declaration)
    /\ reported \in Seq([code : Codes, file : Locations, at : Nat,
                      handles : 0 .. MaxHandles])

\* What an item means: a path is relative to the file that contains it.
Target(file, item) == Walk(Front(file), item.path)
Reaches(file, item) == item.is = "include" /\ item.legal /\ Target(file, item) \in DOMAIN disk
NamesDirectory(file, item) ==
    item.is = "include" /\ item.legal /\ Target(file, item) \in Directories

\* No path leads through two directories: behind such an include, the code looks
\* for further files in the first of them.
Shallow ==
    \A file \in DOMAIN disk : \A n \in 1 .. Len(disk[file].items) :
        disk[file].items[n].is = "include" => Len(disk[file].items[n].path) <= 2

\* An include was reached with less than the two handles left that it takes.
Exhausted == \E n \in 1 .. Len(reported) : reported[n].handles > MaxHandles - 2

\* The declarations a file stands for; a file with a syntax error has none.
MeantOfItem(file, n, included) ==
    LET item == disk[file].items[n]
    IN  CASE item.is = "decl"    -> <<[file |-> file, at |-> n]>>
          [] Reaches(file, item) -> included[Target(file, item)]
          [] OTHER               -> <<>>

MeantAt[depth \in 0 .. MaxHandles] ==
    [file \in DOMAIN disk |->
        IF depth = 0 \/ disk[file].broken THEN <<>>
        ELSE FlattenSeq([n \in 1 .. Len(disk[file].items) |->
                            MeantOfItem(file, n, MeantAt[depth - 1])])]

Meant == MeantAt[MaxHandles][Root]

\* The problems of a file and of those it includes, in the order of reading.  An
\* include that names a directory is none: it goes unnoticed.
Problem(code, file, n) == [code |-> code, file |-> file, at |-> n]

ProblemsOfItem(file, n, included) ==
    LET item == disk[file].items[n]
    IN  CASE item.is = "decl" \/ NamesDirectory(file, item) -> <<>>
          [] Reaches(file, item) -> included[Target(file, item)]
          [] OTHER               ->
                <<Problem(IF item.legal THEN "missing_include_file" ELSE "invalid_include_path",
                          file, n)>>

ProblemsAt[depth \in 0 .. MaxHandles] ==
    [file \in DOMAIN disk |->
        IF depth = 0 THEN <<>>
        ELSE FlattenSeq([n \in 1 .. Len(disk[file].items) |->
                            ProblemsOfItem(file, n, ProblemsAt[depth - 1])])
             \o (IF disk[file].broken
                 THEN <<Problem("syntax_error", file, Len(disk[file].items) + 1)>> ELSE <<>>)]

Problems == ProblemsAt[MaxHandles][Root]

\* The problems reported so far.
Known == [n \in 1 .. Len(reported) |-> Problem(reported[n].code, reported[n].file, reported[n].at)]

\* The document lists the declarations of all files in the order of the text, as
\* if each file stood in place of its include.
ReadInOrder == phase = "done" /\ Shallow /\ ~Exhausted => declarations = Meant

\* Each illegal path, each include of something that is not there and each syntax
\* error is reported once, in reading order, and nothing else is, although reading
\* goes on after a file that failed.  Not so an include that names a directory: the
\* code reads it as an empty file, without a diagnostic.
EveryProblemIsReported ==
    phase \in {"done", "failed"} /\ Shallow /\ ~Exhausted => Problems = Known

MissingReports == {n \in 1 .. Len(reported) : reported[n].code = "missing_include_file"}

\* No handle outlives its file, except that of the directory of a missing file.
HandlesAreReturned ==
    phase # "panic" =>
        \E leaked \in 0 .. Cardinality(MissingReports) :
            handles = RootHandles + 2 * (Len(stack) - 1) + leaked
=============================================================================
