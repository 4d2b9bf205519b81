----------------------------- MODULE MCProgram -----------------------------
(***************************************************************************)
(* Every command line of up to four arguments: words, options in all forms *)
(* with and without their value, letters in one argument, illegal ones.    *)
(***************************************************************************)
EXTENDS Program

Word(text)               == [text |-> text, kind |-> "word", names |-> <<>>, value |-> NoText]
Long(text, name, value)  == [text |-> text, kind |-> "long", names |-> <<name>>, value |-> value]
Short(text, names, value) == [text |-> text, kind |-> "short", names |-> names, value |-> value]

MCArguments == {
    Word("a.api"), Word("c"), Word("-"),
    [text |-> "--", kind |-> "separator", names |-> <<>>, value |-> NoText],
    Short("-h", <<"help">>, NoText), Short("-o", <<"output">>, NoText),
    Short("-hol", <<"help", "output", "language">>, NoText),
    Short("-il", <<"implementation", "language">>, NoText),
    Short("-x", <<"x">>, NoText), Short("-l=c", <<"language">>, "c"),
    Long("--output", "output", NoText), Long("--language=c++", "language", "c++"),
    Long("--language=zig", "language", "zig"), Long("--language=go", "language", "go"),
    Long("--test-mode=analyzer", "test_mode", "analyzer")}

MCCodes == {1007, 1012, 6000}
MCClassOf == [c \in MCCodes |-> IF c < 6000 THEN "error" ELSE "warn"]
=============================================================================
