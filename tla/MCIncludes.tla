----------------------------- MODULE MCIncludes -----------------------------
(***************************************************************************)
(* Small file systems for Includes: files that include each other, or      *)
(* themselves, in the same directory, below it and above it; missing files *)
(* and directories; includes that name a directory; paths that are not     *)
(* legal; syntax errors.                                                   *)
(***************************************************************************)
EXTENDS Includes

Declared      == [is |-> "decl"]
Include(path) == [is |-> "include", path |-> path, legal |-> TRUE]
Illegal       == [is |-> "include", path |-> <<"?">>, legal |-> FALSE]

Texts(items, lengths) ==
    [items : UNION {[1 .. n -> items] : n \in lengths}, broken : BOOLEAN]

MCRoot == <<"d", "r">>

RootItems ==
    {Declared, Illegal, Include(<<"a">>), Include(<<"e", "b">>), Include(<<"x">>),
     Include(<<"x", "a">>), Include(<<"e", "..", "a">>), Include(<<"e">>)}
RootTexts == Texts(RootItems, 0 .. 2)
    \union {[items |-> <<Declared, item, Declared>>, broken |-> FALSE] : item \in RootItems}

Disk(r, a, b) == (<<"d", "r">> :> r) @@ (<<"d", "a">> :> a) @@ (<<"d", "e", "b">> :> b)

MCDisks ==
    {Disk(r, a, b) : r \in RootTexts,
                     a \in Texts({Declared, Include(<<"e", "b">>), Include(<<"a">>)}, 0 .. 2),
                     b \in Texts({Declared, Include(<<"..", "a">>), Include(<<"..", "e">>),
                                  Include(<<"x">>)}, 0 .. 1)}
=============================================================================
