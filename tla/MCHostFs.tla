------------------------------- MODULE MCHostFs -------------------------------
(***************************************************************************)
(* Instances of HostFs for TLC: a root with a file, a directory that holds *)
(* another directory, and the -prg file.                                   *)
(***************************************************************************)
EXTENDS HostFs, TLC

MCNames == <<"d", "a", "A", "$">>
MCFold == [n \in Entries |-> IF n = "A" THEN "a" ELSE n]

MCTree == <<"d">> :> 0 @@ <<"a">> :> 1
MCData == [i \in Inodes |-> IF i = 1 THEN <<1, 2>> ELSE IF i = PrgInode THEN <<2>> ELSE <<>>]

\* A tree that has the same directory name twice, a file below the second.
DeepTree == <<"d">> :> 0 @@ <<"d", "d">> :> 0 @@ <<"d", "d", "a">> :> 1

With(op, a) == [op |-> op, a |-> File(a, "R")]

\* Read it, append to it, write it with "@", update it; a listing of the programs;
\* the path of the current directory, which opened to write is a new file "$"; the
\* -prg file; a name that does not parse.
MCOpenNames ==
    {File("a", "R"), File("A", "A"), At(File("a", "W")), File("*", "M"),
     Listing("dir", "PRG", "$"), [Listing("cwd", "", "$") EXCEPT !.mode = "W"],
     [File("*", "R") EXCEPT !.kind = "prg"], [File("a", "R") EXCEPT !.kind = "bad"]}

MCCommands ==
    {With("CD", "d"), With("CD", ".."), With("MD", "d"), With("RD", "d"), With("S", "a"),
     [op |-> "R", a |-> File("A", "R"), b |-> File("a", "R")],
     [op |-> "P", n |-> 2, to |-> 1], [op |-> "T", n |-> 2],
     [op |-> "unit", n |-> 9, else |-> 30]}

DeepNames == {In(File("a", "W"), <<"d">>)}
DeepCommands == {With("CD", "d")}
=============================================================================
