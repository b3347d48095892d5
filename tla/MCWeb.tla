------------------------------- MODULE MCWeb -------------------------------
(***************************************************************************)
(* The instance of Web for TLC.                                            *)
(***************************************************************************)
EXTENDS Web, Sequences

\* Files in a directory that the index may or may not name, two levels of
\* such directories, one in the root, and an empty directory.
SomeFiles == {<<"a", "b", "c">>, <<"a", "f">>, <<"h", "i", "j">>, <<"g">>}
SomeDirs == {<<"a">>, <<"a", "b">>, <<"h">>, <<"e">>}
SomeSizes == [p \in SomeFiles |-> 10 * Len(p) + (IF p[1] = "h" THEN 1 ELSE 0)]

\* Of one page, so that its polls overtake each other.
SomePolls == [r \in {1, 2} |-> CHOOSE p \in Pages : TRUE]
=============================================================================
