------------------------------- MODULE MCOps -------------------------------
(***************************************************************************)
(* Instances of Ops for TLC: a directory with a file in it, and a file     *)
(* whose name sorts between the two.                                       *)
(***************************************************************************)
EXTENDS Ops

SomePaths == <<"mods", "mods-old", "mods/a">>
SomeAbove == [p \in ToSet(SomePaths) |-> IF p = "mods/a" THEN {"mods"} ELSE {}]
SomeTicks == {{}, {"mods", "mods-old"}, {"mods", "mods/a"}}

\* Buckets of two and of three ticks; the second policy keeps no tag, but
\* has a floor.
SomePolicies == {
    [last |-> 1, within |-> 0, tags |-> {"pre-restore"}, floor |-> 0,
     buckets |-> {[size |-> 2, count |-> 2], [size |-> 3, count |-> 1]}],
    [last |-> 0, within |-> 2, tags |-> {}, floor |-> 2,
     buckets |-> {[size |-> 2, count |-> 1]}] }

Out(p) == [what |-> Beneath(p), negate |-> FALSE]
Keep(p) == [what |-> Beneath(p), negate |-> TRUE]
NoRules == <<>>

\* The operator keeps a directory the built-in rules leave out; AMP's list in
\* the instance directory keeps a file and then, on a later line, leaves it
\* out.
SomeBuiltIn == <<Out("mods")>>
SomeFromUser == <<Keep("mods")>>
SomeLines ==
    [i \in 1..2 |-> [dir |-> ".", names |-> {"mods-old"}, negate |-> i = 1]]
NoLines == <<>>

\* "Exclude a directory but keep one file inside it."
KeepOne == <<Out("mods"), Keep("mods/a")>>
=============================================================================
