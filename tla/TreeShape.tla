------------------------------ MODULE TreeShape ------------------------------
(***************************************************************************)
(* snaptree.Build: a flat index becomes a tree that can be walked and that *)
(* knows what every directory costs.  Entries come in any order in which a *)
(* directory precedes what is in it (the index is sorted by path), and a   *)
(* parent that the index does not name is invented.                        *)
(*                                                                         *)
(* A path is the sequence of its names, the root the empty sequence.       *)
(***************************************************************************)
EXTENDS Naturals, SequencesExt

CONSTANTS
    Files,      \* paths that an index may hold as files or links
    Dirs,       \* paths that an index may hold as directories
    Sizes       \* a file's size

parentOf(p) == Front(p)

\* The directories a path lies in, from the root down.
Above(p) == {SubSeq(p, 1, n) : n \in 0..(Len(p) - 1)}

Names == UNION {Range(p) : p \in Files \cup Dirs}

\* There is nothing in a file.
ShapeAssumption ==
    /\ Files \cup Dirs \subseteq Seq(Names) \ {<<>>}
    /\ IsFiniteSet(Files \cup Dirs) /\ Files \cap Dirs = {}
    /\ \A p \in Files \cup Dirs : Above(p) \cap Files = {}
    /\ Sizes \in [Files -> Nat]

VARIABLES
    index,      \* what the index holds
    unread,     \* what of it has not been read
    byPath,     \* Tree.byPath: path -> [dir, children, bytes]
    children,   \* Tree.children: directory -> its nodes' paths, as added
    phase       \* "reading", "read", "rolled"

vars == <<index, unread, byPath, children, phase>>

Node(dir) == [dir |-> dir, count |-> 0, bytes |-> 0]

TypeOK ==
    /\ index \subseteq Files \cup Dirs /\ unread \subseteq index
    /\ \A p \in DOMAIN byPath :
        byPath[p] \in [dir : BOOLEAN, count : Nat, bytes : Nat]
    /\ \A d \in DOMAIN children : ToSet(children[d]) \subseteq DOMAIN byPath
    /\ phase \in {"reading", "read", "rolled"}

Init ==
    /\ index \in SUBSET (Files \cup Dirs)
    /\ unread = index
    /\ byPath = << >>
    /\ children = [d \in {<<>>} |-> <<>>]
    /\ phase = "reading"

----------------------------------------------------------------------------

\* A variant of Invented: no parent is invented.
InventedNone(p) == {}

\* ensureDir invents the parent, and hangs it into its own parent's list:
\* that makes the list, so that the loop stops there and nothing further up
\* is invented.
Invented(p) == {parentOf(p)} \ DOMAIN children

\* The lists that there are from now on.
Opened(p) ==
    Invented(p) \cup {parentOf(d) : d \in Invented(p)} \cup ({p} \cap Dirs)

add(p) ==
    /\ phase = "reading"
    /\ p \in unread
    /\ Above(p) \cap unread = {}
    /\ unread' = unread \ {p}
    /\ LET new == {p} \cup Invented(p)
       IN  /\ byPath' = [q \in DOMAIN byPath \cup new |->
                            IF q \in new THEN Node(q # p \/ p \in Dirs)
                                         ELSE byPath[q]]
           /\ children' =
                [d \in DOMAIN children \cup Opened(p) |->
                    (IF d \in DOMAIN children THEN children[d] ELSE <<>>)
                    \o SetToSeq({n \in new : parentOf(n) = d})]
    /\ UNCHANGED <<index, phase>>

\* io.EOF
EndOfIndex ==
    /\ phase = "reading" /\ unread = {}
    /\ phase' = "read"
    /\ UNCHANGED <<index, unread, byPath, children>>

\* The sum of f over S, each x counted f[x] times.
Sum(S, f) == Cardinality(UNION {{x} \X (1..f[x]) : x \in S})

\* rollUp: every file is added to each directory up its chain, and the totals
\* go back into the nodes.
rollUp ==
    /\ phase = "read"
    /\ LET below(d) == {p \in DOMAIN byPath : ~byPath[p].dir /\ d \in Above(p)}
       IN  byPath' = [p \in DOMAIN byPath |->
                IF byPath[p].dir
                  THEN [dir |-> TRUE, count |-> Cardinality(below(p)),
                        bytes |-> Sum(below(p), Sizes)]
                  ELSE byPath[p]]
    /\ phase' = "rolled"
    /\ UNCHANGED <<index, unread, children>>

Next == (\E p \in Files \cup Dirs : add(p)) \/ EndOfIndex \/ rollUp

Spec == Init /\ [][Next]_vars

----------------------------------------------------------------------------

Cost(p) == IF byPath[p].dir THEN byPath[p].bytes ELSE Sizes[p]
Count(p) == IF byPath[p].dir THEN byPath[p].count ELSE 1

\* Of a directory and the one it is in, the index names one at least.
NoneInARow ==
    \A p \in index : Len(p) > 2 =>
        {parentOf(p), parentOf(parentOf(p))} \cap index # {}

\* Every node is listed in its directory, once, whichever parents the index
\* left out; and if it left out no two in a row, what is shown for ticking a
\* directory is the sum of what is shown for the nodes in it
\* (snaptree.go:39-41).  If it did, the upper one has no node, is not listed,
\* and what lies in it is counted further up but not shown there.
AddsUp ==
    phase = "rolled" =>
        /\ \A p \in DOMAIN byPath :
            /\ parentOf(p) \in DOMAIN children
            /\ p \in ToSet(children[parentOf(p)])
            /\ byPath[p].dir => p \in DOMAIN children
        /\ \A d \in DOMAIN children : IsInjective(children[d])
        /\ NoneInARow => \A d \in DOMAIN children \ {<<>>} :
            /\ d \in DOMAIN byPath
            /\ Cost(d) = Sum(ToSet(children[d]),
                              [p \in DOMAIN byPath |-> Cost(p)])
            /\ Count(d) = Sum(ToSet(children[d]),
                               [p \in DOMAIN byPath |-> Count(p)])
=============================================================================
