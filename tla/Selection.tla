----------------------------- MODULE Selection -----------------------------
(***************************************************************************)
(* Which entries of a snapshot a restore takes when paths were ticked      *)
(* (restore/paths.go), and what was meant.  Paths are values; the order in *)
(* which Go sorts them as strings, and the tree they form, are constants.  *)
(***************************************************************************)
EXTENDS Naturals, Sequences, SequencesExt

CONSTANTS
    Listing,    \* all paths, sorted as strings
    Above,      \* for each path its ancestors
    Dirs        \* the paths that are directories

Paths == ToSet(Listing)
Rank(p) == CHOOSE i \in DOMAIN Listing : Listing[i] = p

ASSUME PathsAssumption ==
    /\ Listing \in Seq(Paths) /\ IsInjective(Listing)
    /\ Above \in [Paths -> SUBSET Dirs]
    /\ Dirs \subseteq Paths
    \* An ancestor is a prefix.
    /\ \A p, q \in Paths : p \in Above[q] =>
          Above[p] \subseteq Above[q] /\ Rank(p) < Rank(q)

\* newSelection goes through what was ticked as it is sorted, and leaves out
\* what the last one it kept covers.  Here it passes over the other paths; 0
\* as long as there is none to keep.
LastKept(ticked) ==
    LET last[i \in 0..Len(Listing)] ==
          IF i = 0 THEN 0
          ELSE IF \/ Listing[i] \notin ticked
                  \/ /\ last[i - 1] # 0
                     /\ Listing[last[i - 1]] \in Above[Listing[i]]
                 THEN last[i - 1]
          ELSE i
    IN  last
Selected(ticked) ==
    {Listing[i] : i \in {j \in 1..Len(Listing) : LastKept(ticked)[j] = j}}

\* The one selected path that keep holds responsible for an entry.
Nearest(e, ticked) ==
    LET up == {p \in Selected(ticked) : Rank(p) <= Rank(e)}
    IN  {p \in up : \A q \in up : Rank(q) <= Rank(p)}
Responsible(e, ticked) ==
    {p \in Nearest(e, ticked) : p = e \/ p \in Above[e]}

\* An ancestor directory comes along for its mode and time.
Carried(e, ticked) ==
    e \in Dirs /\ \E p \in Selected(ticked) : e \in Above[p]

Kept(entries, ticked) ==
    IF ticked = {} THEN entries
    ELSE {e \in entries : Responsible(e, ticked) # {} \/ Carried(e, ticked)}

Unmatched(entries, ticked) ==
    {p \in Selected(ticked) :
        \A e \in entries : p \notin Responsible(e, ticked)}

----------------------------------------------------------------------------
(* What was meant.                                                         *)

Meant(entries, ticked) ==
    IF ticked = {} THEN entries
    ELSE {e \in entries : \/ e \in ticked
                          \/ Above[e] \cap ticked # {}
                          \/ \E p \in ticked : e \in Above[p]}

\* Another ticked path sorts between a ticked directory and what is in it:
\* "mods-old" comes before "mods/a".
Muddled(ticked) ==
    \E p, q \in ticked, e \in Paths :
        /\ p \in Above[e] /\ p \notin Above[q]
        /\ Rank(p) < Rank(q) /\ Rank(q) < Rank(e)
=============================================================================
