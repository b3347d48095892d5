------------------------------ MODULE Exclude ------------------------------
(***************************************************************************)
(* Which paths a backup leaves out: the ordered rules of exclude.Set, the  *)
(* walk that consults them, and the preview that measures them against a   *)
(* snapshot.  A rule is the set of paths its pattern matches, with "!" or  *)
(* without; how a glob comes to match is left to compileGlob, except that  *)
(* what it matches it matches with all that is beneath.                    *)
(***************************************************************************)
EXTENDS Selection

CONSTANTS
    Root,       \* the instance directory itself
    BuiltIn,    \* exclude.DefaultAMPExclusions
    FromUser,   \* the operator's patterns
    AMPLines    \* the lines of the .backupExclude files, as they are walked

Rules == [what : SUBSET Paths, negate : BOOLEAN]
Lines == [dir : Dirs \cup {Root}, names : SUBSET Paths, negate : BOOLEAN]
Beneath(p) == {q \in Paths : q = p \/ p \in Above[q]}

\* An empty .backupExclude is one line without names, and is refused at the
\* root.  A line that matches nothing is left out.
ASSUME RulesAssumption ==
    /\ {BuiltIn, FromUser} \subseteq Seq(Rules)
    /\ \A r \in ToSet(BuiltIn \o FromUser) :
         r.what = UNION {Beneath(p) : p \in r.what}
    /\ Root \notin Paths /\ AMPLines \in Seq(Lines)
    /\ \A l \in ToSet(AMPLines) :
         l.names = {} => l.dir # Root /\ ~l.negate

\* An empty list leaves out its directory.  The root's lines are taken as they
\* are: one without a slash matches at any depth, and one that begins with
\* "!" becomes a rule that keeps, so that their order matters too.
FromAMP ==
    [i \in DOMAIN AMPLines |->
        LET l == AMPLines[i]
        IN  [what |-> UNION {Beneath(p) : p \in IF l.names = {} THEN {l.dir}
                                                ELSE l.names},
             negate |-> l.negate]]

\* Set.Match: the last rule that matches decides.
Match(rules, p) ==
    \E i \in DOMAIN rules :
        /\ p \in rules[i].what /\ ~rules[i].negate
        /\ \A j \in DOMAIN rules : j > i => p \notin rules[j].what

\* excludeSet: the built-in rules, the operator's, and AMP's.
ExcludeSet == BuiltIn \o FromUser \o FromAMP

\* The walk does not enter a directory it leaves out.
Walked(p) == \A q \in Above[p] \cup {p} : ~Match(ExcludeSet, q)

\* PreviewExclusions asks for each entry by itself, without AMP's rules.
Previewed(entries) == {p \in entries : Match(BuiltIn \o FromUser, p)}
=============================================================================
