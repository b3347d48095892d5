-------------------------------- MODULE Trees --------------------------------
(***************************************************************************)
(* snaptree.Cache behind the file browser: requests for the tree of a      *)
(* snapshot share one build through a sync.Once, surplus and idle trees    *)
(* are evicted on the way in, and a failed build is dropped by whoever     *)
(* sees it fail.                                                           *)
(*                                                                         *)
(* A cacheEntry is named by the request that created it.  Clock readings   *)
(* are abstracted to their order; how long an entry has been idle is open. *)
(***************************************************************************)
EXTENDS Naturals, FiniteSets

CONSTANTS
    Requests,   \* handleTree, handleSearch and handleFile, each once
    Snapshots,
    Large,      \* snapshots with more entries than a tree may have
    MaxTrees

TreesAssumption ==
    IsFiniteSet(Requests) /\ Snapshots # {} /\ MaxTrees \in Nat \ {0}

VARIABLES
    listed,     \* the snapshots that are not forgotten
    stage,      \* where each request is
    wants,      \* the snapshot a request asks for
    slot,       \* the entry a request was handed
    cache,      \* Cache.entries, each by who created it
    used,       \* lastUsed of an entry, as its rank
    now,        \* the rank of the next use
    once,       \* an entry's sync.Once
    built       \* what its build came to

vars == <<listed, stage, wants, slot, cache, used, now, once, built>>

PCs == {"new", "handed", "building", "dropping", "served", "failed"}

TypeOK ==
    /\ listed \subseteq Snapshots
    /\ stage \in [Requests -> PCs]
    /\ wants \in [Requests -> Snapshots]
    /\ slot \in [Requests -> Requests]
    /\ cache \subseteq Requests
    /\ used \in [Requests -> Nat]
    /\ now \in Nat
    /\ once \in [Requests -> {"unused", "running", "over"}]
    /\ built \in [Requests -> {"nothing", "tree", "error"}]

Init ==
    /\ listed = Snapshots
    /\ stage = [r \in Requests |-> "new"]
    /\ wants = [r \in Requests |-> CHOOSE s \in Snapshots : TRUE]
    /\ slot = [r \in Requests |-> r]
    /\ cache = {}
    /\ used = [r \in Requests |-> 0]
    /\ now = 1
    /\ once = [r \in Requests |-> "unused"]
    /\ built = [r \in Requests |-> "nothing"]

----------------------------------------------------------------------------

Goto(r, next) == stage' = [stage EXCEPT ![r] = next]

\* evictLocked: the idle ones go, and then the ones unused for longest until
\* there is room for one more.
Evictions == {left \in SUBSET cache :
                 /\ Cardinality(left) < MaxTrees
                 /\ \A e \in left, f \in cache \ left : used[f] < used[e]}

\* Get, under the mutex: make room, find the entry or make one, touch it.
Get(r, s) ==
    /\ stage[r] = "new"
    /\ \E left \in Evictions :
        LET hits == {e \in left : wants[e] = s}
        IN  \E e \in (IF hits = {} THEN {r} ELSE hits) :
                /\ slot' = [slot EXCEPT ![r] = e]
                /\ cache' = left \cup {e}
                /\ used' = [used EXCEPT ![e] = now]
    /\ now' = now + 1
    /\ wants' = [wants EXCEPT ![r] = s]
    /\ Goto(r, "handed")
    /\ UNCHANGED <<listed, once, built>>

\* once.Do: the first one in builds, under its own context.
Enter(r) ==
    /\ stage[r] = "handed" /\ once[slot[r]] = "unused"
    /\ once' = [once EXCEPT ![slot[r]] = "running"]
    /\ Goto(r, "building")
    /\ UNCHANGED <<listed, wants, slot, cache, used, now, built>>

\* Build fails when the index is gone, damaged or too large, and when the
\* one who builds has hung up.
Build(r) ==
    /\ stage[r] = "building"
    /\ \E outcome \in {"error"} \cup
                      (IF wants[r] \in listed \ Large THEN {"tree"} ELSE {}) :
        built' = [built EXCEPT ![slot[r]] = outcome]
    /\ once' = [once EXCEPT ![slot[r]] = "over"]
    /\ Goto(r, "handed")
    /\ UNCHANGED <<listed, wants, slot, cache, used, now>>

\* A variant of Return: an error is passed on and the entry left alone.
ReturnOnly(r) ==
    /\ stage[r] = "handed" /\ once[slot[r]] = "over"
    /\ Goto(r, IF built[slot[r]] = "tree" THEN "served" ELSE "failed")
    /\ UNCHANGED <<listed, wants, slot, cache, used, now, once, built>>

\* Do returns to everyone when the build is over.
Return(r) ==
    /\ stage[r] = "handed" /\ once[slot[r]] = "over"
    /\ Goto(r, IF built[slot[r]] = "tree" THEN "served" ELSE "dropping")
    /\ UNCHANGED <<listed, wants, slot, cache, used, now, once, built>>

\* Invalidate, by the name of the snapshot, whoever's entry that is by now.
Invalidate(r) ==
    /\ stage[r] = "dropping"
    /\ cache' = {e \in cache : wants[e] # wants[r]}
    /\ Goto(r, "failed")
    /\ UNCHANGED <<listed, wants, slot, used, now, once, built>>

\* handleForget, handleUnforget: the cache is not told.
Move(s) ==
    /\ listed' = IF s \in listed THEN listed \ {s} ELSE listed \cup {s}
    /\ UNCHANGED <<stage, wants, slot, cache, used, now, once, built>>

Next ==
    \/ \E r \in Requests :
        \/ \E s \in Snapshots : Get(r, s)
        \/ Enter(r) \/ Build(r) \/ Return(r) \/ Invalidate(r)
    \/ \E s \in Snapshots : Move(s)

Spec == Init /\ [][Next]_vars

----------------------------------------------------------------------------

\* "A failed build is not cached: the next caller deserves a fresh attempt"
\* (snaptree.go:356).  A failed build is in the cache only as long as one of
\* those it was handed to is on its way to drop it.
FailureLeaves ==
    \A e \in cache : built[e] = "error" =>
        \E r \in Requests : slot[r] = e /\ stage[r] \in {"handed", "dropping"}

\* The cache never holds more than its limit, whatever is being built, nor
\* two trees of one snapshot.
Bounded ==
    /\ Cardinality(cache) <= MaxTrees
    /\ \A e, f \in cache : wants[e] = wants[f] => e = f
=============================================================================
