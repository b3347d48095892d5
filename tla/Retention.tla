----------------------------- MODULE Retention -----------------------------
(***************************************************************************)
(* Policy.Apply: which of the snapshots a retention policy keeps.  A       *)
(* snapshot here is its time and its tags; a policy keeps the last few,    *)
(* the young, the tagged, the newest of each of the latest buckets of some *)
(* sizes (hours, days, weeks, ...), and never fewer than a floor.          *)
(***************************************************************************)
EXTENDS Integers, FiniteSets, Sequences, SequencesExt

\* Policy.Validate: something has to be kept.
Valid(policy) ==
    \/ policy.last > 0 \/ policy.within > 0 \/ policy.tags # {}
    \/ \E b \in policy.buckets : b.count > 0

Newer(s, snaps) == {t \in snaps : t.at > s.at}

\* The one that i - 1 others are newer than is the i-th.
NewestFirst(snaps) ==
    [i \in 1..Cardinality(snaps) |->
        CHOOSE s \in snaps : Cardinality(Newer(s, snaps)) = i - 1]

AmongLast(ordered, n) == {ordered[i] : i \in 1..IF n < Len(ordered) THEN n
                                                ELSE Len(ordered)}
Within(snaps, now, age) == IF age > 0 THEN {s \in snaps : s.at > now - age}
                           ELSE {}
Tagged(snaps, tags) == {s \in snaps : s.tags \cap tags # {}}

\* A variant of BucketHeads: the oldest of a bucket.
BucketTails(ordered, b) ==
    LET n == Len(ordered)
        seen[i \in 0..n] ==
          IF i = 0 THEN {}
          ELSE IF Cardinality(seen[i - 1]) >= b.count THEN seen[i - 1]
          ELSE seen[i - 1] \cup {ordered[n + 1 - i].at \div b.size}
    IN  {ordered[n + 1 - i] : i \in {j \in 1..n : seen[j] # seen[j - 1]}}

\* The newest of each of the latest b.count buckets that have one: the loop
\* remembers the buckets it has seen.
BucketHeads(ordered, b) ==
    LET seen[i \in 0..Len(ordered)] ==
          IF i = 0 THEN {}
          ELSE IF Cardinality(seen[i - 1]) >= b.count THEN seen[i - 1]
          ELSE seen[i - 1] \cup {ordered[i].at \div b.size}
    IN  {ordered[i] :
            i \in {j \in 1..Len(ordered) : seen[j] # seen[j - 1]}}

\* A variant of Rescued: the floor counts what exists, not what is kept.
RescuedByAll(ordered, kept, floor) ==
    IF Len(ordered) >= floor THEN {} ELSE ToSet(ordered)

\* What the floor adds, from newest to oldest, until there are enough.
Rescued(ordered, kept, floor) ==
    LET there[i \in 0..Len(ordered)] ==
          IF i = 0 THEN kept
          ELSE IF Cardinality(there[i - 1]) >= floor THEN there[i - 1]
          ELSE there[i - 1] \cup {ordered[i]}
    IN  {ordered[i] :
            i \in {j \in 1..Len(ordered) : there[j] # there[j - 1]}}

\* One decision for each snapshot.
Apply(policy, snaps, now) ==
    LET ordered == NewestFirst(snaps)
        wanted == AmongLast(ordered, policy.last)
                  \cup Within(snaps, now, policy.within)
                  \cup Tagged(snaps, policy.tags)
                  \cup UNION {BucketHeads(ordered, b) : b \in policy.buckets}
        rescued == Rescued(ordered, wanted, policy.floor)
    IN  {s \in snaps : s \in wanted \cup rescued}

----------------------------------------------------------------------------
(* What is meant, one snapshot at a time.                                  *)

HeadsBucket(s, snaps, b) ==
    /\ \A t \in Newer(s, snaps) : t.at \div b.size # s.at \div b.size
    /\ Cardinality({t.at \div b.size : t \in Newer(s, snaps)}) < b.count

SomeRuleWants(s, policy, snaps, now) ==
    \/ Cardinality(Newer(s, snaps)) < policy.last
    \/ policy.within > 0 /\ now - s.at < policy.within
    \/ s.tags \cap policy.tags # {}
    \/ \E b \in policy.buckets : HeadsBucket(s, snaps, b)

\* The floor takes s only if all that is newer and all that is wanted are
\* not enough.
FloorWants(s, policy, snaps, now) ==
    Cardinality({t \in snaps : \/ t.at > s.at
                               \/ SomeRuleWants(t, policy, snaps, now)})
        < policy.floor

ShouldKeep(policy, snaps, now) ==
    {s \in snaps : \/ SomeRuleWants(s, policy, snaps, now)
                   \/ FloorWants(s, policy, snaps, now)}
=============================================================================
