----------------------------- MODULE Ops_proofs -----------------------------
(***************************************************************************)
(* Proofs about Ops, for any paths, rules, policies and number of events:  *)
(* its types, that a restore does not write under a running game, that     *)
(* what it replaced can be recovered, that it does what it was asked for   *)
(* and nothing else, and that retention keeps what it should, in one pass  *)
(* and over many.                                                          *)
(***************************************************************************)
EXTENDS Ops, FiniteSetTheorems, FunctionTheorems, SequenceTheorems, TLAPS

Running == {"pre", "plan", "load", "write", "done"}

\* The job knows what it was asked for, and nobody else does.
Knows ==
    /\ pc \in Running \cup {"asked"} => req # NoReq
    /\ pc \in {"idle", "hkcheck", "hkforget", "hkprune"} =>
          req = NoReq
    /\ pc \in Running \cup {"asked"} => \E s \in taken : s.at = req.at
    /\ todo \subseteq Files

\* A game that did not move since the check is stopped.
Halted == pc \in Running /\ req.into = "instance" =>
              stirred \/ game = "stopped"

\* Snapshots are in the past, each at a time of its own.
Past == \A s \in taken : s.at < now

\* A file that is not in a whole snapshot was not there, or is never saved.
Saves(s, f, c) == s.whole => s.holds[f] = c \/ ~Walked(f)

\* What the job has yet to replace is in its own snapshot.
Saved ==
    pc \in {"plan", "load", "write"} /\ req.pre /\ ~stirred =>
        \E s \in taken :
            /\ s.at = pre /\ PreRestore \in s.tags
            /\ \A f \in Files : (pc = "write" => f \in todo)
                                    => Saves(s, f, live[f])

\* What was replaced is in a snapshot of a job.
Noted ==
    \A x \in lost : \E s \in taken :
        s.at = x.at /\ PreRestore \in s.tags /\ Saves(s, x.file, x.content)

\* Such snapshots stay, unless the policy or the operator wills otherwise.
Stay ==
    \A s \in taken : PreRestore \in s.tags =>
        s \in snaps \/ s.at \in byHand \/ PreRestore \notin policy.tags

IInv == TypeOK /\ Knows /\ Halted /\ Past /\ Saved /\ Noted /\ Stay

----------------------------------------------------------------------------
(* Loops.                                                                  *)

\* A set of numbers has a least one.
LEMMA Least ==
    ASSUME NEW T \in SUBSET Nat, T # {}
    PROVE  \E n \in T : \A m \in T : n <= m
<1> DEFINE R == OpToRel(<, Nat)
<1>1. IsWellFoundedOn(R, Nat)
  BY NatLessThanWellFounded, Zenon
<1>2. \A m, n \in Nat : m < n => <<m, n>> \in R
  BY DEF OpToRel
<1> HIDE DEF R
<1>3. PICK n \in T : \A m \in T : ~(<<m, n>> \in R)
  BY <1>1, WFMin
<1>4. \A m \in T : ~(m < n)
  BY <1>2, <1>3
<1> QED
  BY <1>3, <1>4

\* What holds at the start of a loop and after each round if it did before
\* holds throughout.
LEMMA Rounds ==
    ASSUME NEW n \in Nat, NEW Good, 0 \in Good,
           \A i \in 1..n : i - 1 \in Good => i \in Good
    PROVE  0..n \subseteq Good
<1> SUFFICES ASSUME NEW k \in 0..n, k \notin Good PROVE FALSE
  OBVIOUS
<1> DEFINE T == {i \in 0..n : i \notin Good}
<1>1. T \in SUBSET Nat /\ T # {}
  OBVIOUS
<1>2. PICK i \in T : \A j \in T : i <= j
  BY <1>1, Least
<1>3. i \in 1..n /\ i - 1 \notin T
  BY <1>2
<1> QED
  BY <1>2, <1>3

\* A loop that goes from one value to the next is a function.
Loops(n, first, step, f) ==
    f[0] = first /\ \A i \in 1..n : f[i] = step[<<f[i - 1], i>>]

LEMMA LoopIs ==
    ASSUME NEW n \in Nat, NEW A, NEW first \in A,
           NEW step \in [A \X (1..n) -> A]
    PROVE  \E f \in [0..n -> A] : Loops(n, first, step, f)
<1> DEFINE Loop(k, f) == /\ f \in [0..k -> A] /\ f[0] = first
                         /\ \A i \in 1..k : f[i] = step[<<f[i - 1], i>>]
           Good == {k \in 0..n : \E f : Loop(k, f)}
<1>1. 0 \in Good
  <2>1. Loop(0, [i \in 0..0 |-> first])
    OBVIOUS
  <2> HIDE DEF Loop
  <2> QED
    BY <2>1
<1>2. ASSUME NEW k \in 1..n, k - 1 \in Good PROVE k \in Good
  <2>1. PICK f : Loop(k - 1, f)
    BY <1>2
  <2> DEFINE g == [i \in 0..k |-> IF i = k THEN step[<<f[k - 1], k>>]
                                  ELSE f[i]]
  <2>2. \A i \in 0..k : i # k => i \in 0..(k - 1) /\ f[i] \in A
    BY <2>1
  <2>3. step[<<f[k - 1], k>>] \in A
    <3>1. <<f[k - 1], k>> \in A \X (1..n)
      BY <2>2
    <3> QED
      BY <3>1
  <2>4. g \in [0..k -> A] /\ g[0] = first
    BY <2>1, <2>2, <2>3
  <2>5. ASSUME NEW i \in 1..k PROVE g[i] = step[<<g[i - 1], i>>]
    <3>1. i - 1 \in 0..k /\ i - 1 # k /\ i \in 0..k /\ i # 0
      OBVIOUS
    <3>2. g[i - 1] = f[i - 1]
      BY <3>1
    <3>3. CASE i = k
      BY <3>1, <3>2, <3>3
    <3>4. CASE i # k
      <4>1. i \in 1..(k - 1)
        BY <3>4
      <4>2. f[i] = step[<<f[i - 1], i>>]
        BY <2>1, <4>1
      <4> QED
        BY <3>1, <3>2, <3>4, <4>2
    <3> QED
      BY <3>3, <3>4
  <2>6. Loop(k, g)
    BY <2>4, <2>5
  <2> HIDE DEF g, Loop
  <2> QED
    BY <2>6
<1>3. n \in Good
  <2> HIDE DEF Good
  <2> QED
    BY <1>1, <1>2, Rounds
<1>4. PICK f : Loop(n, f)
  BY <1>3
<1> QED
  BY <1>4 DEF Loops

----------------------------------------------------------------------------
(* The retention policy.                                                   *)

\* Snapshots to decide on: one at a time.
Dated(S) ==
    /\ IsFiniteSet(S)
    /\ \A s \in S : s.at \in Int
    /\ \A s, t \in S : s.at = t.at => s = t

LEMMA FewerNewer ==
    ASSUME NEW S, Dated(S), NEW s \in S, NEW t \in S
    PROVE  /\ IsFiniteSet(Newer(s, S)) /\ Cardinality(Newer(s, S)) \in Nat
           /\ Cardinality(Newer(s, S)) < Cardinality(S)
           /\ t.at > s.at <=> Cardinality(Newer(t, S))
                                  < Cardinality(Newer(s, S))
           /\ Cardinality(S) \in Nat
<1>1. IsFiniteSet(S) /\ Cardinality(S) \in Nat
  BY FS_CardinalityType DEF Dated
<1>2. ASSUME NEW x \in S
      PROVE  /\ IsFiniteSet(Newer(x, S)) /\ Cardinality(Newer(x, S)) \in Nat
             /\ Cardinality(Newer(x, S)) < Cardinality(S)
  <2>1. Newer(x, S) \in SUBSET S /\ x \notin Newer(x, S)
    BY DEF Newer, Dated
  <2>2. /\ IsFiniteSet(Newer(x, S))
        /\ Cardinality(Newer(x, S)) <= Cardinality(S)
        /\ Cardinality(Newer(x, S)) # Cardinality(S)
    BY <1>1, <2>1, FS_Subset
  <2>3. Cardinality(Newer(x, S)) \in Nat
    BY <2>2, FS_CardinalityType
  <2> QED
    BY <1>1, <2>2, <2>3
<1>3. ASSUME NEW x \in S, NEW y \in S, y.at > x.at
      PROVE  Cardinality(Newer(y, S)) < Cardinality(Newer(x, S))
  <2>1. x.at \in Int /\ y.at \in Int /\ \A z \in S : z.at \in Int
    BY DEF Dated
  <2>2. Newer(y, S) \in SUBSET Newer(x, S)
    BY <1>3, <2>1 DEF Newer
  <2>3. y \in Newer(x, S) /\ y \notin Newer(y, S)
    BY <1>3, <2>1 DEF Newer
  <2>4. /\ Cardinality(Newer(y, S)) <= Cardinality(Newer(x, S))
        /\ Cardinality(Newer(y, S)) # Cardinality(Newer(x, S))
    BY <1>2, <2>2, <2>3, FS_Subset
  <2> QED
    BY <1>2, <2>4
<1>4. s.at = t.at \/ s.at > t.at \/ t.at > s.at
  BY DEF Dated
<1>5. s.at = t.at => s = t
  BY DEF Dated
<1>6. s.at \in Int /\ t.at \in Int
  BY DEF Dated
<1> QED
  BY <1>1, <1>2, <1>3, <1>4, <1>5, <1>6

\* The order is one: all are in it, and those before one are the newer ones.
LEMMA Ordered ==
    ASSUME NEW S, Dated(S)
    PROVE  LET q == NewestFirst(S)
               n == Cardinality(S)
           IN  /\ n \in Nat /\ q \in [1..n -> S] /\ Len(q) = n
               /\ \A s \in S : \E i \in 1..n : q[i] = s
               /\ \A i \in 1..n :
                    /\ Cardinality(Newer(q[i], S)) = i - 1
                    /\ Newer(q[i], S) = {q[j] : j \in 1..(i - 1)}
<1> DEFINE n == Cardinality(S)
           q == NewestFirst(S)
           rank == [s \in S |-> Cardinality(Newer(s, S)) + 1]
<1>1. n \in Nat /\ IsFiniteSet(1..n) /\ Cardinality(1..n) = n
  <2>1. n \in Nat
    BY FS_CardinalityType DEF Dated
  <2> QED
    BY <2>1, FS_Interval
<1>2. rank \in [S -> 1..n]
  <2>1. ASSUME NEW s \in S PROVE Cardinality(Newer(s, S)) + 1 \in 1..n
    BY <1>1, FewerNewer
  <2> QED
    BY <2>1
<1>3. \A s, t \in S : rank[s] = rank[t] => s = t
  <2> SUFFICES ASSUME NEW s \in S, NEW t \in S, s # t PROVE rank[s] # rank[t]
    OBVIOUS
  <2>1. s.at > t.at \/ t.at > s.at
    BY DEF Dated
  <2>2. /\ Cardinality(Newer(s, S)) \in Nat /\ Cardinality(Newer(t, S)) \in Nat
        /\ Cardinality(Newer(s, S)) # Cardinality(Newer(t, S))
    BY <2>1, FewerNewer
  <2> QED
    BY <2>2
<1>4. rank \in Surjection(S, 1..n)
  <2>1. rank \in Injection(S, 1..n)
    BY <1>2, <1>3 DEF Injection, IsInjective
  <2> QED
    BY <1>1, <2>1, FS_Injection
<1>5. \A i \in 1..n : \E s \in S : Cardinality(Newer(s, S)) = i - 1
  <2> SUFFICES ASSUME NEW i \in 1..n
               PROVE  \E s \in S : Cardinality(Newer(s, S)) = i - 1
    OBVIOUS
  <2>1. PICK s \in S : rank[s] = i
    BY <1>4 DEF Surjection
  <2>2. Cardinality(Newer(s, S)) \in Nat
    BY FewerNewer
  <2> QED
    BY <2>1, <2>2
<1>6. \A i \in 1..n : q[i] \in S /\ Cardinality(Newer(q[i], S)) = i - 1
  BY <1>5 DEF NewestFirst
<1>7. q \in [1..n -> S] /\ Len(q) = n
  <2>1. q = [i \in 1..n |-> q[i]]
    BY DEF NewestFirst
  <2>2. q \in [1..n -> S]
    BY <1>6, <2>1
  <2>3. q \in Seq(S)
    BY <1>1, <2>2
  <2> QED
    BY <1>1, <2>2, <2>3
<1> HIDE DEF q
<1>8. ASSUME NEW s \in S PROVE \E i \in 1..n : q[i] = s
  <2>1. rank[s] \in 1..n /\ Cardinality(Newer(s, S)) = rank[s] - 1
    BY <1>2, FewerNewer
  <2>2. q[rank[s]] \in S /\ Cardinality(Newer(q[rank[s]], S)) = rank[s] - 1
    BY <1>6, <2>1
  <2>3. rank[q[rank[s]]] = rank[s]
    BY <2>1, <2>2
  <2>4. q[rank[s]] = s
    BY <1>3, <2>2, <2>3
  <2> QED
    BY <2>1, <2>4
<1>9. ASSUME NEW i \in 1..n
      PROVE  Newer(q[i], S) = {q[j] : j \in 1..(i - 1)}
  <2>1. ASSUME NEW j \in 1..n
        PROVE  q[j] \in Newer(q[i], S) <=> j \in 1..(i - 1)
    <3>1. q[j].at > q[i].at <=> j - 1 < i - 1
      BY <1>6, FewerNewer
    <3>2. q[j] \in Newer(q[i], S) <=> q[j].at > q[i].at
      BY <1>6 DEF Newer
    <3>3. j - 1 < i - 1 <=> j \in 1..(i - 1)
      BY <1>1
    <3> QED
      BY <3>1, <3>2, <3>3
  <2>2. \A s \in Newer(q[i], S) : s \in S
    BY DEF Newer
  <2>3. \A j \in 1..(i - 1) : j \in 1..n
    BY <1>1
  <2>4. ASSUME NEW s \in Newer(q[i], S) PROVE \E j \in 1..(i - 1) : s = q[j]
    BY <1>8, <2>1, <2>2
  <2>5. ASSUME NEW j \in 1..(i - 1) PROVE q[j] \in Newer(q[i], S)
    BY <2>1, <2>3
  <2> QED
    BY <2>4, <2>5
<1> QED
  BY <1>1, <1>6, <1>7, <1>8, <1>9 DEF q

----------------------------------------------------------------------------
(* Both loops of Apply gather until there is enough.                       *)

\* got after each round: base and the keys of the rounds, up to the limit.
Gathers(n, base, key, limit, got) ==
    got = [i \in 0..n |->
             IF i = 0 THEN base
             ELSE IF Cardinality(got[i - 1]) >= limit THEN got[i - 1]
             ELSE got[i - 1] \cup {key[i]}]

Before(base, key, i) == base \cup {key[j] : j \in 1..(i - 1)}

LEMMA GathersExists ==
    ASSUME NEW n \in Nat, NEW base, NEW key, NEW limit
    PROVE  \E got : Gathers(n, base, key, limit, got)
<1> DEFINE A == SUBSET (base \cup {key[i] : i \in 1..n})
           step == [x \in A \X (1..n) |->
                      IF Cardinality(x[1]) >= limit THEN x[1]
                      ELSE x[1] \cup {key[x[2]]}]
<1>1. base \in A
  OBVIOUS
<1>2. step \in [A \X (1..n) -> A]
  <2>1. ASSUME NEW x \in A \X (1..n)
        PROVE  /\ x[1] \in A /\ x[1] \cup {key[x[2]]} \in A
    <3>1. x[1] \in A /\ x[2] \in 1..n
      BY Zenon
    <3> QED
      BY <3>1
  <2> HIDE DEF A
  <2> QED
    BY <2>1
<1>3. ASSUME NEW S \in A, NEW i \in 1..n
      PROVE  step[<<S, i>>] = IF Cardinality(S) >= limit THEN S
                              ELSE S \cup {key[i]}
  <2> HIDE DEF A
  <2> QED
    OBVIOUS
<1> HIDE DEF A, step
<1>4. PICK f \in [0..n -> A] : Loops(n, base, step, f)
  BY <1>1, <1>2, LoopIs
<1>5. \A i \in 0..n : i # 0 => i \in 1..n /\ i - 1 \in 0..n
  OBVIOUS
<1>6. ASSUME NEW i \in 0..n
      PROVE  f[i] = IF i = 0 THEN base
                    ELSE IF Cardinality(f[i - 1]) >= limit THEN f[i - 1]
                    ELSE f[i - 1] \cup {key[i]}
  BY <1>3, <1>4, <1>5 DEF Loops
<1>7. Gathers(n, base, key, limit, f)
  BY <1>6 DEF Gathers
<1> QED
  BY <1>7

\* What a round adds is new, and there was not enough of what came before.
LEMMA GathersNew ==
    ASSUME NEW n \in Nat, NEW base, IsFiniteSet(base), NEW key,
           NEW limit \in Int, NEW got, Gathers(n, base, key, limit, got),
           NEW i \in 1..n
    PROVE  got[i] # got[i - 1] <=>
              /\ key[i] \notin Before(base, key, i)
              /\ Cardinality(Before(base, key, i)) < limit
<1> DEFINE all(k) == base \cup {key[j] : j \in 1..k}
           Good == {k \in 0..n : /\ IsFiniteSet(all(k))
                                 /\ got[k] \subseteq all(k)
                                 /\ \/ got[k] = all(k)
                                    \/ Cardinality(got[k]) >= limit}
<1>0. /\ got[0] = base
      /\ \A k \in 1..n : got[k] = IF Cardinality(got[k - 1]) >= limit
                                    THEN got[k - 1]
                                    ELSE got[k - 1] \cup {key[k]}
  <2>1. 0 \in 0..n /\ \A k \in 1..n : k \in 0..n /\ k # 0
    OBVIOUS
  <2> QED
    BY <2>1 DEF Gathers
<1>1. 0 \in Good
  <2>1. all(0) = base
    OBVIOUS
  <2> QED
    BY <1>0, <2>1
<1>2. ASSUME NEW k \in 1..n, k - 1 \in Good PROVE k \in Good
  <2>1. all(k) = all(k - 1) \cup {key[k]}
    <3>1. \A j : j \in 1..k <=> j \in 1..(k - 1) \/ j = k
      OBVIOUS
    <3> QED
      BY <3>1
  <2>2. IsFiniteSet(all(k - 1)) /\ got[k - 1] \subseteq all(k - 1)
        /\ (got[k - 1] = all(k - 1) \/ Cardinality(got[k - 1]) >= limit)
    BY <1>2
  <2> HIDE DEF all
  <2>3. IsFiniteSet(all(k))
    BY <2>1, <2>2, FS_AddElement
  <2>4. k \in 0..n
    OBVIOUS
  <2>5. CASE Cardinality(got[k - 1]) >= limit
    <3>1. got[k] = got[k - 1]
      BY <1>0, <2>5
    <3> QED
      BY <2>1, <2>2, <2>3, <2>4, <2>5, <3>1
  <2>6. CASE ~(Cardinality(got[k - 1]) >= limit)
    <3>1. got[k] = got[k - 1] \cup {key[k]}
      BY <1>0, <2>6
    <3> QED
      BY <2>1, <2>2, <2>3, <2>4, <2>6, <3>1
  <2> QED
    BY <2>5, <2>6
<1>3. i - 1 \in Good
  <2>1. i - 1 \in 0..n
    OBVIOUS
  <2> HIDE DEF Good
  <2> QED
    BY <1>1, <1>2, <2>1, Rounds
<1>4. /\ IsFiniteSet(all(i - 1)) /\ got[i - 1] \subseteq all(i - 1)
      /\ got[i - 1] = all(i - 1) \/ Cardinality(got[i - 1]) >= limit
  BY <1>3
<1> HIDE DEF all, Good
<1>5. /\ Cardinality(got[i - 1]) <= Cardinality(all(i - 1))
      /\ Cardinality(got[i - 1]) \in Nat /\ Cardinality(all(i - 1)) \in Nat
  <2>1. IsFiniteSet(got[i - 1])
        /\ Cardinality(got[i - 1]) <= Cardinality(all(i - 1))
    BY <1>4, FS_Subset
  <2> QED
    BY <1>4, <2>1, FS_CardinalityType
<1>6. CASE Cardinality(got[i - 1]) >= limit
  <2>1. got[i] = got[i - 1]
    BY <1>0, <1>6
  <2>2. ~(Cardinality(all(i - 1)) < limit)
    BY <1>5, <1>6
  <2> QED
    BY <2>1, <2>2 DEF all, Before
<1>7. CASE ~(Cardinality(got[i - 1]) >= limit)
  <2>1. got[i] = got[i - 1] \cup {key[i]} /\ got[i - 1] = all(i - 1)
    BY <1>0, <1>4, <1>7
  <2>2. Cardinality(all(i - 1)) < limit
    BY <1>5, <1>7, <2>1
  <2>3. got[i] # got[i - 1] <=> key[i] \notin all(i - 1)
    BY <2>1
  <2> QED
    BY <2>2, <2>3 DEF all, Before
<1> QED
  BY <1>6, <1>7

\* Of each of the latest buckets the newest.
LEMMA HeadsAre ==
    ASSUME NEW S, Dated(S), NEW b, b.size \in Nat \ {0}, b.count \in Int
    PROVE  BucketHeads(NewestFirst(S), b) = {s \in S : HeadsBucket(s, S, b)}
<1> DEFINE n == Cardinality(S)
           q == NewestFirst(S)
           key == [i \in 1..n |-> q[i].at \div b.size]
           seen[i \in 0..Len(q)] ==
             IF i = 0 THEN {}
             ELSE IF Cardinality(seen[i - 1]) >= b.count THEN seen[i - 1]
             ELSE seen[i - 1] \cup {q[i].at \div b.size}
           New(i) == seen[i] # seen[i - 1]
<1>1. BucketHeads(q, b) = {q[i] : i \in {j \in 1..Len(q) : New(j)}}
  BY DEF BucketHeads
<1> HIDE DEF q
<1>2. /\ n \in Nat /\ q \in [1..n -> S] /\ Len(q) = n
      /\ \A s \in S : \E i \in 1..n : q[i] = s
      /\ \A i \in 1..n : /\ Cardinality(Newer(q[i], S)) = i - 1
                         /\ Newer(q[i], S) = {q[j] : j \in 1..(i - 1)}
  BY Ordered DEF q
<1>3. \E f : f = [i \in 0..Len(q) |->
                    IF i = 0 THEN {}
                    ELSE IF Cardinality(f[i - 1]) >= b.count THEN f[i - 1]
                    ELSE f[i - 1] \cup {q[i].at \div b.size}]
  <2>1. PICK f : Gathers(n, {}, key, b.count, f)
    BY <1>2, GathersExists
  <2>2. \A i \in 0..n : i # 0 => i \in 1..n
    BY <1>2
  <2>3. f = [i \in 0..Len(q) |->
               IF i = 0 THEN {}
               ELSE IF Cardinality(f[i - 1]) >= b.count THEN f[i - 1]
               ELSE f[i - 1] \cup {q[i].at \div b.size}]
    BY <1>2, <2>1, <2>2 DEF Gathers
  <2> QED
    BY <2>3
<1>4. seen = [i \in 0..Len(q) |->
                IF i = 0 THEN {}
                ELSE IF Cardinality(seen[i - 1]) >= b.count THEN seen[i - 1]
                ELSE seen[i - 1] \cup {q[i].at \div b.size}]
  BY <1>3, Zenon
<1> HIDE DEF seen
<1>5. Gathers(n, {}, key, b.count, seen)
  <2>1. \A i \in 0..n : i # 0 => i \in 1..n
    BY <1>2
  <2> QED
    BY <1>2, <1>4, <2>1 DEF Gathers
<1>6. ASSUME NEW i \in 1..n PROVE New(i) <=> HeadsBucket(q[i], S, b)
  <2> DEFINE all == Before({}, key, i)
  <2>1. New(i) <=> key[i] \notin all /\ Cardinality(all) < b.count
    <3>1. IsFiniteSet({})
      BY FS_EmptySet
    <3> HIDE DEF key
    <3> QED
      BY <1>2, <1>5, <3>1, GathersNew
  <2>2. all = {t.at \div b.size : t \in Newer(q[i], S)}
    <3>1. \A j \in 1..(i - 1) : key[j] = q[j].at \div b.size
      BY <1>2
    <3>2. Newer(q[i], S) = {q[j] : j \in 1..(i - 1)}
      BY <1>2
    <3> HIDE DEF key
    <3> QED
      BY <3>1, <3>2 DEF Before
  <2>3. key[i] \notin all <=>
          \A t \in Newer(q[i], S) : t.at \div b.size # q[i].at \div b.size
    <3>1. key[i] = q[i].at \div b.size
      OBVIOUS
    <3> HIDE DEF all, key
    <3> QED
      BY <2>2, <3>1
  <2> HIDE DEF all, key
  <2> QED
    BY <2>1, <2>2, <2>3 DEF HeadsBucket
<1> HIDE DEF New, n
<1>7. {q[i] : i \in {j \in 1..n : New(j)}} = {s \in S : HeadsBucket(s, S, b)}
  <2>1. ASSUME NEW s \in S, HeadsBucket(s, S, b)
        PROVE  \E i \in {j \in 1..n : New(j)} : s = q[i]
    BY <1>2, <1>6, <2>1
  <2>2. ASSUME NEW i \in 1..n, New(i)
        PROVE  q[i] \in S /\ HeadsBucket(q[i], S, b)
    BY <1>2, <1>6, <2>2
  <2> QED
    BY <2>1, <2>2
<1>8. Len(q) = n
  BY <1>2
<1> QED
  BY <1>1, <1>7, <1>8 DEF q

\* The floor takes what it needs from the newest on.
LEMMA RescuedAre ==
    ASSUME NEW S, Dated(S), NEW W \in SUBSET S, NEW floor \in Int
    PROVE  Rescued(NewestFirst(S), W, floor) =
             {s \in S \ W : Cardinality(W \cup Newer(s, S)) < floor}
<1> DEFINE n == Cardinality(S)
           q == NewestFirst(S)
           there[i \in 0..Len(q)] ==
             IF i = 0 THEN W
             ELSE IF Cardinality(there[i - 1]) >= floor THEN there[i - 1]
             ELSE there[i - 1] \cup {q[i]}
           New(i) == there[i] # there[i - 1]
<1>1. Rescued(q, W, floor) = {q[i] : i \in {j \in 1..Len(q) : New(j)}}
  BY DEF Rescued
<1> HIDE DEF q
<1>2. /\ n \in Nat /\ q \in [1..n -> S] /\ Len(q) = n
      /\ \A s \in S : \E i \in 1..n : q[i] = s
      /\ \A i \in 1..n : /\ Cardinality(Newer(q[i], S)) = i - 1
                         /\ Newer(q[i], S) = {q[j] : j \in 1..(i - 1)}
  BY Ordered DEF q
<1>3. \E f : f = [i \in 0..Len(q) |->
                    IF i = 0 THEN W
                    ELSE IF Cardinality(f[i - 1]) >= floor THEN f[i - 1]
                    ELSE f[i - 1] \cup {q[i]}]
  <2>1. PICK f : Gathers(n, W, q, floor, f)
    BY <1>2, GathersExists
  <2>2. f = [i \in 0..Len(q) |->
               IF i = 0 THEN W
               ELSE IF Cardinality(f[i - 1]) >= floor THEN f[i - 1]
               ELSE f[i - 1] \cup {q[i]}]
    BY <1>2, <2>1 DEF Gathers
  <2> QED
    BY <2>2
<1>4. there = [i \in 0..Len(q) |->
                 IF i = 0 THEN W
                 ELSE IF Cardinality(there[i - 1]) >= floor THEN there[i - 1]
                 ELSE there[i - 1] \cup {q[i]}]
  BY <1>3, Zenon
<1> HIDE DEF there
<1>5. Gathers(n, W, q, floor, there)
  BY <1>2, <1>4 DEF Gathers
<1>6. IsFiniteSet(W)
  BY FS_Subset DEF Dated
<1>7. ASSUME NEW i \in 1..n
      PROVE  New(i) <=> /\ q[i] \notin W
                        /\ Cardinality(W \cup Newer(q[i], S)) < floor
  <2>1. Before(W, q, i) = W \cup Newer(q[i], S)
    BY <1>2 DEF Before
  <2>2. New(i) <=> /\ q[i] \notin Before(W, q, i)
                   /\ Cardinality(Before(W, q, i)) < floor
    BY <1>2, <1>5, <1>6, GathersNew
  <2>3. q[i] \notin Newer(q[i], S)
    BY <1>2 DEF Newer, Dated
  <2> QED
    BY <2>1, <2>2, <2>3
<1> HIDE DEF New, n
<1>8. {q[i] : i \in {j \in 1..n : New(j)}} =
        {s \in S \ W : Cardinality(W \cup Newer(s, S)) < floor}
  <2>1. ASSUME NEW s \in S \ W, Cardinality(W \cup Newer(s, S)) < floor
        PROVE  \E i \in {j \in 1..n : New(j)} : s = q[i]
    BY <1>2, <1>7, <2>1
  <2>2. ASSUME NEW i \in 1..n, New(i)
        PROVE  q[i] \in S \ W /\ Cardinality(W \cup Newer(q[i], S)) < floor
    BY <1>2, <1>7, <2>2
  <2> QED
    BY <2>1, <2>2
<1> QED
  BY <1>1, <1>2, <1>8 DEF q

\* What a policy may be made of.
Sane(p) ==
    /\ {p.last, p.within, p.floor} \subseteq Int
    /\ \A b \in p.buckets : b.size \in Nat \ {0} /\ b.count \in Int

Wanted(p, S, t) == {s \in S : SomeRuleWants(s, p, S, t)}

\* What the rules of Apply want.
LEMMA WantedAre ==
    ASSUME NEW S, Dated(S), NEW p, Sane(p), NEW t \in Int
    PROVE  AmongLast(NewestFirst(S), p.last) \cup Within(S, t, p.within)
           \cup Tagged(S, p.tags)
           \cup UNION {BucketHeads(NewestFirst(S), b) : b \in p.buckets}
             = Wanted(p, S, t)
<1> DEFINE n == Cardinality(S)
           q == NewestFirst(S)
<1>1. AmongLast(q, p.last) = {s \in S : Cardinality(Newer(s, S)) < p.last}
  <2> HIDE DEF q
  <2>1. /\ n \in Nat /\ q \in [1..n -> S] /\ Len(q) = n
        /\ \A s \in S : \E i \in 1..n : q[i] = s
        /\ \A i \in 1..n : Cardinality(Newer(q[i], S)) = i - 1
    BY Ordered DEF q
  <2>2. p.last \in Int
    BY DEF Sane
  <2> DEFINE m == IF p.last < n THEN p.last ELSE n
  <2>3. \A i \in 1..n : i \in 1..m <=> i - 1 < p.last
    BY <2>1, <2>2
  <2>4. \A i \in 1..m : i \in 1..n
    BY <2>1, <2>2
  <2>5. AmongLast(q, p.last) = {q[i] : i \in 1..m}
    BY <2>1 DEF AmongLast
  <2> HIDE DEF n, m
  <2>6. ASSUME NEW i \in 1..m
        PROVE  q[i] \in S /\ Cardinality(Newer(q[i], S)) < p.last
    BY <2>1, <2>3, <2>4
  <2>7. ASSUME NEW s \in S, Cardinality(Newer(s, S)) < p.last
        PROVE  \E i \in 1..m : s = q[i]
    BY <2>1, <2>3, <2>7
  <2> QED
    BY <2>5, <2>6, <2>7
<1>2. Within(S, t, p.within) = {s \in S : p.within > 0 /\ t - s.at < p.within}
  BY DEF Within, Sane, Dated
<1>3. Tagged(S, p.tags) = {s \in S : s.tags \cap p.tags # {}}
  BY DEF Tagged
<1>4. \A b \in p.buckets :
        BucketHeads(q, b) = {s \in S : HeadsBucket(s, S, b)}
  BY HeadsAre DEF Sane
<1> HIDE DEF q
<1>5. UNION {BucketHeads(q, b) : b \in p.buckets}
        = {s \in S : \E b \in p.buckets : HeadsBucket(s, S, b)}
  BY <1>4
<1> QED
  BY <1>1, <1>2, <1>3, <1>5 DEF Wanted, SomeRuleWants, q

\* The loops of Apply decide as is meant for each snapshot by itself.
LEMMA ApplyIs ==
    ASSUME NEW S, Dated(S), NEW p, Sane(p), NEW t \in Int
    PROVE  Apply(p, S, t) = ShouldKeep(p, S, t)
<1> DEFINE q == NewestFirst(S)
           wanted == AmongLast(q, p.last) \cup Within(S, t, p.within)
                     \cup Tagged(S, p.tags)
                     \cup UNION {BucketHeads(q, b) : b \in p.buckets}
           W == Wanted(p, S, t)
<1>1. Apply(p, S, t) =
        {s \in S : s \in wanted \cup Rescued(q, wanted, p.floor)}
  BY Zenon DEF Apply
<1>2. wanted = W
  BY WantedAre
<1> HIDE DEF wanted
<1>3. W \in SUBSET S /\ p.floor \in Int
  BY DEF Wanted, Sane
<1>4. Rescued(q, W, p.floor) =
        {s \in S \ W : Cardinality(W \cup Newer(s, S)) < p.floor}
  BY <1>3, RescuedAre
<1>5. ASSUME NEW s \in S
      PROVE  FloorWants(s, p, S, t) <=>
               Cardinality(W \cup Newer(s, S)) < p.floor
  <2>1. {u \in S : u.at > s.at \/ SomeRuleWants(u, p, S, t)}
          = W \cup Newer(s, S)
    BY DEF Wanted, Newer
  <2> QED
    BY <2>1 DEF FloorWants
<1>6. \A s \in S : s \in W <=> SomeRuleWants(s, p, S, t)
  BY DEF Wanted
<1> HIDE DEF W, q
<1>7. Apply(p, S, t) =
        {s \in S : s \in W \/ Cardinality(W \cup Newer(s, S)) < p.floor}
  BY <1>1, <1>2, <1>4
<1> QED
  BY <1>5, <1>6, <1>7 DEF ShouldKeep

\* Buckets of finitely many snapshots are finitely many.
BucketsOf(S, size) == {s.at \div size : s \in S}

LEMMA BucketsAre ==
    ASSUME NEW S, IsFiniteSet(S), NEW T \in SUBSET S, NEW size
    PROVE  /\ IsFiniteSet(BucketsOf(S, size))
           /\ Cardinality(BucketsOf(T, size)) \in Nat
           /\ Cardinality(BucketsOf(S, size)) \in Nat
           /\ Cardinality(BucketsOf(T, size))
                <= Cardinality(BucketsOf(S, size))
<1> DEFINE f == [s \in S |-> s.at \div size]
<1>1. IsFiniteSet(BucketsOf(S, size))
  <2>1. f \in Surjection(S, BucketsOf(S, size))
    <3>1. /\ f \in [S -> BucketsOf(S, size)]
          /\ \A k \in BucketsOf(S, size) : \E s \in S : f[s] = k
      BY DEF BucketsOf
    <3> QED
      BY <3>1 DEF Surjection
  <2> HIDE DEF f
  <2> QED
    BY <2>1, FS_Surjection
<1>2. BucketsOf(T, size) \in SUBSET BucketsOf(S, size)
  BY DEF BucketsOf
<1>3. /\ IsFiniteSet(BucketsOf(T, size))
      /\ Cardinality(BucketsOf(T, size)) <= Cardinality(BucketsOf(S, size))
  BY <1>1, <1>2, FS_Subset
<1> QED
  BY <1>1, <1>3, FS_CardinalityType

\* What is wanted among many is wanted among fewer.
LEMMA WantedAmongFewer ==
    ASSUME NEW S, Dated(S), NEW K \in SUBSET S, NEW p, Sane(p), NEW t,
           NEW s \in K, SomeRuleWants(s, p, S, t)
    PROVE  SomeRuleWants(s, p, K, t)
<1>1. Newer(s, K) \in SUBSET Newer(s, S) /\ IsFiniteSet(Newer(s, S))
  BY FewerNewer DEF Newer
<1>2. CASE Cardinality(Newer(s, S)) < p.last
  <2>1. /\ IsFiniteSet(Newer(s, K))
        /\ Cardinality(Newer(s, K)) <= Cardinality(Newer(s, S))
    BY <1>1, FS_Subset
  <2>2. Cardinality(Newer(s, K)) \in Nat /\ Cardinality(Newer(s, S)) \in Nat
    BY <1>1, <2>1, FS_CardinalityType
  <2> QED
    BY <1>2, <2>1, <2>2 DEF SomeRuleWants, Sane
<1>3. CASE (p.within > 0 /\ t - s.at < p.within) \/ s.tags \cap p.tags # {}
  BY <1>3 DEF SomeRuleWants
<1>4. CASE \E b \in p.buckets : HeadsBucket(s, S, b)
  <2>1. PICK b \in p.buckets : HeadsBucket(s, S, b)
    BY <1>4
  <2>2. /\ \A u \in Newer(s, S) : u.at \div b.size # s.at \div b.size
        /\ Cardinality(BucketsOf(Newer(s, S), b.size)) < b.count
    BY <2>1 DEF HeadsBucket, BucketsOf
  <2>3. /\ Cardinality(BucketsOf(Newer(s, K), b.size))
             <= Cardinality(BucketsOf(Newer(s, S), b.size))
        /\ Cardinality(BucketsOf(Newer(s, K), b.size)) \in Nat
        /\ Cardinality(BucketsOf(Newer(s, S), b.size)) \in Nat
    BY <1>1, BucketsAre
  <2>4. Cardinality(BucketsOf(Newer(s, K), b.size)) < b.count
    BY <2>2, <2>3 DEF Sane
  <2>5. HeadsBucket(s, K, b)
    BY <1>1, <2>2, <2>4 DEF HeadsBucket, BucketsOf
  <2> QED
    BY <2>1, <2>5 DEF SomeRuleWants
<1> QED
  BY <1>2, <1>3, <1>4 DEF SomeRuleWants

\* What the floor looks at.
AtLeast(s, p, S, t) == {u \in S : u.at > s.at \/ SomeRuleWants(u, p, S, t)}

LEMMA FloorOfFewer ==
    ASSUME NEW S, Dated(S), NEW K \in SUBSET S, NEW p, Sane(p), NEW t,
           NEW s, NEW u, FloorWants(s, p, S, t),
           AtLeast(u, p, K, t) \subseteq AtLeast(s, p, S, t)
    PROVE  FloorWants(u, p, K, t)
<1>1. IsFiniteSet(AtLeast(s, p, S, t))
  <2>1. AtLeast(s, p, S, t) \in SUBSET S
    BY DEF AtLeast
  <2> QED
    BY <2>1, FS_Subset DEF Dated
<1>2. /\ IsFiniteSet(AtLeast(u, p, K, t))
      /\ Cardinality(AtLeast(u, p, K, t)) <= Cardinality(AtLeast(s, p, S, t))
  BY <1>1, FS_Subset
<1>3. /\ Cardinality(AtLeast(u, p, K, t)) \in Nat
      /\ Cardinality(AtLeast(s, p, S, t)) \in Nat
  BY <1>1, <1>2, FS_CardinalityType
<1>4. Cardinality(AtLeast(s, p, S, t)) < p.floor /\ p.floor \in Int
  BY DEF FloorWants, AtLeast, Sane
<1>5. Cardinality(AtLeast(u, p, K, t)) < p.floor
  BY <1>2, <1>3, <1>4
<1> QED
  BY <1>5 DEF FloorWants, AtLeast

\* A second pass at the same time lets nothing more go.
LEMMA KeepsAgain ==
    ASSUME NEW S, Dated(S), NEW p, Sane(p), NEW t \in Int
    PROVE  LET K == ShouldKeep(p, S, t)
           IN  Dated(K) /\ ShouldKeep(p, K, t) = K
<1> DEFINE K == ShouldKeep(p, S, t)
<1>1. K \in SUBSET S
      /\ \A s \in S : s \in K <=> \/ SomeRuleWants(s, p, S, t)
                                  \/ FloorWants(s, p, S, t)
  BY DEF ShouldKeep
<1> HIDE DEF K
<1>2. Dated(K)
  BY <1>1, FS_Subset DEF Dated
<1>3. \A s \in S : s.at \in Int
  BY DEF Dated
\* What the floor keeps it keeps with all that is newer.
<1>4. ASSUME NEW s \in K, ~SomeRuleWants(s, p, S, t), NEW u \in Newer(s, S)
      PROVE  u \in K
  <2>1. FloorWants(s, p, S, t) /\ u \in S /\ u.at > s.at
    BY <1>1, <1>4 DEF Newer
  <2>2. AtLeast(u, p, S, t) \subseteq AtLeast(s, p, S, t)
    BY <1>1, <1>3, <2>1 DEF AtLeast
  <2>3. FloorWants(u, p, S, t)
    BY <2>1, <2>2, FloorOfFewer
  <2> QED
    BY <1>1, <2>1, <2>3
<1>5. ASSUME NEW s \in K
      PROVE  SomeRuleWants(s, p, K, t) <=> SomeRuleWants(s, p, S, t)
  <2>1. CASE SomeRuleWants(s, p, S, t)
    BY <1>1, <2>1, WantedAmongFewer
  <2>2. CASE ~SomeRuleWants(s, p, S, t)
    <3>1. Newer(s, K) = Newer(s, S)
      <4>1. Newer(s, K) \subseteq Newer(s, S)
        BY <1>1 DEF Newer
      <4>2. ASSUME NEW u \in Newer(s, S) PROVE u \in Newer(s, K)
        BY <1>4, <2>2, <4>2 DEF Newer
      <4> QED
        BY <4>1, <4>2
    <3> QED
      BY <3>1 DEF SomeRuleWants, HeadsBucket
  <2> QED
    BY <2>1, <2>2
<1>6. ASSUME NEW s \in K, FloorWants(s, p, S, t) PROVE FloorWants(s, p, K, t)
  <2>1. AtLeast(s, p, K, t) \subseteq AtLeast(s, p, S, t)
    BY <1>1, <1>5 DEF AtLeast
  <2> QED
    BY <1>1, <1>6, <2>1, FloorOfFewer
<1>7. ShouldKeep(p, K, t) = K
  BY <1>1, <1>5, <1>6 DEF ShouldKeep
<1> QED
  BY <1>2, <1>7 DEF K

----------------------------------------------------------------------------
(* What is kept of a selection.                                            *)

LEMMA ListingIs ==
    /\ Len(Listing) \in Nat /\ DOMAIN Listing = 1..Len(Listing)
    /\ \A i \in 1..Len(Listing) :
          Listing[i] \in Paths /\ Rank(Listing[i]) = i
    /\ \A p \in Paths : Rank(p) \in 1..Len(Listing) /\ Listing[Rank(p)] = p
<1>1. /\ Len(Listing) \in Nat /\ DOMAIN Listing = 1..Len(Listing)
  BY PathsAssumption
<1>2. Paths = {Listing[i] : i \in DOMAIN Listing}
  BY DEF Paths, ToSet
<1>3. \A p \in Paths : Rank(p) \in DOMAIN Listing /\ Listing[Rank(p)] = p
  BY <1>2 DEF Rank
<1>4. ASSUME NEW i \in DOMAIN Listing
      PROVE  Listing[i] \in Paths /\ Rank(Listing[i]) = i
  <2>1. Listing[i] \in Paths
    BY <1>2
  <2>2. \A j, k \in DOMAIN Listing : Listing[j] = Listing[k] => j = k
    BY PathsAssumption DEF IsInjective
  <2> QED
    BY <1>3, <2>1, <2>2
<1> QED
  BY <1>1, <1>3, <1>4

\* The loop over what was ticked, round by round.
LEMMA LastKeptIs ==
    ASSUME NEW ticked
    PROVE  LET last == LastKept(ticked)
           IN  /\ last[0] = 0
               /\ \A i \in 1..Len(Listing) :
                    last[i] = IF \/ Listing[i] \notin ticked
                                 \/ /\ last[i - 1] # 0
                                    /\ Listing[last[i - 1]]
                                         \in Above[Listing[i]]
                                THEN last[i - 1]
                              ELSE i
<1> DEFINE n == Len(Listing)
           last[i \in 0..Len(Listing)] ==
             IF i = 0 THEN 0
             ELSE IF \/ Listing[i] \notin ticked
                     \/ /\ last[i - 1] # 0
                        /\ Listing[last[i - 1]] \in Above[Listing[i]]
                    THEN last[i - 1]
             ELSE i
           Passes(l, i) == \/ Listing[i] \notin ticked
                           \/ l # 0 /\ Listing[l] \in Above[Listing[i]]
           step == [x \in Nat \X (1..n) |-> IF Passes(x[1], x[2]) THEN x[1]
                                            ELSE x[2]]
<1>1. LastKept(ticked) = last
  BY Zenon DEF LastKept
<1>2. n \in Nat
  BY ListingIs
<1>3. step \in [Nat \X (1..n) -> Nat]
  <2> HIDE DEF Passes
  <2> QED
    BY <1>2
<1>4. ASSUME NEW l \in Nat, NEW i \in 1..n
      PROVE  step[<<l, i>>] = IF Passes(l, i) THEN l ELSE i
  <2> HIDE DEF Passes
  <2> QED
    OBVIOUS
<1> HIDE DEF step
<1>5. PICK f \in [0..n -> Nat] : Loops(n, 0, step, f)
  BY <1>2, <1>3, LoopIs
<1>6. \E g : g = [i \in 0..Len(Listing) |->
             IF i = 0 THEN 0
             ELSE IF \/ Listing[i] \notin ticked
                     \/ /\ g[i - 1] # 0
                        /\ Listing[g[i - 1]] \in Above[Listing[i]]
                    THEN g[i - 1]
             ELSE i]
  <2>1. ASSUME NEW i \in 0..n
        PROVE  f[i] = IF i = 0 THEN 0
                      ELSE IF Passes(f[i - 1], i) THEN f[i - 1]
                      ELSE i
    <3>1. i # 0 => i \in 1..n /\ f[i - 1] \in Nat
      BY <1>2
    <3> HIDE DEF Passes
    <3> QED
      BY <1>4, <1>5, <3>1 DEF Loops
  <2>2. f = [i \in 0..Len(Listing) |->
             IF i = 0 THEN 0
             ELSE IF \/ Listing[i] \notin ticked
                     \/ /\ f[i - 1] # 0
                        /\ Listing[f[i - 1]] \in Above[Listing[i]]
                    THEN f[i - 1]
             ELSE i]
    BY <2>1
  <2> QED
    BY <2>2
<1>7. last = [i \in 0..Len(Listing) |->
             IF i = 0 THEN 0
             ELSE IF \/ Listing[i] \notin ticked
                     \/ /\ last[i - 1] # 0
                        /\ Listing[last[i - 1]] \in Above[Listing[i]]
                    THEN last[i - 1]
             ELSE i]
  BY <1>6, Zenon
<1> HIDE DEF last
<1>8. 0 \in 0..n /\ \A i \in 1..n : i \in 0..n /\ i # 0
  BY <1>2
<1> QED
  BY <1>1, <1>7, <1>8

\* The last one kept is one that was kept, and none after it was.
LEMMA LastKeptBounds ==
    ASSUME NEW ticked, NEW k \in 0..Len(Listing)
    PROVE  LET last == LastKept(ticked)
           IN  /\ last[k] \in 0..k
               /\ last[k] # 0 => last[last[k]] = last[k]
               /\ \A j \in 1..k : last[j] = j => j <= last[k]
<1> DEFINE n == Len(Listing)
           last == LastKept(ticked)
           Good == {i \in 0..n : /\ last[i] \in 0..i
                                 /\ last[i] # 0 => last[last[i]] = last[i]
                                 /\ \A j \in 1..i :
                                       last[j] = j => j <= last[i]}
<1> HIDE DEF last
<1>1. n \in Nat
  BY ListingIs
<1>2. last[0] = 0 /\ \A i \in 1..n : last[i] = last[i - 1] \/ last[i] = i
  BY LastKeptIs DEF last
<1>3. 0 \in Good
  BY <1>1, <1>2
<1>4. ASSUME NEW i \in 1..n, i - 1 \in Good PROVE i \in Good
  <2>1. /\ last[i - 1] \in 0..(i - 1)
        /\ last[i - 1] # 0 => last[last[i - 1]] = last[i - 1]
        /\ \A j \in 1..(i - 1) : last[j] = j => j <= last[i - 1]
    BY <1>4
  <2>2. \A j \in 1..i : j = i \/ j \in 1..(i - 1)
    OBVIOUS
  <2>3. CASE last[i] = last[i - 1]
    BY <2>1, <2>2, <2>3
  <2>4. CASE last[i] = i
    BY <2>4
  <2> QED
    BY <1>2, <2>3, <2>4
<1>5. k \in Good
  <2> HIDE DEF Good
  <2> QED
    BY <1>1, <1>3, <1>4, Rounds
<1> QED
  BY <1>5 DEF last

\* What is selected was ticked.
LEMMA SelectedIs ==
    ASSUME NEW ticked
    PROVE  /\ Selected(ticked) \subseteq ticked \cap Paths
           /\ \A i \in 1..Len(Listing) :
                Listing[i] \in Selected(ticked) <=> LastKept(ticked)[i] = i
<1> DEFINE last == LastKept(ticked)
           n == Len(Listing)
<1>1. Selected(ticked) = {Listing[i] : i \in {j \in 1..n : last[j] = j}}
  BY DEF Selected
<1> HIDE DEF last
<1>2. \A i \in 1..n : /\ Listing[i] \in Paths
                      /\ \A j \in 1..n : Listing[i] = Listing[j] => i = j
  BY ListingIs
<1>3. ASSUME NEW i \in 1..n, last[i] = i PROVE Listing[i] \in ticked
  <2>1. n \in Nat /\ i - 1 \in 0..n
    BY ListingIs
  <2>2. last[i - 1] \in 0..(i - 1)
    BY <2>1, LastKeptBounds DEF last
  <2>3. Listing[i] \notin ticked => last[i] = last[i - 1]
    BY LastKeptIs DEF last
  <2> QED
    BY <1>3, <2>1, <2>2, <2>3
<1> QED
  BY <1>1, <1>2, <1>3 DEF last

LEMMA KeptIsMeant ==
    ASSUME NEW entries, NEW ticked
    PROVE  Kept(entries, ticked) \subseteq Meant(entries, ticked)
<1> SUFFICES ASSUME ticked # {}, NEW e \in entries,
                    Responsible(e, ticked) # {} \/ Carried(e, ticked)
             PROVE  \/ e \in ticked \/ Above[e] \cap ticked # {}
                    \/ \E p \in ticked : e \in Above[p]
  BY DEF Kept, Meant
<1>1. Selected(ticked) \subseteq ticked
  BY SelectedIs
<1>2. CASE Responsible(e, ticked) # {}
  <2>1. PICK p \in Selected(ticked) : p = e \/ p \in Above[e]
    BY <1>2 DEF Responsible, Nearest
  <2> QED
    BY <1>1, <2>1
<1>3. CASE Carried(e, ticked)
  BY <1>1, <1>3 DEF Carried
<1> QED
  BY <1>2, <1>3

\* Unless a ticked path comes between, one entry after the other is kept.
LEMMA MeantIsKept ==
    ASSUME NEW entries \in SUBSET Paths, NEW ticked \in SUBSET Paths,
           ~Muddled(ticked)
    PROVE  Meant(entries, ticked) \ Dirs \subseteq Kept(entries, ticked)
<1> SUFFICES ASSUME ticked # {}, NEW e \in entries, e \notin Dirs,
                    \/ e \in ticked \/ Above[e] \cap ticked # {}
                    \/ \E p \in ticked : e \in Above[p]
             PROVE  Responsible(e, ticked) # {}
  BY DEF Kept, Meant
<1> DEFINE last == LastKept(ticked)
           n == Len(Listing)
           Covers(p) == p = e \/ p \in Above[e]
           T == {i \in 1..n : Listing[i] \in ticked /\ Covers(Listing[i])}
<1> HIDE DEF last
<1>1. /\ n \in Nat /\ e \in Paths
      /\ \A p, q \in Paths : p \in Above[q] =>
            Above[p] \subseteq Above[q] /\ Rank(p) < Rank(q)
      /\ \A p \in Paths : Above[p] \subseteq Dirs
  BY ListingIs, PathsAssumption
<1>2. /\ \A i \in 1..n : Listing[i] \in Paths /\ Rank(Listing[i]) = i
      /\ \A p \in Paths : Rank(p) \in 1..n /\ Listing[Rank(p)] = p
  BY ListingIs
<1>3. \A i \in 0..n : /\ last[i] \in 0..i
                      /\ last[i] # 0 => last[last[i]] = last[i]
                      /\ \A j \in 1..i : last[j] = j => j <= last[i]
  BY LastKeptBounds DEF last
<1>4. \A i \in 1..n :
        last[i] = IF \/ Listing[i] \notin ticked
                     \/ /\ last[i - 1] # 0
                        /\ Listing[last[i - 1]] \in Above[Listing[i]]
                    THEN last[i - 1]
                  ELSE i
  BY LastKeptIs DEF last
<1>5. /\ Selected(ticked) \subseteq ticked \cap Paths
      /\ \A i \in 1..n : Listing[i] \in Selected(ticked) <=> last[i] = i
  BY SelectedIs DEF last
\* The first that covers e is kept.
<1>6. PICK r \in T : \A i \in T : r <= i
  <2>1. \E p \in ticked : Covers(p)
    BY <1>1
  <2>2. T # {}
    BY <1>2, <2>1
  <2>3. T \in SUBSET Nat
    OBVIOUS
  <2> QED
    BY <2>2, <2>3, Least
<1>7. r \in 1..n /\ Listing[r] \in ticked /\ Covers(Listing[r])
  BY <1>6
<1>8. last[r] = r
  <2> SUFFICES ASSUME last[r] # r PROVE FALSE
    OBVIOUS
  <2> DEFINE l == last[r - 1]
  <2>1. l # 0 /\ Listing[l] \in Above[Listing[r]]
    BY <1>4, <1>7
  <2>2. r - 1 \in 0..n
    BY <1>7
  <2>3. l \in 1..(r - 1) /\ last[l] = l
    BY <1>3, <2>1, <2>2
  <2>4. l \in 1..n /\ Listing[l] \in ticked
    BY <1>1, <1>5, <1>7, <2>3
  <2>5. Covers(Listing[l])
    BY <1>1, <1>2, <1>7, <2>1
  <2>6. l \in T
    BY <2>4, <2>5
  <2> HIDE DEF T, l
  <2> QED
    BY <1>6, <1>7, <2>3, <2>6
<1> HIDE DEF T
<1>9. Rank(e) \in 1..n /\ Listing[Rank(e)] = e /\ r <= Rank(e)
  <2>1. Rank(e) \in 1..n /\ Listing[Rank(e)] = e
    BY <1>1, <1>2
  <2>2. Rank(Listing[r]) = r /\ Listing[r] \in Paths
    BY <1>2, <1>7
  <2>3. Listing[r] \in Above[e] => r < Rank(e)
    BY <1>1, <2>2
  <2> QED
    BY <1>1, <1>7, <2>1, <2>2, <2>3
<1> DEFINE m == last[Rank(e)]
<1>10. m \in 1..n /\ last[m] = m /\ r <= m /\ m <= Rank(e)
  <2>1. Rank(e) \in 0..n /\ r \in 1..Rank(e)
    BY <1>1, <1>7, <1>9
  <2>2. r <= m /\ m \in 0..Rank(e)
    BY <1>3, <1>8, <2>1
  <2> QED
    BY <1>3, <1>7, <1>9, <2>1, <2>2
<1>11. Listing[m] \in Nearest(e, ticked)
  <2>1. Listing[m] \in Selected(ticked) /\ Rank(Listing[m]) = m
    BY <1>2, <1>5, <1>10
  <2>2. ASSUME NEW q \in Selected(ticked), Rank(q) <= Rank(e)
        PROVE  Rank(q) <= m
    <3>1. q \in Paths
      BY <1>5
    <3>2. Rank(q) \in 1..n /\ Listing[Rank(q)] = q
      BY <1>2, <3>1
    <3>3. last[Rank(q)] = Rank(q)
      BY <1>5, <3>2
    <3>4. Rank(e) \in 0..n /\ Rank(q) \in 1..Rank(e)
      BY <1>1, <1>9, <2>2, <3>2
    <3> QED
      BY <1>3, <3>3, <3>4
  <2> QED
    BY <1>10, <2>1, <2>2 DEF Nearest
\* And so is none after it, up to e.
<1>12. Covers(Listing[m])
  <2> SUFFICES ASSUME m # r PROVE FALSE
    BY <1>7
  <2> DEFINE V == {j \in 1..n : last[j] = j /\ r < j}
  <2>1. m \in V /\ V \in SUBSET Nat
    BY <1>7, <1>10
  <2>2. PICK k \in V : \A j \in V : k <= j
    <3> HIDE DEF V, m
    <3> QED
      BY <2>1, Least
  <2>3. k \in 1..n /\ last[k] = k /\ r < k /\ k <= m
    BY <2>1, <2>2
  <2>4. last[k - 1] = r
    <3>1. k - 1 \in 0..n /\ r \in 1..(k - 1)
      BY <1>7, <2>3
    <3>2. last[k - 1] \in 0..(k - 1) /\ r <= last[k - 1]
      BY <1>3, <1>8, <3>1
    <3>3. last[last[k - 1]] = last[k - 1] /\ last[k - 1] \in 1..n
      BY <1>3, <1>7, <2>3, <3>1, <3>2
    <3>4. last[k - 1] \notin V
      BY <2>2, <2>3, <3>2
    <3> QED
      BY <1>7, <3>2, <3>3, <3>4
  <2>5. Listing[k] \in ticked /\ Listing[r] \notin Above[Listing[k]]
    <3>1. last[k] # last[k - 1] /\ r # 0
      BY <1>7, <2>3, <2>4
    <3> QED
      BY <1>4, <2>3, <2>4, <3>1
  <2>6. Rank(Listing[k]) = k /\ Rank(Listing[r]) = r
    BY <1>2, <1>7, <2>3
  <2>7. k <= Rank(e)
    BY <1>9, <1>10, <2>3
  <2>8. Listing[r] \in Above[e]
    <3>1. Listing[r] # e
      BY <1>7, <1>9, <2>3, <2>6, <2>7
    <3> QED
      BY <1>7, <3>1
  <2>9. k # Rank(e)
    BY <1>9, <2>5, <2>8
  <2>10. Rank(Listing[k]) < Rank(e) /\ Rank(Listing[r]) < Rank(Listing[k])
    BY <1>9, <2>3, <2>6, <2>7, <2>9
  <2> HIDE DEF m, Covers, V, n
  <2> QED
    BY <1>1, <1>7, <2>5, <2>8, <2>10 DEF Muddled
<1> QED
  BY <1>11, <1>12 DEF Responsible

----------------------------------------------------------------------------
(* The helpers.                                                            *)

LEMMA Bounds ==
    /\ MaxTime \in Nat /\ MaxEvents \in Nat /\ MaxJobs \in Nat
    /\ {} \in Ticks /\ Ticks \subseteq SUBSET Paths
BY OpsAssumption

\* A policy lets go of nothing it has no say in, and keeps what is tagged.
LEMMA ApplyKeeps ==
    ASSUME NEW p, NEW S, NEW t
    PROVE  /\ Apply(p, S, t) \subseteq S
           /\ \A s \in S : s.tags \cap p.tags # {} => s \in Apply(p, S, t)
<1> DEFINE ordered == NewestFirst(S)
           wanted == AmongLast(ordered, p.last)
                     \cup Within(S, t, p.within)
                     \cup Tagged(S, p.tags)
                     \cup UNION {BucketHeads(ordered, b) : b \in p.buckets}
           rescued == Rescued(ordered, wanted, p.floor)
<1>1. Apply(p, S, t) = {s \in S : s \in wanted \cup rescued}
  BY Zenon DEF Apply
<1>2. \A s \in S : s.tags \cap p.tags # {} => s \in wanted
  <2> SUFFICES ASSUME NEW s \in S, s.tags \cap p.tags # {}
               PROVE  s \in Tagged(S, p.tags)
    BY Zenon
  <2> QED
    BY DEF Tagged
<1> HIDE DEF ordered, wanted, rescued
<1> QED
  BY <1>1, <1>2

LEMMA NoReqIs == NoReq \in Reqs
BY Bounds DEF NoReq, Reqs

LEMMA NothingIs == Nothing \in Content
BY Bounds DEF Nothing, Content, Contents

\* What a snapshot has in it, whatever its tags.
LEMMA SnapshotIs ==
    ASSUME TypeOK, NEW tags \in SUBSET {PreRestore}, Snapshot(tags)
    PROVE  /\ now' = now + 1 /\ now' \in 1..MaxTime + 1
           /\ events' \in 0..MaxEvents
           /\ UNCHANGED <<trash, bad>>
           /\ \E s \in Snaps :
                 /\ s.at = now /\ s.tags = tags
                 /\ snaps' = snaps \cup {s} /\ taken' = taken \cup {s}
                 /\ \A f \in Files : Saves(s, f, live[f])
<1> USE Bounds
<1>1. PICK fs \in {Listed} \cup {Listed \ {f} : f \in Listed} :
        LET s == [at |-> now, tags |-> tags, whole |-> fs = Listed,
                  holds |-> Holding(fs)]
        IN  /\ Happens(IF s.whole THEN 0 ELSE 1)
            /\ snaps' = snaps \cup {s} /\ taken' = taken \cup {s}
  BY DEF Snapshot
<1> DEFINE s == [at |-> now, tags |-> tags, whole |-> fs = Listed,
                 holds |-> Holding(fs)]
<1>2. now \in 1..MaxTime + 1 /\ now <= MaxTime /\ now' = now + 1
      /\ UNCHANGED <<trash, bad>>
  BY DEF TypeOK, Snapshot
<1>3. Holding(fs) \in Content
  BY DEF Holding, Content, Contents, TypeOK
<1>4. s \in Snaps
  BY <1>2, <1>3 DEF Snaps, Times
<1>5. ASSUME NEW f \in Files PROVE Saves(s, f, live[f])
  <2> SUFFICES ASSUME fs = Listed, Walked(f) PROVE Holding(fs)[f] = live[f]
    BY DEF Saves
  <2>1. live[f] # 0 => f \in Listed
    BY DEF Listed
  <2> QED
    BY <2>1 DEF Holding
<1>6. events' \in 0..MaxEvents
  <2>1. events \in 0..MaxEvents
    BY DEF TypeOK
  <2>2. \E n \in {0, 1} : Happens(n)
    BY <1>1
  <2> QED
    BY <2>1, <2>2 DEF Happens
<1>7. snaps' = snaps \cup {s} /\ taken' = taken \cup {s}
  BY <1>1
<1>8. s.at = now /\ s.tags = tags
  OBVIOUS
<1> HIDE DEF s
<1> QED
  BY <1>2, <1>4, <1>5, <1>6, <1>7, <1>8

----------------------------------------------------------------------------
(* The beginning.                                                          *)

LEMMA InitInv == Init => IInv
<1> SUFFICES ASSUME Init PROVE IInv
  OBVIOUS
<1> USE Bounds DEF Init
<1>1. live \in Content
  BY DEF Content, Contents
<1>2. req \in Reqs /\ was \in Content /\ scratch \in Content
  BY NoReqIs, NothingIs
<1>5. /\ game \in {"stopped", "up"} /\ events \in 0..MaxEvents
      /\ now \in 1..MaxTime + 1 /\ policy \in Policies
      /\ pc \in PCs /\ jobs \in 0..MaxJobs
  BY DEF PCs
<1>6. /\ snaps \subseteq Snaps /\ taken \subseteq Snaps
      /\ trash \subseteq taken /\ snaps \cap trash = {}
      /\ snaps \subseteq taken
      /\ todo \subseteq Paths /\ byHand \subseteq Times
      /\ pre \in Times \cup {0} /\ stirred \in BOOLEAN
      /\ \A x \in lost : x \in [file : Files, content : Contents, at : Times]
  OBVIOUS
<1>7. bad \in [Contents -> {"ok", "missing", "rotten"}]
  OBVIOUS
<1>3. TypeOK
  BY ONLY <1>1, <1>2, <1>5, <1>6, <1>7 DEF TypeOK
<1>4. Knows /\ Halted /\ Past /\ Saved /\ Noted /\ Stay
  BY DEF Knows, Running, Halted, Past, Saved, Noted, Stay
<1> QED
  BY <1>3, <1>4 DEF IInv

----------------------------------------------------------------------------
(* The types.                                                              *)

LEMMA SourceIs ==
    ASSUME TypeOK, Knows, pc \in Running
    PROVE  Source \in taken /\ Source.at = req.at /\ Source.holds \in Content
<1>1. \E s \in taken : s.at = req.at
  BY DEF Knows
<1>2. Source \in taken /\ Source.at = req.at
  BY <1>1 DEF Source
<1> QED
  BY <1>2 DEF TypeOK, Snaps

LEMMA TypeStep == IInv /\ Next => TypeOK'
<1> SUFFICES ASSUME IInv, Next PROVE TypeOK'
  OBVIOUS
<1> USE Bounds DEF instance, repository, job, ghosts
<1>t. TypeOK
  BY DEF IInv
<1>1. CASE Backup
  <2>1. Snapshot({})
    BY <1>1 DEF Backup
  <2>2. /\ now' \in 1..MaxTime + 1 /\ events' \in 0..MaxEvents
        /\ UNCHANGED <<trash, bad>>
    BY <1>t, <2>1, SnapshotIs
  <2>3. PICK s \in Snaps :
          s.at = now /\ snaps' = snaps \cup {s} /\ taken' = taken \cup {s}
    BY <1>t, <2>1, SnapshotIs
  <2>4. s \notin trash
    BY <1>t, <2>3 DEF TypeOK, IInv, Past, Snaps, Times
  <2> QED
    BY <1>1, <1>t, <2>2, <2>3, <2>4 DEF Backup, TypeOK
<1>2. CASE Ask
  <2>1. req' \in Reqs
    BY <1>2 DEF Ask
  <2>2. pc' \in PCs /\ jobs' \in 0..MaxJobs
    BY <1>2, <1>t DEF Ask, TypeOK, PCs
  <2> QED
    BY <1>2, <1>t, <2>1, <2>2 DEF Ask, TypeOK
<1>3. CASE CheckStopped
  <2>1. pc' \in PCs /\ was' \in Content /\ stirred' \in BOOLEAN
    BY <1>3, <1>t DEF CheckStopped, TypeOK, PCs
  <2> QED
    BY <1>3, <1>t, <2>1 DEF CheckStopped, TypeOK
<1>4. CASE TakePre
  <2>1. Snapshot({PreRestore})
    BY <1>4 DEF TakePre
  <2>2. /\ now' \in 1..MaxTime + 1 /\ events' \in 0..MaxEvents
        /\ UNCHANGED <<trash, bad>>
    BY <1>t, <2>1, SnapshotIs
  <2>3. PICK s \in Snaps :
          s.at = now /\ snaps' = snaps \cup {s} /\ taken' = taken \cup {s}
    BY <1>t, <2>1, SnapshotIs
  <2>4. s \notin trash
    BY <1>t, <2>3 DEF TypeOK, IInv, Past, Snaps, Times
  <2>5. pre' \in Times \cup {0}
    BY <1>4, <2>3 DEF TakePre, Snaps
  <2>6. pc' \in PCs
    BY <1>4 DEF TakePre, PCs
  <2> QED
    BY <1>4, <1>t, <2>2, <2>3, <2>4, <2>5, <2>6 DEF TakePre, TypeOK
<1>5. CASE Plan \/ Written \/ HkBegin \/ HkCheck
  <2>1. pc' \in PCs
    BY <1>5 DEF Plan, Written, HkBegin, HkCheck, PCs
  <2> QED
    BY <1>5, <1>t, <2>1 DEF Plan, Written, HkBegin, HkCheck, TypeOK
<1>6. CASE Load
  <2>1. pc' \in PCs
    BY <1>6 DEF Load, PCs
  <2>2. PICK s \in Asked :
          todo' = Kept(Entries(s), req.ticked) \ Dirs /\ req' = req
    BY <1>6 DEF Load
  <2>3. Entries(s) \subseteq Paths
    BY PathsAssumption DEF Entries, Files
  <2>4. Kept(Entries(s), req.ticked) \subseteq Entries(s)
    BY DEF Kept
  <2>5. todo' \subseteq Paths
    BY <2>2, <2>3, <2>4
  <2> QED
    BY <1>6, <1>t, <2>1, <2>2, <2>5 DEF Load, TypeOK
<1>7. CASE WriteFile
  <2>1. Source.holds \in Content
    BY <1>7, SourceIs DEF WriteFile, IInv, Running
  <2>2. PICK f \in todo :
          LET c == Source.holds[f]
          IN  /\ todo' = todo \ {f}
              /\ IF req.into = "instance"
                   THEN live' = [live EXCEPT ![f] = c] /\ UNCHANGED scratch
                   ELSE scratch' = [scratch EXCEPT ![f] = c]
                        /\ UNCHANGED live
              /\ lost' = IF req.into = "instance" /\ req.pre /\ ~stirred
                            /\ live[f] \notin {0, c}
                           THEN lost \cup {[file |-> f, content |-> live[f],
                                            at |-> pre]}
                           ELSE lost
    BY <1>7 DEF WriteFile
  <2>3. f \in Files
    BY <1>7, <2>2 DEF WriteFile, IInv, Knows
  <2>4. live' \in Content /\ scratch' \in Content
    BY <1>t, <2>1, <2>2, <2>3 DEF Content, TypeOK
  <2>5. req.pre /\ ~stirred => pre \in Times
    BY <1>7, <1>t DEF WriteFile, IInv, Saved, TypeOK, Snaps
  <2>6. live[f] \in Contents
    BY <1>t, <2>3 DEF TypeOK, Content
  <2>7. \A x \in lost' : x \in [file : Files, content : Contents, at : Times]
    BY <1>t, <2>2, <2>3, <2>5, <2>6 DEF TypeOK
  <2>8. todo' \subseteq Paths
    BY <1>t, <2>2 DEF TypeOK
  <2> QED
    BY <1>7, <1>t, <2>4, <2>7, <2>8 DEF WriteFile, TypeOK
<1>8. CASE JobEnds
  <2>1. /\ pc' \in PCs /\ req' \in Reqs /\ was' \in Content
        /\ scratch' \in Content /\ todo' = {} /\ pre' = 0 /\ stirred' = FALSE
    BY <1>8, NoReqIs, NothingIs DEF JobEnds, Over, PCs
  <2> QED
    BY <1>8, <1>t, <2>1 DEF JobEnds, TypeOK
<1>9. CASE HkForget
  <2>1. snaps' \subseteq snaps
    BY <1>9, ApplyKeeps DEF HkForget
  <2>2. trash' = trash \cup (snaps \ snaps') /\ pc' \in PCs
    BY <1>9 DEF HkForget, PCs
  <2> QED
    BY <1>9, <1>t, <2>1, <2>2 DEF HkForget, TypeOK
<1>10. CASE HkPrune
  <2>1. pc' \in PCs
    BY <1>10 DEF HkPrune, PCs
  <2> QED
    BY <1>10, <1>t, <2>1 DEF HkPrune, TypeOK
<1>11. CASE GameMoves
  <2>1. game' \in {"stopped", "up"} /\ stirred' \in BOOLEAN
    BY <1>11 DEF GameMoves
  <2> QED
    BY <1>11, <1>t, <2>1 DEF GameMoves, TypeOK
<1>12. ASSUME NEW s \in taken, Forget(s) \/ Unforget(s) PROVE TypeOK'
  <2>1. events' \in 0..MaxEvents
    BY <1>12, <1>t DEF Forget, Unforget, Happens, TypeOK
  <2>2. s.at \in Times
    BY <1>t DEF TypeOK, Snaps
  <2>3. CASE Forget(s)
    BY <2>3, <1>t, <2>1, <2>2 DEF Forget, TypeOK
  <2>4. CASE Unforget(s)
    BY <2>4, <1>t, <2>1 DEF Unforget, TypeOK
  <2> QED
    BY <1>12, <2>3, <2>4
<1>13. ASSUME NEW f \in Files, Play(f) PROVE TypeOK'
  <2>1. events' \in 0..MaxEvents /\ events + 2 \in Contents
    BY <1>13, <1>t DEF Play, Happens, TypeOK, Contents
  <2>2. live' \in Content
    BY <1>13, <1>t, <2>1 DEF Play, TypeOK, Content
  <2> QED
    BY <1>13, <1>t, <2>1, <2>2 DEF Play, TypeOK
<1>14. ASSUME NEW c \in Contents, GoBad(c) PROVE TypeOK'
  <2>1. events' \in 0..MaxEvents
    BY <1>14, <1>t DEF GoBad, Happens, TypeOK
  <2>2. bad' \in [Contents -> {"ok", "missing", "rotten"}]
    BY <1>14, <1>t DEF GoBad, TypeOK
  <2> QED
    BY <1>14, <1>t, <2>1, <2>2 DEF GoBad, TypeOK
<1> QED
  BY <1>1, <1>2, <1>3, <1>4, <1>5, <1>6, <1>7, <1>8, <1>9, <1>10, <1>11, <1>12,
     <1>13, <1>14 DEF Next

----------------------------------------------------------------------------
(* The strengthening.                                                      *)

\* What is taken is never forgotten, and comes one at a time.
LEMMA TakenGrows ==
    ASSUME IInv, Next
    PROVE  taken \subseteq taken' /\ (\A s \in taken' \ taken : s.at = now)
<1> USE DEF instance, repository, job, ghosts
<1>1. CASE Backup \/ TakePre
  <2>1. TypeOK /\ \E t \in SUBSET {PreRestore} : Snapshot(t)
    BY <1>1 DEF IInv, Backup, TakePre
  <2> QED
    BY <2>1, SnapshotIs
<1>2. CASE ~(Backup \/ TakePre)
  <2>1. taken' = taken
    BY <1>2 DEF Next, Ask, CheckStopped, Plan, Load, WriteFile, Written,
       JobEnds, HkBegin, HkCheck, HkForget, HkPrune, GameMoves, Forget,
       Unforget, Play, GoBad
  <2> QED
    BY <2>1
<1> QED
  BY <1>1, <1>2

LEMMA PastStep == IInv /\ Next => Past'
<1> SUFFICES ASSUME IInv, Next PROVE Past'
  OBVIOUS
<1> USE DEF instance, repository, job, ghosts
<1>1. now \in Nat /\ \A s \in taken : s.at \in Nat /\ s.at < now
  BY DEF IInv, TypeOK, Past, Snaps, Times
<1>2. CASE Backup \/ TakePre
  <2>1. TypeOK /\ \E t \in SUBSET {PreRestore} : Snapshot(t)
    BY <1>2 DEF IInv, Backup, TakePre
  <2>2. now' = now + 1
    BY <2>1, SnapshotIs
  <2> QED
    BY <1>1, <2>2, TakenGrows DEF Past
<1>3. CASE ~(Backup \/ TakePre)
  <2>1. taken' = taken /\ now' = now
    BY <1>3 DEF Next, Ask, CheckStopped, Plan, Load, WriteFile, Written,
       JobEnds, HkBegin, HkCheck, HkForget, HkPrune, GameMoves, Forget,
       Unforget, Play, GoBad
  <2> QED
    BY <1>1, <2>1 DEF Past
<1> QED
  BY <1>2, <1>3

LEMMA KnowsStep == IInv /\ Next => Knows'
<1> SUFFICES ASSUME IInv, Next PROVE Knows'
  OBVIOUS
<1> USE DEF Knows, Running, instance, repository, job, ghosts
<1>k. Knows /\ taken \subseteq taken'
  BY TakenGrows DEF IInv
<1>1. CASE Backup \/ TakePre
  BY <1>1, <1>k DEF Backup, TakePre
<1>2. CASE Ask
  <2>1. PICK r \in Reqs : r.at \in {s.at : s \in snaps} /\ req' = r
    BY <1>2 DEF Ask
  <2>2. r.at # 0 /\ \E s \in taken : s.at = r.at
    BY <2>1 DEF IInv, TypeOK, Snaps, Times
  <2>3. r # NoReq
    BY <2>2 DEF NoReq
  <2> QED
    BY <1>2, <1>k, <2>1, <2>2, <2>3 DEF Ask
<1>3. CASE CheckStopped \/ Plan \/ Written
  BY <1>3, <1>k DEF CheckStopped, Plan, Written
<1>4. CASE Load
  <2>1. PICK s \in Asked : todo' = Kept(Entries(s), req.ticked) \ Dirs
    BY <1>4 DEF Load
  <2>2. Kept(Entries(s), req.ticked) \subseteq Entries(s)
    BY DEF Kept
  <2>3. Entries(s) \subseteq Dirs \cup Files
    BY DEF Entries
  <2>4. todo' \subseteq Files
    BY <2>1, <2>2, <2>3
  <2> QED
    BY <1>4, <1>k, <2>4 DEF Load
<1>5. CASE WriteFile
  BY <1>5, <1>k DEF WriteFile
<1>6. CASE JobEnds
  BY <1>6 DEF JobEnds, Over
<1>7. CASE HkBegin \/ HkCheck \/ HkForget \/ HkPrune
  BY <1>7, <1>k DEF HkBegin, HkCheck, HkForget, HkPrune
<1>8. CASE GameMoves
  BY <1>8, <1>k DEF GameMoves
<1>9. ASSUME NEW s, Forget(s) \/ Unforget(s) \/ Play(s) \/ GoBad(s)
      PROVE  Knows'
  BY <1>9, <1>k DEF Forget, Unforget, Play, GoBad
<1> QED
  BY <1>1, <1>2, <1>3, <1>4, <1>5, <1>6, <1>7, <1>8, <1>9 DEF Next

LEMMA HaltedStep == IInv /\ Next => Halted'
<1> SUFFICES ASSUME IInv, Next, pc' \in Running, req'.into = "instance"
             PROVE  stirred' \/ game' = "stopped"
  BY DEF Halted
<1> USE DEF Running, instance, repository, job, ghosts
<1>h. Halted /\ Knows /\ TypeOK
  BY DEF IInv
<1>1. CASE Backup \/ Ask
  BY <1>1 DEF Backup, Ask
<1>2. CASE CheckStopped
  BY <1>2 DEF CheckStopped
<1>3. CASE TakePre \/ Plan \/ Load \/ WriteFile \/ Written
  <2>1. UNCHANGED <<game, stirred, req>> /\ pc \in Running
    BY <1>3 DEF TakePre, Plan, Load, WriteFile, Written
  <2> QED
    BY <1>h, <2>1 DEF Halted
<1>4. CASE JobEnds \/ HkBegin \/ HkCheck \/ HkForget \/ HkPrune
  BY <1>4 DEF JobEnds, Over, HkBegin, HkCheck, HkForget, HkPrune
<1>5. CASE GameMoves
  <2>1. req # NoReq
    BY <1>5, <1>h DEF GameMoves, Knows
  <2> QED
    BY <1>5, <2>1 DEF GameMoves
<1>6. ASSUME NEW s, Forget(s) \/ Unforget(s) \/ Play(s) \/ GoBad(s)
      PROVE  stirred' \/ game' = "stopped"
  <2>1. UNCHANGED <<game, stirred, req, pc>>
    BY <1>6 DEF Forget, Unforget, Play, GoBad
  <2> QED
    BY <1>h, <2>1 DEF Halted
<1> QED
  BY <1>1, <1>2, <1>3, <1>4, <1>5, <1>6 DEF Next

\* A file the job has yet to replace is as it was.
Held(s) ==
    /\ s.at = pre /\ PreRestore \in s.tags
    /\ \A f \in Files : (pc = "write" => f \in todo) => Saves(s, f, live[f])

LEMMA SavedStep == IInv /\ Next => Saved'
<1> SUFFICES ASSUME IInv, Next, pc' \in {"plan", "load", "write"}, req'.pre,
                    ~stirred'
             PROVE  \E s \in taken' : Held(s)'
  BY DEF Saved, Held
<1> USE DEF instance, repository, job, ghosts
<1>t. TypeOK /\ Knows /\ taken \subseteq taken'
  BY TakenGrows DEF IInv
<1>p. pc \in {"plan", "load", "write"} /\ req.pre /\ ~stirred =>
          \E s \in taken : Held(s)
  BY DEF IInv, Saved, Held
<1>1. CASE Backup \/ Ask
  BY <1>1 DEF Backup, Ask
<1>2. CASE CheckStopped
  <2>1. req.pre => req.into = "instance" /\ ~req.dry
    BY <1>t DEF TypeOK, Reqs
  <2> QED
    BY <1>2, <2>1 DEF CheckStopped
<1>3. CASE TakePre
  <2>1. PICK s \in Snaps : /\ s.at = now /\ s.tags = {PreRestore}
                           /\ taken' = taken \cup {s}
                           /\ \A f \in Files : Saves(s, f, live[f])
    BY <1>3, <1>t, SnapshotIs DEF TakePre
  <2>2. pre' = now /\ live' = live
    BY <1>3 DEF TakePre
  <2> QED
    BY <2>1, <2>2 DEF Held, Saves
<1>4. CASE Plan
  <2>1. UNCHANGED <<req, stirred, taken, pre, live>> /\ pc = "plan"
        /\ pc' # "write"
    BY <1>4 DEF Plan
  <2>2. PICK s \in taken : Held(s)
    BY <1>p, <2>1
  <2>3. Held(s)'
    BY <2>1, <2>2 DEF Held, Saves
  <2> QED
    BY <2>1, <2>3
<1>5. CASE Load
  <2>1. UNCHANGED <<req, stirred, taken, pre, live>> /\ pc = "load"
    BY <1>5 DEF Load
  <2>2. PICK s \in taken : Held(s)
    BY <1>p, <2>1
  <2>3. Held(s)'
    BY <2>1, <2>2 DEF Held, Saves
  <2> QED
    BY <2>1, <2>3
<1>6. CASE WriteFile
  <2>1. UNCHANGED <<pc, req, stirred, taken, pre>> /\ pc = "write"
    BY <1>6 DEF WriteFile
  <2>2. PICK s \in taken : Held(s)
    BY <1>p, <2>1
  <2>3. PICK f \in todo :
          /\ todo' = todo \ {f}
          /\ live' = live \/ \E c : live' = [live EXCEPT ![f] = c]
    BY <1>6 DEF WriteFile
  <2>7. DOMAIN live = Files /\ todo \subseteq Files
    BY <1>t DEF TypeOK, Content, Knows
  <2>4. \A g \in todo' : live'[g] = live[g]
    BY <2>3, <2>7
  <2>5. \A g \in todo' : Saves(s, g, live'[g])
    BY <2>1, <2>2, <2>3, <2>4, <1>t DEF Held, Knows
  <2>6. Held(s)'
    BY <2>1, <2>2, <2>5 DEF Held, Saves
  <2> QED
    BY <2>1, <2>6
<1>7. CASE Written \/ JobEnds \/ HkBegin \/ HkCheck \/ HkForget \/ HkPrune
  BY <1>7 DEF Written, JobEnds, Over, HkBegin, HkCheck, HkForget, HkPrune
<1>8. CASE GameMoves
  <2>1. req # NoReq
    BY <1>8, <1>t DEF GameMoves, Knows, Running
  <2> QED
    BY <1>8, <2>1 DEF GameMoves
<1>9. ASSUME NEW s, Forget(s) \/ Unforget(s) \/ GoBad(s)
      PROVE  \E z \in taken' : Held(z)'
  <2>1. UNCHANGED <<pc, todo, req, stirred, taken, pre, live>>
    BY <1>9 DEF Forget, Unforget, GoBad
  <2>2. PICK z \in taken : Held(z)
    BY <1>p, <2>1
  <2>3. Held(z)'
    BY <2>1, <2>2 DEF Held, Saves
  <2> QED
    BY <2>1, <2>3
<1>10. ASSUME NEW f, Play(f) PROVE FALSE
  <2>1. UNCHANGED <<pc, req, stirred>> /\ game # "stopped"
    BY <1>10 DEF Play
  <2>2. req.into = "instance"
    BY <1>t, <2>1 DEF TypeOK, Reqs
  <2> QED
    BY <2>1, <2>2 DEF IInv, Halted, Running
<1> QED
  BY <1>1, <1>2, <1>3, <1>4, <1>5, <1>6, <1>7, <1>8, <1>9, <1>10 DEF Next

LEMMA NotedStep == IInv /\ Next => Noted'
<1> SUFFICES ASSUME IInv, Next PROVE Noted'
  OBVIOUS
<1> USE DEF instance, repository, job, ghosts
<1>t. Noted /\ taken \subseteq taken'
  BY TakenGrows DEF IInv
<1>1. CASE lost' = lost
  BY <1>1, <1>t DEF Noted, Saves
<1>2. CASE lost' # lost
  <2>1. WriteFile
    BY <1>2 DEF Next, Backup, Ask, CheckStopped, TakePre, Plan, Load, Written,
       JobEnds, HkBegin, HkCheck, HkForget, HkPrune, GameMoves, Forget,
       Unforget, Play, GoBad
  <2>2. PICK f \in todo :
          /\ req.pre /\ ~stirred
          /\ lost' = lost \cup {[file |-> f, content |-> live[f], at |-> pre]}
    BY <1>2, <2>1 DEF WriteFile
  <2>3. f \in Files /\ pc = "write"
    BY <2>1, <2>2 DEF WriteFile, IInv, Knows
  <2>4. PICK s \in taken : s.at = pre /\ PreRestore \in s.tags
                           /\ Saves(s, f, live[f])
    BY <2>2, <2>3 DEF IInv, Saved
  <2> QED
    BY <1>t, <2>2, <2>4 DEF Noted, Saves
<1> QED
  BY <1>1, <1>2

LEMMA StayStep == IInv /\ Next => Stay'
<1> SUFFICES ASSUME IInv, Next PROVE Stay'
  OBVIOUS
<1> USE DEF Stay, instance, repository, job, ghosts
<1>t. TypeOK /\ Stay
  BY DEF IInv
<1>1. CASE Backup \/ TakePre
  <2>1. \E t \in SUBSET {PreRestore} : Snapshot(t)
    BY <1>1 DEF Backup, TakePre
  <2>2. \E s : snaps' = snaps \cup {s} /\ taken' = taken \cup {s}
    BY <1>t, <2>1, SnapshotIs
  <2>3. UNCHANGED <<byHand, policy>>
    BY <1>1 DEF Backup, TakePre
  <2> QED
    BY <1>t, <2>2, <2>3
<1>2. CASE HkForget
  <2>1. \A s \in snaps : s.tags \cap policy.tags # {} => s \in snaps'
    BY <1>2, ApplyKeeps DEF HkForget
  <2>2. UNCHANGED <<taken, byHand, policy>>
    BY <1>2 DEF HkForget
  <2> QED
    BY <1>t, <2>1, <2>2
<1>3. ASSUME NEW s \in taken, Forget(s) PROVE Stay'
  BY <1>3, <1>t DEF Forget
<1>4. ASSUME NEW s \in taken, Unforget(s) PROVE Stay'
  BY <1>4, <1>t DEF Unforget
<1>5. CASE Ask \/ CheckStopped \/ Plan \/ Load \/ WriteFile \/ Written
           \/ JobEnds \/ HkBegin \/ HkCheck \/ HkPrune \/ GameMoves
  BY <1>5, <1>t DEF Ask, CheckStopped, Plan, Load, WriteFile, Written, JobEnds,
     HkBegin, HkCheck, HkPrune, GameMoves
<1>6. ASSUME NEW s, Play(s) \/ GoBad(s) PROVE Stay'
  BY <1>6, <1>t DEF Play, GoBad
<1> QED
  BY <1>1, <1>2, <1>3, <1>4, <1>5, <1>6 DEF Next

----------------------------------------------------------------------------
(* The theorems.                                                           *)

THEOREM Invariant == Spec => []IInv
<1>1. IInv /\ [Next]_vars => IInv'
  <2> SUFFICES ASSUME IInv, [Next]_vars PROVE IInv'
    OBVIOUS
  <2>1. CASE Next
    BY <2>1, TypeStep, KnowsStep, HaltedStep, PastStep, SavedStep, NotedStep,
       StayStep DEF IInv
  <2>2. CASE UNCHANGED vars
    <3> USE <2>2 DEF vars, instance, repository, job, ghosts
    <3>1. TypeOK'
      BY DEF IInv, TypeOK
    <3>2. Knows' /\ Halted' /\ Past' /\ Stay'
      BY DEF IInv, Knows, Halted, Past, Stay
    <3>3. Saved' /\ Noted'
      BY DEF IInv, Saved, Noted, Saves
    <3> QED
      BY <3>1, <3>2, <3>3 DEF IInv
  <2> QED
    BY <2>1, <2>2
<1> QED
  BY InitInv, <1>1, PTL DEF Spec

\* Every variable has its type; a snapshot is in the list or in the trash,
\* never in both.
THEOREM Typed == Spec => []TypeOK
<1>1. IInv => TypeOK
  BY DEF IInv
<1> QED
  BY <1>1, Invariant, PTL

\* Whatever a restore replaced is in the snapshot it took before.
THEOREM NothingIsLost == Spec => []Recoverable
<1>1. IInv => Recoverable
  <2> SUFFICES ASSUME IInv, NEW x \in lost
               PROVE  \/ \E s \in snaps :
                           s.at = x.at /\ s.holds[x.file] = x.content
                      \/ \E s \in taken : s.at = x.at /\ ~s.whole
                      \/ ~Walked(x.file) \/ PreRestore \notin policy.tags
                      \/ x.at \in byHand
    BY DEF Recoverable
  <2>1. PICK s \in taken : /\ s.at = x.at /\ PreRestore \in s.tags
                           /\ Saves(s, x.file, x.content)
    BY DEF IInv, Noted
  <2>2. s \in snaps \/ s.at \in byHand \/ PreRestore \notin policy.tags
    BY <2>1 DEF IInv, Stay
  <2> QED
    BY <2>1, <2>2 DEF Saves
<1> QED
  BY <1>1, Invariant, PTL

----------------------------------------------------------------------------
(* What a restore does, and what retention keeps.                          *)

\* No two snapshots are of the same time.
Alone == \A s, t \in taken : s.at = t.at => s = t

\* A restore that writes is a real one; what it has gone through is as in its
\* snapshot, and it goes through all that is kept.
Doing ==
    /\ pc \in {"load", "write"} => ~req.dry
    /\ pc = "write" => todo \subseteq Kept(Entries(Source), req.ticked)
    /\ pc = "done" /\ ~req.dry => todo = {}
    /\ pc \in {"write", "done"} /\ ~req.dry
       /\ (req.into = "instance" => ~stirred) =>
          \A f \in Kept(Entries(Source), req.ticked) \ Dirs :
             f \in todo \/ Landed(f) = Source.holds[f]

JInv == IInv /\ Alone /\ Doing /\ NothingElse /\ Covered

LEMMA InitJ == Init => JInv
<1> SUFFICES ASSUME Init PROVE JInv
  OBVIOUS
<1>1. IInv
  BY InitInv
<1>2. Alone /\ Doing /\ NothingElse
  BY DEF Init, Alone, Doing, NothingElse
<1>3. Covered
  <2>1. snaps = {} /\ taken = {}
    BY DEF Init
  <2>2. \A b : Latest(b) = {}
    BY <2>1 DEF Latest
  <2> QED
    BY <2>1, <2>2 DEF Covered
<1> QED
  BY <1>1, <1>2, <1>3 DEF JInv

LEMMA AloneStep == JInv /\ Next => Alone'
<1> SUFFICES ASSUME JInv, Next PROVE Alone'
  OBVIOUS
<1>1. IInv /\ Alone /\ Past
  BY DEF JInv, IInv
<1>2. CASE Backup \/ TakePre
  <2>1. TypeOK /\ \E t \in SUBSET {PreRestore} : Snapshot(t)
    BY <1>1, <1>2 DEF IInv, Backup, TakePre
  <2>2. PICK s \in Snaps : s.at = now /\ taken' = taken \cup {s}
    BY <2>1, SnapshotIs
  <2>3. \A t \in taken : t.at # now
    BY <1>1 DEF Past, IInv, TypeOK, Snaps, Times
  <2> QED
    BY <1>1, <2>2, <2>3 DEF Alone
<1>3. CASE ~(Backup \/ TakePre)
  <2>1. taken' = taken
    BY <1>3 DEF Next, Ask, CheckStopped, Plan, Load, WriteFile, Written,
       JobEnds, HkBegin, HkCheck, HkForget, HkPrune, GameMoves, Forget,
       Unforget, Play, GoBad, ghosts, repository, instance, job
  <2> QED
    BY <1>1, <2>1 DEF Alone
<1> QED
  BY <1>2, <1>3

\* Every snapshot taken is one to decide on.
LEMMA TakenDated ==
    ASSUME JInv
    PROVE  Dated(taken) /\ Dated(snaps) /\ now \in Int /\ Sane(policy)
<1>1. TypeOK /\ Alone /\ now \in Int
  BY DEF JInv, IInv, TypeOK
<1>2. IsFiniteSet(taken)
  <2> DEFINE f == [s \in taken |-> s.at]
  <2>1. f \in Injection(taken, Times)
    <3>1. f \in [taken -> Times]
      BY <1>1 DEF TypeOK, Snaps
    <3>2. \A s, t \in taken : f[s] = f[t] => s = t
      BY <1>1 DEF Alone
    <3> QED
      BY <3>1, <3>2 DEF Injection, IsInjective
  <2>2. IsFiniteSet(Times)
    BY Bounds, FS_Interval DEF Times
  <2> HIDE DEF f
  <2> QED
    BY <2>1, <2>2, FS_Injection
<1>3. \A s \in taken : s.at \in Int
  BY <1>1 DEF TypeOK, Snaps, Times
<1>4. snaps \in SUBSET taken
  BY <1>1 DEF TypeOK
<1>5. IsFiniteSet(snaps)
  BY <1>2, <1>4, FS_Subset
<1>6. Sane(policy)
  BY <1>1, OpsAssumption DEF TypeOK, Sane
<1> QED
  BY <1>1, <1>2, <1>3, <1>4, <1>5, <1>6 DEF Dated, Alone

----------------------------------------------------------------------------
(* A restore, step by step.                                                *)

\* The snapshot restored from is the one asked for, and stays it.
LEMMA SourceSame ==
    ASSUME JInv, Next, pc \in Running, req' = req
    PROVE  Source' = Source
<1>1. /\ Source \in taken /\ Source.at = req.at
      /\ taken \subseteq taken' /\ Alone'
  BY SourceIs, TakenGrows, AloneStep DEF JInv, IInv
<1>2. \A s \in taken' : s.at = req'.at <=> s = Source
  BY <1>1 DEF Alone
<1>3. Source \in taken'
  BY <1>1
<1> QED
  BY <1>2, <1>3 DEF Source

LEMMA AskedIs ==
    ASSUME JInv, pc \in Running, NEW s \in Asked
    PROVE  s = Source
BY SourceIs DEF JInv, IInv, TypeOK, Asked, Alone

\* What one file written changes.
LEMMA WriteFileIs ==
    ASSUME JInv, WriteFile
    PROVE  /\ pc = "write" /\ ~req.dry /\ Source' = Source
           /\ UNCHANGED <<game, pc, req, was, stirred>>
           /\ \E f \in todo :
                 /\ todo' = todo \ {f} /\ f \in Files
                 /\ f \in Kept(Entries(Source), req.ticked)
                 /\ \A g \in Files :
                      /\ live'[g] = IF g = f /\ req.into = "instance"
                                      THEN Source.holds[f] ELSE live[g]
                      /\ scratch'[g] = IF g = f /\ req.into # "instance"
                                         THEN Source.holds[f] ELSE scratch[g]
<1>1. /\ pc = "write" /\ ~req.dry
      /\ UNCHANGED <<game, pc, req, was, stirred>>
  BY DEF WriteFile, JInv, Doing
<1>2. Source' = Source
  <2>1. Next
    BY DEF Next
  <2> QED
    BY <1>1, <2>1, SourceSame DEF Running
<1>3. /\ live \in [Files -> Contents] /\ scratch \in [Files -> Contents]
      /\ todo \subseteq Files
      /\ todo \subseteq Kept(Entries(Source), req.ticked)
  BY <1>1 DEF JInv, IInv, TypeOK, Content, Knows, Doing
<1>4. PICK f \in todo :
        /\ todo' = todo \ {f}
        /\ IF req.into = "instance"
             THEN live' = [live EXCEPT ![f] = Source.holds[f]]
                  /\ UNCHANGED scratch
             ELSE scratch' = [scratch EXCEPT ![f] = Source.holds[f]]
                  /\ UNCHANGED live
  BY DEF WriteFile
<1>5. \A g \in Files :
        /\ live'[g] = IF g = f /\ req.into = "instance"
                        THEN Source.holds[f] ELSE live[g]
        /\ scratch'[g] = IF g = f /\ req.into # "instance"
                           THEN Source.holds[f] ELSE scratch[g]
  BY <1>3, <1>4
<1> QED
  BY <1>1, <1>2, <1>3, <1>4, <1>5

\* Steps that are not the restore's, nor the end of it.
LEMMA AsideIs ==
    ASSUME IInv, NEW s, Forget(s) \/ Unforget(s) \/ Play(s) \/ GoBad(s)
    PROVE  /\ UNCHANGED <<game, pc, req, was, stirred, todo, scratch>>
           /\ live' = live \/ game # "stopped"
BY DEF Forget, Unforget, Play, GoBad, job, ghosts

LEMMA DoingStep == JInv /\ Next => Doing'
<1> SUFFICES ASSUME JInv, Next PROVE Doing'
  OBVIOUS
<1> USE DEF instance, repository, job, ghosts
<1>d. Doing /\ IInv /\ Knows /\ Halted
  BY DEF JInv, IInv
<1>1. CASE pc' \notin {"load", "write", "done"}
  BY <1>1 DEF Doing
<1>2. CASE Plan
  <2>1. pc' = (IF req.dry THEN "done" ELSE "load") /\ req' = req
    BY <1>2 DEF Plan
  <2> QED
    BY <2>1 DEF Doing
<1>3. CASE Load
  <2>1. pc = "load" /\ pc' = "write" /\ req' = req
    BY <1>3 DEF Load
  <2>2. Source' = Source
    BY <2>1, SourceSame DEF Running
  <2>3. todo' = Kept(Entries(Source), req.ticked) \ Dirs
    BY <1>3, <2>1, AskedIs DEF Load, Running
  <2>4. ~req.dry
    BY <1>d, <2>1 DEF Doing
  <2> QED
    BY <2>1, <2>2, <2>3, <2>4 DEF Doing
<1>4. CASE WriteFile
  <2>1. /\ pc = "write" /\ ~req.dry /\ Source' = Source
        /\ UNCHANGED <<pc, req, stirred>>
    BY <1>4, WriteFileIs
  <2>2. PICK f \in todo :
          /\ todo' = todo \ {f} /\ f \in Files
          /\ \A g \in Files :
               /\ live'[g] = IF g = f /\ req.into = "instance"
                               THEN Source.holds[f] ELSE live[g]
               /\ scratch'[g] = IF g = f /\ req.into # "instance"
                                  THEN Source.holds[f] ELSE scratch[g]
    BY <1>4, WriteFileIs
  <2>3. Kept(Entries(Source), req.ticked) \ Dirs \subseteq Files
    <3>1. Kept(Entries(Source), req.ticked) \subseteq Entries(Source)
      BY DEF Kept
    <3> QED
      BY <3>1 DEF Entries
  <2>4. \A g \in Files : g # f => Landed(g)' = Landed(g)
    BY <2>1, <2>2 DEF Landed
  <2>5. Landed(f)' = Source.holds[f]
    BY <2>1, <2>2 DEF Landed
  <2>6. todo \subseteq Kept(Entries(Source), req.ticked)
        /\ ((req.into = "instance" => ~stirred) =>
               \A g \in Kept(Entries(Source), req.ticked) \ Dirs :
                  g \in todo \/ Landed(g) = Source.holds[g])
    BY <1>d, <2>1 DEF Doing
  <2> QED
    BY <2>1, <2>2, <2>3, <2>4, <2>5, <2>6 DEF Doing
<1>5. CASE Written
  <2>1. /\ pc = "write" /\ pc' = "done" /\ todo = {}
        /\ UNCHANGED <<live, scratch, req, stirred, todo>>
    BY <1>5 DEF Written
  <2>2. Source' = Source
    BY <2>1, SourceSame DEF Running
  <2> QED
    BY <1>d, <2>1, <2>2 DEF Doing, Landed
<1>6. CASE GameMoves
  <2>1. UNCHANGED <<live, scratch, pc, req, todo>>
        /\ stirred' = (stirred \/ req # NoReq)
    BY <1>6 DEF GameMoves
  <2>2. CASE pc \in Running
    <3>1. Source' = Source
      BY <2>1, <2>2, SourceSame
    <3> QED
      BY <1>d, <2>1, <3>1 DEF Doing, Landed
  <2>3. CASE pc \notin Running
    BY <2>1, <2>3 DEF Doing, Running
  <2> QED
    BY <2>2, <2>3
<1>7. ASSUME NEW s, Forget(s) \/ Unforget(s) \/ Play(s) \/ GoBad(s),
             pc' \in {"load", "write", "done"}
      PROVE  Doing'
  <2>1. /\ UNCHANGED <<pc, req, stirred, todo, scratch>>
        /\ live' = live \/ game # "stopped"
    BY <1>d, <1>7, AsideIs
  <2>2. pc \in Running
    BY <1>7, <2>1 DEF Running
  <2>3. Source' = Source
    BY <2>1, <2>2, SourceSame
  <2>4. req.into = "instance" /\ ~stirred => live' = live
    BY <1>d, <2>1, <2>2 DEF Halted
  <2>5. (req.into = "instance" => ~stirred) =>
          \A f : Landed(f)' = Landed(f)
    BY <2>1, <2>4 DEF Landed
  <2> QED
    BY <1>d, <2>1, <2>3, <2>5 DEF Doing
<1>8. CASE Backup \/ Ask \/ CheckStopped \/ TakePre \/ JobEnds \/ HkBegin
           \/ HkCheck \/ HkForget \/ HkPrune
  <2>1. pc' \notin {"load", "write", "done"}
    BY <1>8 DEF Backup, Ask, CheckStopped, TakePre, JobEnds, Over, HkBegin,
       HkCheck, HkForget, HkPrune
  <2> QED
    BY <1>1, <2>1
<1> QED
  BY <1>1, <1>2, <1>3, <1>4, <1>5, <1>6, <1>7, <1>8 DEF Next

LEMMA NothingElseStep == JInv /\ Next => NothingElse'
<1> DEFINE Fine(f) ==
             \/ live[f] = was[f]
             \/ /\ pc \in {"write", "done"} /\ ~req.dry
                /\ req.into = "instance"
                /\ live[f] = Source.holds[f]
                /\ f \in Meant(Entries(Source), req.ticked)
<1> SUFFICES ASSUME JInv, Next, pc' \in Running, ~stirred', game' = "stopped",
                    NEW f \in Files
             PROVE  Fine(f)'
  BY DEF NothingElse, Running
<1> USE DEF instance, repository, job, ghosts
<1>i. IInv /\ Knows
  BY DEF JInv, IInv
<1>p. pc \in Running /\ ~stirred /\ game = "stopped" => Fine(f)
  BY DEF JInv, NothingElse, Running
<1>1. CASE CheckStopped
  BY <1>1 DEF CheckStopped
<1>2. CASE TakePre \/ Plan \/ Load
  <2>1. pc \in {"pre", "plan", "load"}
        /\ UNCHANGED <<game, live, was, stirred>>
    BY <1>2 DEF TakePre, Plan, Load
  <2>2. live[f] = was[f]
    BY <1>p, <2>1 DEF Running
  <2> QED
    BY <2>1, <2>2
<1>3. CASE WriteFile
  <2>1. /\ pc = "write" /\ ~req.dry /\ Source' = Source
        /\ UNCHANGED <<game, pc, req, was, stirred>>
    BY <1>3, WriteFileIs
  <2>2. PICK g \in todo :
          /\ g \in Kept(Entries(Source), req.ticked)
          /\ live'[f] = IF f = g /\ req.into = "instance"
                          THEN Source.holds[g] ELSE live[f]
    BY <1>3, WriteFileIs
  <2>3. Fine(f)
    BY <1>p, <2>1 DEF Running
  <2>4. CASE f = g /\ req.into = "instance"
    <3>1. f \in Meant(Entries(Source), req.ticked)
      BY <2>2, <2>4, KeptIsMeant
    <3> QED
      BY <2>1, <2>2, <2>4, <3>1
  <2>5. CASE ~(f = g /\ req.into = "instance")
    BY <2>1, <2>2, <2>3, <2>5
  <2> QED
    BY <2>4, <2>5
<1>4. CASE Written
  <2>1. /\ pc = "write" /\ pc' = "done"
        /\ UNCHANGED <<game, live, was, stirred, req>>
    BY <1>4 DEF Written
  <2>2. Source' = Source
    BY <2>1, SourceSame DEF Running
  <2> QED
    BY <1>p, <2>1, <2>2 DEF Running
<1>5. CASE GameMoves
  <2>1. pc' = pc /\ stirred' = (stirred \/ req # NoReq)
    BY <1>5 DEF GameMoves
  <2>2. req # NoReq
    BY <1>i, <2>1 DEF Knows
  <2> QED
    BY <2>1, <2>2
<1>6. ASSUME NEW s, Forget(s) \/ Unforget(s) \/ Play(s) \/ GoBad(s)
      PROVE  Fine(f)'
  <2>1. UNCHANGED <<game, pc, req, was, stirred>>
        /\ live' = live
    BY <1>i, <1>6, AsideIs
  <2>2. Source' = Source
    BY <2>1, SourceSame
  <2> QED
    BY <1>p, <2>1, <2>2
<1>7. CASE Backup \/ Ask \/ JobEnds \/ HkBegin \/ HkCheck \/ HkForget
           \/ HkPrune
  BY <1>7 DEF Backup, Ask, JobEnds, Over, HkBegin, HkCheck, HkForget, HkPrune,
     Running
<1> QED
  BY <1>1, <1>2, <1>3, <1>4, <1>5, <1>6, <1>7 DEF Next

----------------------------------------------------------------------------
(* What retention keeps over all passes.                                   *)

\* Older is never in a later bucket.
LEMMA InOrder ==
    ASSUME NEW x \in Int, NEW y \in Int, NEW n \in Nat \ {0}, x <= y
    PROVE  x \div n \in Int /\ y \div n \in Int /\ x \div n <= y \div n
<1>1. /\ x \div n \in Int /\ y \div n \in Int
      /\ n * (x \div n) <= x /\ y < n * (y \div n + 1)
  OBVIOUS
<1>2. n * (x \div n) < n * (y \div n + 1)
  BY <1>1
<1>3. x \div n < y \div n + 1
  BY <1>1, <1>2
<1> QED
  BY <1>1, <1>3

\* Of a bucket there is the newest.
LEMMA NewestOf ==
    ASSUME NEW S, Dated(S), S # {}
    PROVE  \E s \in S : Newer(s, S) = {}
<1> DEFINE q == NewestFirst(S)
           n == Cardinality(S)
<1> HIDE DEF q
<1>1. /\ n \in Nat /\ \A s \in S : \E i \in 1..n : q[i] = s
      /\ \A i \in 1..n : Newer(q[i], S) = {q[j] : j \in 1..(i - 1)}
      /\ q \in [1..n -> S]
  BY Ordered DEF q
<1> HIDE DEF n
<1>2. 1 \in 1..n
  BY <1>1
<1>3. Newer(q[1], S) = {} /\ q[1] \in S
  BY <1>1, <1>2
<1> QED
  BY <1>3

\* The newest of a bucket that is one of the latest is wanted.
LEMMA LatestIsKept ==
    ASSUME JInv, NEW b \in policy.buckets, NEW k \in Latest(b),
           NEW s \in snaps, Bucket(s, b) = k
    PROVE  \E h \in ShouldKeep(policy, snaps, now) : Bucket(h, b) = k
<1> DEFINE T == {t \in snaps : Bucket(t, b) = k}
           L == {t \in taken : Bucket(t, b) > k}
<1>1. /\ Dated(taken) /\ Dated(snaps) /\ now \in Int
      /\ b.size \in Nat \ {0} /\ b.count \in Int /\ snaps \subseteq taken
  BY TakenDated DEF Sane, JInv, IInv, TypeOK
<1>2. Dated(T)
  <2>1. T \in SUBSET snaps
    OBVIOUS
  <2> HIDE DEF T
  <2> QED
    BY <1>1, <2>1, FS_Subset DEF Dated
<1>3. PICK h \in T : Newer(h, T) = {}
  <2>1. T # {}
    OBVIOUS
  <2> HIDE DEF T
  <2> QED
    BY <1>2, <2>1, NewestOf
<1>4. h \in snaps /\ Bucket(h, b) = k
  OBVIOUS
<1>5. ASSUME NEW t \in Newer(h, snaps) PROVE t \in L
  <2>1. t \in snaps /\ t.at > h.at /\ h.at \in Int /\ t.at \in Int
    BY <1>1, <1>4 DEF Newer, Dated
  <2>2. Bucket(t, b) # k
    BY <1>3, <2>1 DEF Newer
  <2>3. k <= Bucket(t, b) /\ Bucket(t, b) \in Int /\ k \in Int
    BY <1>1, <1>4, <2>1, InOrder DEF Bucket
  <2> QED
    BY <1>1, <2>1, <2>2, <2>3
<1>6. \A t \in Newer(h, snaps) : t.at \div b.size # h.at \div b.size
  <2> SUFFICES ASSUME NEW t \in Newer(h, snaps) PROVE Bucket(t, b) # k
    BY <1>4 DEF Bucket
  <2>1. t \in snaps /\ t.at > h.at
    BY DEF Newer
  <2> QED
    BY <1>3, <2>1 DEF Newer
<1>7. Cardinality(BucketsOf(L, b.size)) < b.count
  <2>1. Cardinality({Bucket(t, b) : t \in L}) < b.count
    BY DEF Latest
  <2> HIDE DEF L
  <2> QED
    BY <2>1 DEF Bucket, BucketsOf
<1>8. /\ Cardinality(BucketsOf(Newer(h, snaps), b.size))
           <= Cardinality(BucketsOf(L, b.size))
      /\ Cardinality(BucketsOf(Newer(h, snaps), b.size)) \in Nat
      /\ Cardinality(BucketsOf(L, b.size)) \in Nat
  <2>1. L \in SUBSET taken
    OBVIOUS
  <2>2. Newer(h, snaps) \in SUBSET L
    BY <1>5
  <2> HIDE DEF L
  <2>3. IsFiniteSet(L)
    BY <1>1, <2>1, FS_Subset DEF Dated
  <2> QED
    BY <2>2, <2>3, BucketsAre
<1>9. HeadsBucket(h, snaps, b)
  <2>1. Cardinality(BucketsOf(Newer(h, snaps), b.size)) < b.count
    BY <1>1, <1>7, <1>8
  <2> QED
    BY <1>6, <2>1 DEF HeadsBucket, BucketsOf
<1> QED
  BY <1>4, <1>9 DEF ShouldKeep, SomeRuleWants

\* If anything goes the floor is reached by what stays.
LEMMA FloorIsKept ==
    ASSUME NEW S, Dated(S), NEW p, Sane(p), NEW t,
           ShouldKeep(p, S, t) # S
    PROVE  /\ IsFiniteSet(ShouldKeep(p, S, t))
           /\ Cardinality(ShouldKeep(p, S, t)) >= p.floor
<1> DEFINE K == ShouldKeep(p, S, t)
           D == S \ K
<1>1. /\ K \in SUBSET S
      /\ \A s \in S : s \in K <=> \/ SomeRuleWants(s, p, S, t)
                                  \/ FloorWants(s, p, S, t)
  BY DEF ShouldKeep
<1>2. D \in SUBSET S /\ D # {}
  BY <1>1
<1> HIDE DEF K
<1>3. Dated(D)
  <2> HIDE DEF D
  <2> QED
    BY <1>2, FS_Subset DEF Dated
<1>4. PICK s \in D : Newer(s, D) = {}
  <2> HIDE DEF D
  <2> QED
    BY <1>2, <1>3, NewestOf
<1>5. AtLeast(s, p, S, t) \in SUBSET K
  <2> SUFFICES ASSUME NEW u \in S, u.at > s.at \/ SomeRuleWants(u, p, S, t)
               PROVE  u \in K
    BY DEF AtLeast
  <2> QED
    BY <1>1, <1>4 DEF Newer
<1>6. ~(Cardinality(AtLeast(s, p, S, t)) < p.floor)
  BY <1>1, <1>4 DEF FloorWants, AtLeast
<1>7. IsFiniteSet(K)
  BY <1>1, FS_Subset DEF Dated
<1>8. /\ IsFiniteSet(AtLeast(s, p, S, t))
      /\ Cardinality(AtLeast(s, p, S, t)) <= Cardinality(K)
  BY <1>5, <1>7, FS_Subset
<1>9. Cardinality(AtLeast(s, p, S, t)) \in Nat /\ Cardinality(K) \in Nat
  BY <1>7, <1>8, FS_CardinalityType
<1>10. p.floor \in Int
  BY DEF Sane
<1>11. Cardinality(K) >= p.floor
  BY <1>6, <1>8, <1>9, <1>10
<1> QED
  BY <1>7, <1>11 DEF K

\* What is there or was forgotten by hand.
There == snaps \cup {s \in taken : s.at \in byHand}
InBucket(b, k) == \E s \in There : Bucket(s, b) = k

LEMMA CoveredIs ==
    Covered <=>
        /\ \A b \in policy.buckets : \A k \in Latest(b) : InBucket(b, k)
        /\ Cardinality(There) >= policy.floor \/ There = taken
BY DEF Covered, There, InBucket

LEMMA TakenDatedNext == ASSUME JInv, Next PROVE Dated(taken')
<1>1. \E s : taken' = taken \cup {s} \/ taken' = taken
  <2>1. CASE Backup \/ TakePre
    <3>1. TypeOK /\ \E t \in SUBSET {PreRestore} : Snapshot(t)
      BY <2>1 DEF Backup, TakePre, JInv, IInv
    <3> QED
      BY <3>1, SnapshotIs
  <2>2. CASE ~(Backup \/ TakePre)
    BY <2>2 DEF Next, Ask, CheckStopped, Plan, Load, WriteFile, Written,
       JobEnds, HkBegin, HkCheck, HkForget, HkPrune, GameMoves, Forget,
       Unforget, Play, GoBad, ghosts, repository, instance, job
  <2> QED
    BY <2>1, <2>2
<1>2. IsFiniteSet(taken')
  BY <1>1, TakenDated, FS_AddElement DEF Dated
<1>3. TypeOK'
  BY TypeStep DEF JInv
<1>4. \A s \in taken' : s.at \in Int
  BY <1>3 DEF TypeOK, Snaps, Times
<1> QED
  BY <1>2, <1>4, AloneStep DEF Dated, Alone

\* More of what was taken, less of what is latest.
LEMMA LatestShrinks ==
    ASSUME JInv, Next, NEW b \in policy.buckets, NEW k \in Latest(b)'
    PROVE  k \in Latest(b) \/ \E s \in taken' \ taken : Bucket(s, b) = k
<1> DEFINE L == {t \in taken : Bucket(t, b) > k}
           M == {t \in taken' : Bucket(t, b) > k}
<1>1. PICK s \in taken' : Bucket(s, b) = k
  BY DEF Latest
<1>2. SUFFICES ASSUME s \in taken PROVE k \in Latest(b)
  BY <1>1
<1>3. Dated(taken') /\ b.count \in Int
  BY TakenDatedNext, TakenDated DEF Sane
<1>4. Cardinality(BucketsOf(M, b.size)) < b.count
  <2>1. Cardinality({Bucket(t, b) : t \in M}) < b.count
    BY DEF Latest
  <2> HIDE DEF M
  <2> QED
    BY <2>1 DEF Bucket, BucketsOf
<1>5. /\ Cardinality(BucketsOf(L, b.size)) <= Cardinality(BucketsOf(M, b.size))
      /\ Cardinality(BucketsOf(L, b.size)) \in Nat
      /\ Cardinality(BucketsOf(M, b.size)) \in Nat
  <2>1. M \in SUBSET taken' /\ L \in SUBSET M
    BY TakenGrows DEF JInv
  <2> HIDE DEF L, M
  <2>2. IsFiniteSet(M)
    BY <1>3, <2>1, FS_Subset DEF Dated
  <2> QED
    BY <2>1, <2>2, BucketsAre
<1>6. Cardinality(BucketsOf(L, b.size)) < b.count
  BY <1>3, <1>4, <1>5
<1>7. Cardinality({Bucket(t, b) : t \in L}) < b.count
  <2> HIDE DEF L
  <2> QED
    BY <1>6 DEF Bucket, BucketsOf
<1> QED
  BY <1>1, <1>2, <1>7 DEF Latest

LEMMA CoveredStep == JInv /\ Next => Covered'
<1> SUFFICES ASSUME JInv, Next PROVE Covered'
  OBVIOUS
<1> USE DEF instance, repository, job, ghosts
<1>c. /\ \A b \in policy.buckets : \A k \in Latest(b) : InBucket(b, k)
      /\ Cardinality(There) >= policy.floor \/ There = taken
  BY CoveredIs DEF JInv
<1>t. /\ TypeOK /\ TypeOK' /\ taken \subseteq taken'
      /\ Dated(taken) /\ Dated(snaps) /\ Sane(policy) /\ now \in Int
  BY TypeStep, TakenGrows, TakenDated DEF JInv, IInv
<1>f. IsFiniteSet(taken') /\ There \in SUBSET taken /\ There' \in SUBSET taken'
  BY <1>t, TakenDatedNext DEF Dated, There, TypeOK
\* Nothing goes but what is forgotten by hand.
<1>1. ASSUME There \subseteq There', taken' \ taken \subseteq There',
             policy' = policy
      PROVE  Covered'
  <2>1. ASSUME NEW b \in policy.buckets, NEW k \in Latest(b)'
        PROVE  InBucket(b, k)'
    <3>1. CASE k \in Latest(b)
      <4>1. PICK s \in There : Bucket(s, b) = k
        BY <1>c, <3>1 DEF InBucket
      <4> QED
        BY <1>1, <4>1 DEF InBucket, Bucket
    <3>2. CASE \E s \in taken' \ taken : Bucket(s, b) = k
      BY <1>1, <3>2 DEF InBucket, Bucket
    <3> QED
      BY <2>1, <3>1, <3>2, LatestShrinks
  <2>2. Cardinality(There') >= policy.floor \/ There' = taken'
    <3>1. CASE There = taken
      BY <1>1, <1>f, <3>1
    <3>2. CASE Cardinality(There) >= policy.floor
      <4>1. IsFiniteSet(There')
        BY <1>f, FS_Subset
      <4>2. IsFiniteSet(There) /\ Cardinality(There) <= Cardinality(There')
        BY <1>1, <4>1, FS_Subset
      <4>3. Cardinality(There) \in Nat /\ Cardinality(There') \in Nat
            /\ policy.floor \in Int
        BY <1>t, <4>1, <4>2, FS_CardinalityType DEF Sane
      <4>4. Cardinality(There') >= policy.floor
        BY <3>2, <4>2, <4>3
      <4> QED
        BY <4>4
    <3> QED
      BY <1>c, <3>1, <3>2
  <2>3. /\ \A b \in policy'.buckets : \A k \in Latest(b)' : InBucket(b, k)'
        /\ Cardinality(There') >= policy'.floor \/ There' = taken'
    BY <1>1, <2>1, <2>2
  <2> QED
    BY <2>3 DEF Covered, There, InBucket
<1>2. CASE Backup \/ TakePre
  <2>1. \E t \in SUBSET {PreRestore} : Snapshot(t)
    BY <1>2 DEF Backup, TakePre
  <2>2. \E s : snaps' = snaps \cup {s} /\ taken' = taken \cup {s}
    BY <1>t, <2>1, SnapshotIs
  <2>3. UNCHANGED <<byHand, policy>>
    BY <1>2 DEF Backup, TakePre
  <2>4. There \subseteq There' /\ taken' \ taken \subseteq There'
    BY <2>2, <2>3 DEF There
  <2> QED
    BY <1>1, <2>3, <2>4
<1>3. CASE HkForget
  <2>1. snaps' = ShouldKeep(policy, snaps, now)
        /\ UNCHANGED <<taken, byHand, policy>>
    BY <1>3, <1>t, ApplyIs DEF HkForget
  <2>2. ASSUME NEW b \in policy.buckets, NEW k \in Latest(b)
        PROVE  InBucket(b, k)'
    <3>1. PICK s \in There : Bucket(s, b) = k
      BY <1>c DEF InBucket
    <3>2. CASE s \in snaps
      <4>1. \E h \in snaps' : Bucket(h, b) = k
        BY <2>1, <3>1, <3>2, LatestIsKept
      <4> QED
        BY <4>1 DEF InBucket, There, Bucket
    <3>3. CASE s \notin snaps
      BY <2>1, <3>1, <3>3 DEF InBucket, There, Bucket
    <3> QED
      BY <3>2, <3>3
  <2>3. Cardinality(There') >= policy.floor \/ There' = taken'
    <3>1. CASE snaps' = snaps
      BY <1>c, <2>1, <3>1 DEF There
    <3>2. CASE snaps' # snaps
      <4>1. IsFiniteSet(snaps') /\ Cardinality(snaps') >= policy.floor
        BY <1>t, <2>1, <3>2, FloorIsKept
      <4>2. IsFiniteSet(There') /\ snaps' \in SUBSET There'
        BY <1>f, FS_Subset DEF There
      <4>3. Cardinality(snaps') <= Cardinality(There')
        BY <4>2, FS_Subset
      <4>4. Cardinality(snaps') \in Nat /\ Cardinality(There') \in Nat
            /\ policy.floor \in Int
        BY <1>t, <4>1, <4>2, FS_CardinalityType DEF Sane
      <4>5. Cardinality(There') >= policy.floor
        BY <4>1, <4>3, <4>4
      <4> QED
        BY <4>5
    <3> QED
      BY <3>1, <3>2
  <2>4. \A b : Latest(b)' = Latest(b)
    BY <2>1 DEF Latest, Bucket
  <2>5. /\ \A b \in policy'.buckets : \A k \in Latest(b)' : InBucket(b, k)'
        /\ Cardinality(There') >= policy'.floor \/ There' = taken'
    BY <2>1, <2>2, <2>3, <2>4
  <2> QED
    BY <2>5 DEF Covered, There, InBucket
<1>4. ASSUME NEW s \in taken, Forget(s) PROVE Covered'
  <2>1. /\ UNCHANGED <<taken, policy>> /\ s.at \in byHand'
        /\ snaps' = snaps \ {s} /\ byHand \subseteq byHand'
    BY <1>4 DEF Forget
  <2>2. There \subseteq There' /\ taken' \ taken \subseteq There'
    BY <2>1, <1>t DEF There
  <2> QED
    BY <1>1, <2>1, <2>2
<1>5. ASSUME NEW s \in taken, Unforget(s) PROVE Covered'
  <2>1. UNCHANGED <<taken, policy, byHand>> /\ snaps' = snaps \cup {s}
    BY <1>5 DEF Unforget
  <2>2. There \subseteq There' /\ taken' \ taken \subseteq There'
    BY <2>1 DEF There
  <2> QED
    BY <1>1, <2>1, <2>2
<1>6. CASE Ask \/ CheckStopped \/ Plan \/ Load \/ WriteFile \/ Written
           \/ JobEnds \/ HkBegin \/ HkCheck \/ HkPrune \/ GameMoves
  <2>1. UNCHANGED <<snaps, taken, byHand, policy>>
    BY <1>6 DEF Ask, CheckStopped, Plan, Load, WriteFile, Written, JobEnds,
       HkBegin, HkCheck, HkPrune, GameMoves
  <2> QED
    BY <1>1, <2>1 DEF There
<1>7. ASSUME NEW s, Play(s) \/ GoBad(s) PROVE Covered'
  <2>1. UNCHANGED <<snaps, taken, byHand, policy>>
    BY <1>7 DEF Play, GoBad
  <2> QED
    BY <1>1, <2>1 DEF There
<1> QED
  BY <1>2, <1>3, <1>4, <1>5, <1>6, <1>7 DEF Next

----------------------------------------------------------------------------
(* Their theorems.                                                         *)

THEOREM InvariantJ == Spec => []JInv
<1>1. JInv /\ [Next]_vars => JInv'
  <2> SUFFICES ASSUME JInv, [Next]_vars PROVE JInv'
    OBVIOUS
  <2>1. CASE Next
    <3>1. IInv'
      BY <2>1, TypeStep, KnowsStep, HaltedStep, PastStep, SavedStep,
         NotedStep, StayStep DEF IInv, JInv
    <3> QED
      BY <2>1, <3>1, AloneStep, DoingStep, NothingElseStep, CoveredStep
         DEF JInv
  <2>2. CASE UNCHANGED vars
    <3> USE <2>2 DEF vars, instance, repository, job, ghosts
    <3>1. IInv'
      BY DEF JInv, IInv, TypeOK, Knows, Halted, Past, Stay, Saved, Noted,
         Saves
    <3>2. Alone' /\ Doing' /\ NothingElse'
      BY DEF JInv, Alone, Doing, NothingElse, Source, Landed
    <3>3. Covered'
      BY DEF JInv, Covered, Latest, Bucket
    <3> QED
      BY <3>1, <3>2, <3>3 DEF JInv
  <2> QED
    BY <2>1, <2>2
<1> QED
  BY InitJ, <1>1, PTL DEF Spec

\* Whatever a restore did so far, successful or not: a file is as it was, or
\* as in the snapshot and then among those that were asked for.
THEOREM NothingElseHappens == Spec => []NothingElse
<1>1. JInv => NothingElse
  BY DEF JInv
<1> QED
  BY <1>1, InvariantJ, PTL

\* A restore that reports success put back all that was ticked.
THEOREM SuccessIsComplete == Spec => []Restored
<1>1. JInv => Restored
  <2> SUFFICES ASSUME JInv, pc = "done", ~req.dry, ~Muddled(req.ticked),
                      req.into = "instance" => ~stirred
               PROVE  Complete
    BY DEF Restored
  <2>1. \A f \in Kept(Entries(Source), req.ticked) \ Dirs :
          Landed(f) = Source.holds[f]
    BY DEF JInv, Doing
  <2>2. req.ticked \in SUBSET Paths
    BY Bounds DEF JInv, IInv, TypeOK, Reqs
  <2>3. Entries(Source) \in SUBSET Paths
    BY PathsAssumption DEF Entries, Files
  <2>4. Meant(Entries(Source), req.ticked) \ Dirs
          \subseteq Kept(Entries(Source), req.ticked)
    BY <2>2, <2>3, MeantIsKept
  <2> QED
    BY <2>1, <2>4 DEF Complete
<1> QED
  BY <1>1, InvariantJ, PTL

\* Apply, a loop for each rule, keeps exactly what some rule wants or the
\* floor needs, and asked again lets nothing more go.
THEOREM RetentionDecidesRight == Spec => []DecidesRight
<1>1. JInv => DecidesRight
  <2> SUFFICES ASSUME JInv
               PROVE  LET kept == Apply(policy, snaps, now)
                      IN  /\ kept = ShouldKeep(policy, snaps, now)
                          /\ Apply(policy, kept, now) = kept
    BY DEF DecidesRight
  <2>1. Dated(snaps) /\ now \in Int /\ Sane(policy)
    BY TakenDated
  <2> DEFINE kept == ShouldKeep(policy, snaps, now)
  <2>2. Apply(policy, snaps, now) = kept
    BY <2>1, ApplyIs
  <2>3. Dated(kept) /\ ShouldKeep(policy, kept, now) = kept
    BY <2>1, KeepsAgain
  <2> HIDE DEF kept
  <2>4. Apply(policy, kept, now) = kept
    BY <2>1, <2>3, ApplyIs
  <2> QED
    BY <2>2, <2>4 DEF kept
<1> QED
  BY <1>1, InvariantJ, PTL

\* Whatever the passes and their times: each of the latest buckets keeps a
\* snapshot and the floor is never undercut, but by the operator's hand.
THEOREM RetentionCovers == Spec => []Covered
<1>1. JInv => Covered
  BY DEF JInv
<1> QED
  BY <1>1, InvariantJ, PTL

-----------------------------------------------------------------------------
(***************************************************************************)
(* What a backup leaves out, and what the preview says it does.            *)
(***************************************************************************)

\* A bounded set of numbers has a greatest.
LEMMA Greatest ==
    ASSUME NEW n \in Nat, NEW T \in SUBSET (1..n), T # {}
    PROVE  \E l \in T : \A k \in T : k <= l
<1> DEFINE back == {n - k : k \in T}
<1>1. back \in SUBSET Nat /\ back # {}
  <2>1. \A k \in T : n - k \in Nat
    OBVIOUS
  <2>2. PICK k \in T : TRUE
    OBVIOUS
  <2>3. n - k \in back
    OBVIOUS
  <2> QED
    BY <2>1, <2>3
<1>2. PICK b \in back : \A m \in back : b <= m
  <2> HIDE DEF back
  <2> QED
    BY <1>1, Least
<1>3. PICK l \in T : b = n - l
  OBVIOUS
<1>4. ASSUME NEW k \in T PROVE k <= l
  <2>1. b <= n - k
    BY <1>2
  <2> QED
    BY <1>3, <2>1
<1> QED
  BY <1>4

\* The rules of the two lists, and then one for each of AMP's lines.
LEMMA RulesAre ==
    LET mine == BuiltIn \o FromUser
    IN  /\ mine \in Seq(Rules) /\ Len(mine) \in Nat
        /\ DOMAIN mine = 1..Len(mine)
        /\ Len(AMPLines) \in Nat
        /\ DOMAIN ExcludeSet = 1..(Len(mine) + Len(AMPLines))
        /\ \A i \in 1..Len(mine) : ExcludeSet[i] = mine[i]
        /\ \A i \in DOMAIN ExcludeSet : i > Len(mine) =>
              /\ i - Len(mine) \in DOMAIN AMPLines
              /\ ExcludeSet[i].negate = AMPLines[i - Len(mine)].negate
<1> DEFINE mine == BuiltIn \o FromUser
<1>1. mine \in Seq(Rules)
  BY RulesAssumption
<1>2. AMPLines \in Seq(Lines) /\ DOMAIN AMPLines = 1..Len(AMPLines)
      /\ Len(AMPLines) \in Nat
  BY RulesAssumption
<1>3. /\ FromAMP \in Seq(Rules) /\ Len(FromAMP) = Len(AMPLines)
      /\ \A i \in DOMAIN AMPLines : FromAMP[i].negate = AMPLines[i].negate
  <2>1. FromAMP \in [1..Len(AMPLines) -> Rules]
    <3>1. ASSUME NEW i \in DOMAIN AMPLines
          PROVE  FromAMP[i] \in Rules
      <4> DEFINE l == AMPLines[i]
      <4>0. l \in Lines
        BY <1>2
      <4>1. l.negate \in BOOLEAN
        BY <4>0 DEF Lines
      <4>2. FromAMP[i].what \in SUBSET Paths
            /\ FromAMP[i] = [what |-> FromAMP[i].what,
                             negate |-> AMPLines[i].negate]
        BY DEF FromAMP, Beneath
      <4> QED
        BY <4>1, <4>2 DEF Rules
    <3> QED
      BY <1>2, <3>1 DEF FromAMP
  <2>2. FromAMP \in Seq(Rules) /\ Len(FromAMP) = Len(AMPLines)
    <3> HIDE DEF FromAMP
    <3> QED
      BY <1>2, <2>1, SeqDef
  <2> QED
    BY <2>2 DEF FromAMP
<1>4. ExcludeSet = mine \o FromAMP
  BY <1>1, <1>3, RulesAssumption DEF ExcludeSet
<1> HIDE DEF mine
<1>5. /\ Len(mine) \in Nat /\ DOMAIN mine = 1..Len(mine)
      /\ DOMAIN ExcludeSet = 1..(Len(mine) + Len(AMPLines))
      /\ \A i \in 1..Len(mine) : ExcludeSet[i] = mine[i]
  <2> DEFINE theirs == FromAMP
  <2>1. theirs \in Seq(Rules) /\ Len(theirs) = Len(AMPLines)
    BY <1>3
  <2> HIDE DEF theirs
  <2>2. Len(mine \o theirs) = Len(mine) + Len(theirs)
        /\ Len(mine) \in Nat /\ DOMAIN mine = 1..Len(mine)
        /\ mine \o theirs \in Seq(Rules)
    BY <1>1, <2>1
  <2>3. DOMAIN (mine \o theirs) = 1..(Len(mine) + Len(AMPLines))
    BY <2>1, <2>2
  <2>4. ASSUME NEW i \in 1..Len(mine) PROVE (mine \o theirs)[i] = mine[i]
    BY <1>1, <2>1, <2>2
  <2>5. ExcludeSet = mine \o theirs
    BY <1>4 DEF theirs
  <2> QED
    BY <2>2, <2>3, <2>4, <2>5
<1>6. ASSUME NEW i \in DOMAIN ExcludeSet, i > Len(mine)
      PROVE  /\ i - Len(mine) \in DOMAIN AMPLines
             /\ ExcludeSet[i] = FromAMP[i - Len(mine)]
  BY <1>1, <1>2, <1>3, <1>4, <1>5, <1>6
<1> QED
  BY <1>1, <1>2, <1>3, <1>5, <1>6 DEF mine

\* As long as no line of AMP's lists begins with "!" in the instance directory,
\* PreviewExclusions never counts as left out what a backup with these rules
\* would store: AMP's rules come last, and can only leave out more.
THEOREM PreviewIsLeftOut ==
    ASSUME \A i \in DOMAIN AMPLines : ~AMPLines[i].negate,
           NEW entries \in SUBSET Paths, NEW p \in Previewed(entries)
    PROVE  ~Walked(p)
<1> DEFINE mine == BuiltIn \o FromUser
           n == Len(mine)
           all == Len(mine) + Len(AMPLines)
<1>1. /\ n \in Nat /\ DOMAIN mine = 1..n /\ all \in Nat
      /\ DOMAIN ExcludeSet = 1..all /\ n <= all
      /\ \A i \in 1..n : ExcludeSet[i] = mine[i]
      /\ \A i \in DOMAIN ExcludeSet : i > n => ~ExcludeSet[i].negate
  BY RulesAre
<1>2. PICK i \in DOMAIN mine :
        /\ p \in mine[i].what /\ ~mine[i].negate
        /\ \A j \in DOMAIN mine : j > i => p \notin mine[j].what
  BY DEF Previewed, Match
<1> HIDE DEF mine, n, all
<1> DEFINE hit == {k \in 1..all : p \in ExcludeSet[k].what}
<1>3. PICK l \in hit : \A k \in hit : k <= l
  <2>1. i \in hit
    BY <1>1, <1>2
  <2> HIDE DEF hit
  <2>2. hit \in SUBSET (1..all) /\ hit # {}
    BY <2>1 DEF hit
  <2> QED
    BY <1>1, <2>2, Greatest
<1>4. ~ExcludeSet[l].negate
  <2>1. CASE l > n
    BY <1>1, <2>1
  <2>2. CASE l <= n
    <3>1. i \in hit /\ i <= l /\ l \in DOMAIN mine
      BY <1>1, <1>2, <1>3, <2>2
    <3>2. p \in mine[l].what
      BY <1>1, <3>1
    <3>3. ~(l > i)
      BY <1>2, <3>1, <3>2
    <3>4. l = i
      BY <1>1, <3>1, <3>3
    <3> QED
      BY <1>1, <1>2, <3>4
  <2> QED
    BY <1>1, <2>1, <2>2
<1>5. Match(ExcludeSet, p)
  <2>1. \A j \in DOMAIN ExcludeSet : j > l => p \notin ExcludeSet[j].what
    BY <1>1, <1>3
  <2> QED
    BY <1>1, <1>3, <1>4, <2>1 DEF Match
<1> QED
  BY <1>5 DEF Walked

\* As long as no rule keeps anything and AMP has no lists, the preview says
\* exactly what a backup leaves out, though it asks for each entry by itself
\* and the walk does not enter a directory it leaves out.  The run
\* Ops_exclusion shows that with a rule that keeps it does not.
THEOREM PreviewIsExact ==
    ASSUME \A r \in ToSet(BuiltIn \o FromUser) : ~r.negate,
           AMPLines = <<>>,
           NEW entries \in SUBSET Paths
    PROVE  Previewed(entries) = {p \in entries : ~Walked(p)}
<1> DEFINE mine == BuiltIn \o FromUser
           n == Len(mine)
<1>1. /\ mine \in Seq(Rules) /\ n \in Nat /\ DOMAIN mine = 1..n
      /\ DOMAIN ExcludeSet = 1..n
      /\ \A i \in 1..n : ExcludeSet[i] = mine[i]
  BY RulesAre
<1>2. \A i \in 1..n : mine[i] \in ToSet(mine)
  BY <1>1 DEF ToSet
<1>3. \A i \in 1..n : mine[i].what = UNION {Beneath(q) : q \in mine[i].what}
  BY <1>2, RulesAssumption
<1> HIDE DEF mine, n
<1>4. SUFFICES ASSUME NEW p \in entries, ~Walked(p)
               PROVE  Match(mine, p)
  BY PreviewIsLeftOut DEF Previewed, mine
<1>5. PICK q \in Above[p] \cup {p} : Match(ExcludeSet, q)
  BY <1>4 DEF Walked
<1>6. PICK i \in 1..n : q \in mine[i].what
  BY <1>1, <1>5 DEF Match
<1>7. p \in mine[i].what
  <2>1. p \in Beneath(q)
    BY <1>5 DEF Beneath
  <2> QED
    BY <1>3, <1>6, <2>1
<1> DEFINE hit == {k \in 1..n : p \in mine[k].what}
<1>8. PICK l \in hit : \A k \in hit : k <= l
  <2>1. hit \in SUBSET (1..n) /\ hit # {}
    BY <1>7
  <2> HIDE DEF hit
  <2> QED
    BY <1>1, <2>1, Greatest
<1>9. ~mine[l].negate
  BY <1>2, <1>8 DEF mine
<1> QED
  BY <1>1, <1>8, <1>9 DEF Match
=============================================================================
