------------------------------ MODULE Web_proofs ------------------------------
(***************************************************************************)
(* Proofs about the other parts of Web: the cached totals, the cache of    *)
(* snapshot trees, the building of a tree and the AMP client, for any      *)
(* number of pages, requests, snapshots, calls and sessions, and for any   *)
(* index.                                                                  *)
(***************************************************************************)
EXTENDS Web, FiniteSetTheorems, SequenceTheorems, TLAPS

----------------------------------------------------------------------------
(* The cached totals: the inductive invariant.                             *)

\* There is one walk at a time, and `loading' says whether there is one.
OneWalk ==
    /\ \A p, q \in paying : p = q
    /\ refreshing => paying = {}
    /\ loading <=> refreshing \/ paying # {}

\* A walk began no earlier than what is there, and nobody was given or is
\* shown more than that.
Ordered ==
    /\ value <= version
    /\ \A r \in given : reply[r] <= value
    /\ \A p \in Pages : shown[p] <= value
    /\ \A r \in paying : value <= since[r] /\ since[r] <= version
    /\ refreshing => value <= begun /\ begun <= version

StatsInv == Stats!TypeOK /\ OneWalk /\ Ordered

----------------------------------------------------------------------------
(* The cache of trees: the inductive invariant.                            *)

\* An entry, and a request's hold on one, is made by a request that came in.
Handed ==
    /\ \A e \in cache : stage[e] # "new"
    /\ \A r \in Requests : slot[r] = r \/ stage[slot[r]] # "new"
    /\ \A r \in Requests : stage[r] # "new" => wants[slot[r]] = wants[r]
    /\ \A r \in Requests : stage[r] = "new" => built[r] = "nothing"

BuiltOnce == \A e \in Requests : built[e] # "nothing" => once[e] = "over"

CacheInv ==
    /\ Cache!TypeOK
    /\ Handed /\ BuiltOnce
    /\ FailureLeaves
    /\ Cache!Bounded

----------------------------------------------------------------------------
(* The building of a tree: the inductive invariant.                        *)

\* Every node is listed once, in its directory, which has a list.
Listed ==
    /\ <<>> \in DOMAIN children /\ <<>> \notin DOMAIN byPath
    /\ DOMAIN byPath \subseteq Seq(Shape!Names)
    /\ IsFiniteSet(DOMAIN byPath)
    /\ \A p \in DOMAIN byPath :
        /\ byPath[p].dir <=> p \in DOMAIN children
        /\ byPath[p].dir <=> p \notin Files
        /\ Shape!parentOf(p) \in DOMAIN children
    /\ \A d \in DOMAIN children :
        /\ children[d] \in Seq(DOMAIN byPath)
        /\ Shape!ToSet(children[d]) =
                {p \in DOMAIN byPath : Shape!parentOf(p) = d}
        /\ Shape!IsInjective(children[d])

\* What is waiting is not in the tree, and has no list there; what of the
\* index is not waiting is in the tree.
Waiting ==
    /\ index \subseteq Files \cup Dirs /\ unread \subseteq index
    /\ unread \cap (DOMAIN byPath \cup DOMAIN children) = {}
    /\ index \ unread \subseteq DOMAIN byPath
    /\ phase \in {"reading", "read", "rolled"}

\* If no two directories in a row are left out, every list is that of the root
\* or of a node, and there is one all the way up.
Linked ==
    Shape!NoneInARow =>
        /\ DOMAIN children \subseteq DOMAIN byPath \cup {<<>>}
        /\ \A p \in DOMAIN byPath : Shape!Above(p) \subseteq DOMAIN children

\* What rollUp counted for a directory is what is below it.
Under(d) == {p \in DOMAIN byPath : ~byPath[p].dir /\ d \in Shape!Above(p)}
Rolled ==
    phase = "rolled" =>
        \A d \in DOMAIN byPath : byPath[d].dir =>
            /\ byPath[d].count = Shape!Cardinality(Under(d))
            /\ byPath[d].bytes = Shape!Sum(Under(d), Sizes)

ShapeInv == Listed /\ Waiting /\ Linked /\ Rolled

----------------------------------------------------------------------------
(* The AMP client: the inductive invariants.                               *)

\* AMP's answer to a call says whether it was carried out, a try begins only
\* when the one before was refused, and the result is what AMP said.
Answered ==
    \A c \in Calls :
        /\ carried[c] = IF wire[c] = "ok" THEN 1 ELSE 0
        /\ pc[c] \notin {"posted", "done"} =>
                wire[c] \in {"none", "unauthorized"}
        /\ pc[c] = "clear" => wire[c] = "unauthorized"
        /\ pc[c] # "done" => result[c] = "none"
        /\ result[c] = "ok" => wire[c] = "ok"
        /\ result[c] = "refused" => wire[c] = "unauthorized"

\* Calls on the daemon's own client, and those of them that are permitted.
Own == Calls \ Borrowed
Meek == Own \ Forbidden

\* A session of AMP's that is of no use any more, or that was thrown away
\* over a call that is not permitted.
Gone(s) == s \in 1..logins /\ s \notin valid \ spoilt

BorrowedInv ==
    \A c \in Calls \cap Borrowed :
        /\ pc[c] \in {"post", "posted", "done"}
        /\ mine[c] = Amp!Panel
        /\ ~retried[c]

OwnInv ==
    \A c \in Own :
        /\ mine[c] \in 0..logins
        /\ pc[c] = "clear" => ~retried[c]
        /\ /\ c \in Meek /\ pc[c] \in {"posted", "clear"}
           /\ wire[c] = "unauthorized"
           => mine[c] \notin valid

\* The session that a login was given, before it is stored.
Fresh(c) ==
    /\ mine[c] \in 1..logins
    /\ mine[c] \notin {session, dropped} \cup spoilt
    /\ \A d \in Calls : mine[c] \notin blamed[d]
    /\ \A d \in Calls \ {c} : mine[d] # mine[c]

SessionsInv ==
    /\ \A c \in Calls : pc[c] = "store" => Fresh(c)
    /\ session # 0 => session # dropped
    /\ dropped # 0 => Gone(dropped)
    /\ \A c \in Calls : blamed[c] \subseteq (0..logins) \cup {Amp!Panel}

Failing(c, b) ==
    IF mine[c] # 0 THEN b = mine[c] ELSE Gone(b) /\ b # session

\* What a permitted call has failed by so far: nothing before the first try,
\* one session, never to be used again, before the second, and then another.
BlamedInv(c) ==
    /\ pc[c] = "reread" /\ session = 0 => dropped \notin {0} \cup blamed[c]
    /\ pc[c] = "post" => mine[c] \notin blamed[c]
    /\ pc[c] = "post" /\ mine[c] = 0 => dropped \notin {0} \cup blamed[c]
    /\ pc[c] \notin {"posted", "clear", "done"} /\ ~retried[c] =>
        blamed[c] = {}
    /\ pc[c] \in {"posted", "clear"} /\ ~retried[c] =>
        \E b \in 0..logins : blamed[c] = {b} /\ Failing(c, b)
    /\ pc[c] \notin {"posted", "clear", "done"} /\ retried[c] =>
        \E a \in 1..logins : blamed[c] = {a} /\ Gone(a) /\ a # session
    /\ pc[c] = "posted" /\ retried[c] =>
        \E a, b \in 1..logins :
            a # b /\ blamed[c] = {a, b} /\ Gone(a) /\ Failing(c, b)
    /\ result[c] = "refused" =>
        \E a, b \in 1..logins :
            a # b /\ blamed[c] = {a, b} /\ Gone(a) /\ Gone(b)

ClientInv ==
    /\ Amp!TypeOK
    /\ BorrowedInv /\ OwnInv /\ SessionsInv
    /\ \A c \in Meek : BlamedInv(c)
----------------------------------------------------------------------------
(* The cached totals.                                                      *)

LEMMA StatsBound ==
    /\ MaxVersion \in Nat \ {0}
    /\ pageOf \in [Polls -> Pages]
BY ConstantsAssumption DEF Stats!TotalsAssumption

LEMMA StatsInit == ASSUME Stats!Init PROVE StatsInv
<1>1. version \in 1..MaxVersion /\ value \in Stats!Versions
  BY StatsBound DEF Stats!Init, Stats!Versions
<1>2. 0 \in Stats!Versions
  BY StatsBound DEF Stats!Versions
<1>3. Stats!TypeOK
  BY <1>1, <1>2 DEF Stats!Init, Stats!TypeOK
<1> QED
  BY <1>3 DEF Stats!Init, StatsInv, OneWalk, Ordered

\* What there is to count, and what comes of a walk.
LEMMA Countable == ASSUME Stats!TypeOK PROVE version \in Stats!Versions
BY StatsBound DEF Stats!TypeOK, Stats!Versions

LEMMA FoundTyped ==
    ASSUME Stats!TypeOK, NEW v \in Stats!Versions,
           Stats!Found(v) \/ UNCHANGED <<value, at>>
    PROVE  /\ value' \in Stats!Versions
           /\ at' \in {"zero", "fresh", "stale"}
BY StatsBound DEF Stats!TypeOK, Stats!Versions, Stats!Found

LEMMA StatsTyped == ASSUME Stats!TypeOK, Stats!Next PROVE Stats!TypeOK'
<1> USE DEF Stats!cacheVars, Stats!walkVars, Stats!pageVars
<1>0. 0 \in Stats!Versions
  BY StatsBound DEF Stats!Versions
<1>1. ASSUME NEW r \in Polls, Stats!Pay(r) PROVE Stats!TypeOK'
  BY <1>1, Countable DEF Stats!TypeOK, Stats!Pay
<1>2. ASSUME NEW r \in Polls, Stats!Serve(r) PROVE Stats!TypeOK'
  <2>1. /\ begun' \in Stats!Versions
        /\ loading' \in BOOLEAN /\ refreshing' \in BOOLEAN
    BY <1>2, Countable DEF Stats!TypeOK, Stats!Serve
  <2>2. given' \subseteq Polls /\ reply' \in [Polls -> Stats!Versions]
    BY <1>2 DEF Stats!TypeOK, Stats!Serve, Stats!Give
  <2> QED
    BY <1>2, <2>1, <2>2 DEF Stats!TypeOK, Stats!Serve
<1>3. ASSUME NEW r \in Polls, Stats!Paid(r) PROVE Stats!TypeOK'
  <2>1. value' \in Stats!Versions /\ at' \in {"zero", "fresh", "stale"}
    BY <1>3, FoundTyped DEF Stats!TypeOK, Stats!Paid
  <2>2. given' \subseteq Polls /\ reply' \in [Polls -> Stats!Versions]
    BY <1>3, <2>1 DEF Stats!TypeOK, Stats!Paid, Stats!Give
  <2> QED
    BY <1>3, <1>0, <2>1, <2>2 DEF Stats!TypeOK, Stats!Paid
<1>4. CASE Stats!Refreshed
  <2>1. value' \in Stats!Versions /\ at' \in {"zero", "fresh", "stale"}
    BY <1>4, FoundTyped DEF Stats!TypeOK, Stats!Refreshed
  <2> QED
    BY <1>4, <1>0, <2>1 DEF Stats!TypeOK, Stats!Refreshed
<1>5. CASE Stats!Changes
  <2>1. version' \in 1..MaxVersion
    BY <1>5, StatsBound DEF Stats!TypeOK, Stats!Changes
  <2> QED
    BY <1>5, <2>1 DEF Stats!TypeOK, Stats!Changes
<1>6. CASE Stats!Ages \/ Stats!invalidate
  BY <1>6 DEF Stats!TypeOK, Stats!Ages, Stats!invalidate
<1>7. ASSUME NEW r \in Polls, Stats!Arrive(r) \/ Stats!Fail(r)
      PROVE  Stats!TypeOK'
  <2>1. given' \subseteq Polls /\ reply' \in [Polls -> Stats!Versions]
    BY <1>7, <1>0 DEF Stats!TypeOK, Stats!Arrive, Stats!Fail, Stats!Over
  <2>2. shown' \in [Pages -> Stats!Versions]
    BY <1>7, StatsBound DEF Stats!TypeOK, Stats!Arrive, Stats!Fail
  <2> QED
    BY <1>7, <2>1, <2>2
       DEF Stats!TypeOK, Stats!Arrive, Stats!Fail, Stats!Over
<1> QED
  BY <1>1, <1>2, <1>3, <1>4, <1>5, <1>6, <1>7 DEF Stats!Next

LEMMA StatsStep == ASSUME StatsInv, Stats!Next PROVE StatsInv'
<1> SUFFICES OneWalk' /\ Ordered'
  BY StatsTyped DEF StatsInv
<1> USE DEF StatsInv, OneWalk, Ordered, Stats!TypeOK, Stats!Versions,
            Stats!cacheVars, Stats!walkVars, Stats!pageVars
<1>1. ASSUME NEW r \in Polls, Stats!Pay(r) PROVE OneWalk' /\ Ordered'
  BY <1>1 DEF Stats!Pay
<1>2. ASSUME NEW r \in Polls, Stats!Serve(r) PROVE OneWalk' /\ Ordered'
  <2>1. \A q \in given' : reply'[q] <= value
    BY <1>2 DEF Stats!Serve, Stats!Give
  <2> QED
    BY <1>2, <2>1 DEF Stats!Serve
<1>3. ASSUME NEW r \in Polls, Stats!Paid(r) PROVE OneWalk' /\ Ordered'
  <2>1. paying = {r} /\ ~refreshing
    BY <1>3 DEF Stats!Paid
  <2>2. value' >= value /\ value' <= version /\ value' \in Nat
    BY <1>3 DEF Stats!Paid, Stats!Found
  <2>3. \A q \in given' : reply'[q] <= value'
    BY <1>3, <2>2 DEF Stats!Paid, Stats!Give
  <2> QED
    BY <1>3, <2>1, <2>2, <2>3 DEF Stats!Paid
<1>4. CASE Stats!Refreshed
  BY <1>4 DEF Stats!Refreshed, Stats!Found
<1>5. CASE Stats!Ages \/ Stats!invalidate
  BY <1>5 DEF Stats!Ages, Stats!invalidate
<1>6. CASE Stats!Changes
  BY <1>6 DEF Stats!Changes
<1>7. ASSUME NEW r \in Polls, Stats!Arrive(r) \/ Stats!Fail(r)
      PROVE  OneWalk' /\ Ordered'
  <2>1. \A q \in given' : q \in given /\ reply'[q] = reply[q]
    BY <1>7 DEF Stats!Arrive, Stats!Fail, Stats!Over
  <2>2. \A p \in Pages : shown'[p] <= value
    BY <1>7 DEF Stats!Arrive, Stats!Fail, Stats!Over
  <2> QED
    BY <1>7, <2>1, <2>2 DEF Stats!Arrive, Stats!Fail, Stats!Over
<1> QED
  BY <1>1, <1>2, <1>3, <1>4, <1>5, <1>6, <1>7 DEF Stats!Next

LEMMA StatsStutters == ASSUME StatsInv, UNCHANGED statsVars PROVE StatsInv'
BY DEF statsVars, StatsInv, Stats!TypeOK, OneWalk, Ordered

LEMMA Counted == Spec => []StatsInv
<1>1. ASSUME StatsInv, [Next]_web PROVE StatsInv'
  BY <1>1, StatsStep, StatsStutters
     DEF Next, Browse, Grow, Count, AskAmp, Edit, web
<1> QED
  BY <1>1, StatsInit, PTL DEF Spec, Init

\* A walk finds nothing older than what is there, and what is given is what
\* there is.
Onward ==
    /\ value' >= value
    /\ \A r \in given' \ given :
         /\ \A q \in given : reply'[r] >= reply[q]
         /\ \A p \in Pages : reply'[r] >= shown[p]

LEMMA Onwards == ASSUME StatsInv, Stats!Next PROVE Onward
<1> USE DEF StatsInv, OneWalk, Ordered, Stats!TypeOK, Stats!Versions, Onward,
            Stats!cacheVars, Stats!walkVars, Stats!pageVars
<1>1. ASSUME NEW r \in Polls, Stats!Paid(r) PROVE Onward
  <2>1. value' >= value /\ value' \in Nat
    BY <1>1 DEF Stats!Paid, Stats!Found
  <2>2. \A s \in given' \ given : reply'[s] = value'
    BY <1>1 DEF Stats!Paid, Stats!Give
  <2> QED
    BY <2>1, <2>2
<1>2. ASSUME NEW r \in Polls, Stats!Serve(r) PROVE Onward
  <2>1. value' = value /\ \A s \in given' \ given : reply'[s] = value
    BY <1>2 DEF Stats!Serve, Stats!Give
  <2> QED
    BY <2>1
<1>3. CASE Stats!Refreshed
  BY <1>3 DEF Stats!Refreshed, Stats!Found
<1>4. CASE value' = value /\ given' \subseteq given
  BY <1>4
<1>5. ASSUME NEW r \in Polls,
             Stats!Pay(r) \/ Stats!Arrive(r) \/ Stats!Fail(r)
      PROVE  value' = value /\ given' \subseteq given
  BY <1>5 DEF Stats!Pay, Stats!Arrive, Stats!Fail, Stats!Over
<1> QED
  BY <1>1, <1>2, <1>3, <1>4, <1>5
     DEF Stats!Next, Stats!Ages, Stats!Changes, Stats!invalidate

\* The cache of the totals does not go back to an older state of the
\* repository, and nobody is given older totals than those given before,
\* whichever walks overlap which changes (statsCache).
THEOREM TotalsGoOn == Spec => NeverBackwards
<1>1. ASSUME StatsInv, [Next]_web PROVE [Onward]_(Stats!vars)
  BY <1>1, Onwards
     DEF Next, Browse, Grow, Count, AskAmp, Edit, web, statsVars, Stats!vars,
         Stats!cacheVars, Stats!walkVars, Stats!pageVars
<1> QED
  BY <1>1, Counted, PTL DEF Spec, NeverBackwards, Stats!NeverBackwards, Onward

----------------------------------------------------------------------------
(* The cache of trees.                                                     *)

\* The operators of FiniteSets, as the parts know them.
LEMMA SameFinite == \A S : Cache!IsFiniteSet(S) <=> IsFiniteSet(S)
BY Zenon DEF Cache!IsFiniteSet, IsFiniteSet

LEMMA SameCount == \A S : Cache!Cardinality(S) = Cardinality(S)
BY Zenon DEF Cache!Cardinality, Cardinality

LEMMA CacheLimit ==
    IsFiniteSet(Requests) /\ Snapshots # {} /\ MaxTrees \in Nat \ {0}
BY ConstantsAssumption, SameFinite DEF Cache!TreesAssumption

LEMMA CacheInit == ASSUME Cache!Init PROVE CacheInv
<1>1. Handed /\ BuiltOnce /\ FailureLeaves
  BY DEF Cache!Init, Handed, BuiltOnce, FailureLeaves, Cache!FailureLeaves
<1>2. Cache!Bounded
  BY FS_EmptySet, CacheLimit, SameCount DEF Cache!Init, Cache!Bounded
<1>3. SUFFICES Cache!TypeOK
  BY <1>1, <1>2 DEF CacheInv
<1>4. (CHOOSE s \in Snapshots : TRUE) \in Snapshots
  BY CacheLimit
<1> QED
  BY <1>4 DEF Cache!Init, Cache!TypeOK, Cache!PCs

LEMMA CacheStutters == ASSUME CacheInv, UNCHANGED cacheVars PROVE CacheInv'
BY DEF cacheVars, CacheInv, Cache!TypeOK, Handed, BuiltOnce, FailureLeaves,
       Cache!FailureLeaves, Cache!Bounded

LEMMA GetKeeps ==
    ASSUME CacheInv, NEW r \in Requests, NEW s \in Snapshots, Cache!Get(r, s)
    PROVE  CacheInv'
<1>1. PICK left \in Cache!Evictions :
        LET hits == {e \in left : wants[e] = s}
        IN  \E e \in (IF hits = {} THEN {r} ELSE hits) :
                /\ slot' = [slot EXCEPT ![r] = e]
                /\ cache' = left \cup {e}
                /\ used' = [used EXCEPT ![e] = now]
  BY DEF Cache!Get
<1>2. PICK e \in Requests :
        /\ \/ e = r /\ \A f \in left : wants[f] # s
           \/ e \in left /\ wants[e] = s
        /\ slot' = [slot EXCEPT ![r] = e]
        /\ cache' = left \cup {e}
        /\ used' = [used EXCEPT ![e] = now]
  BY <1>1 DEF Cache!Evictions, CacheInv, Cache!TypeOK
<1>3. left \subseteq cache /\ Cardinality(left) < MaxTrees
  BY SameCount DEF Cache!Evictions
<1>4. stage[r] = "new" /\ r \notin left
  BY <1>3 DEF Cache!Get, CacheInv, Handed
<1>5. Cache!TypeOK'
  BY <1>2, <1>3 DEF Cache!Get, Cache!Goto, Cache!PCs, CacheInv, Cache!TypeOK
<1>6. /\ stage'[r] = "handed" /\ wants'[r] = s /\ slot'[r] = e
      /\ \A q \in Requests \ {r} : /\ stage'[q] = stage[q]
                                  /\ wants'[q] = wants[q]
                                  /\ slot'[q] = slot[q]
      /\ UNCHANGED <<once, built>>
  BY <1>2 DEF Cache!Get, Cache!Goto, CacheInv, Cache!TypeOK
<1>7. Handed'
  BY <1>2, <1>3, <1>4, <1>6 DEF CacheInv, Handed, Cache!TypeOK
<1>8. BuiltOnce'
  BY <1>6 DEF CacheInv, BuiltOnce
<1>9. FailureLeaves'
  BY <1>2, <1>3, <1>4, <1>6
     DEF CacheInv, FailureLeaves, Cache!FailureLeaves, Cache!TypeOK, Handed
<1>10. Cache!Bounded'
  <2>1. IsFiniteSet(left) /\ MaxTrees \in Nat
    BY <1>3, FS_Subset, CacheLimit DEF CacheInv, Cache!TypeOK
  <2>2. Cardinality(cache') <= MaxTrees
    <3>1. Cardinality(left) \in Nat
      BY <2>1, FS_CardinalityType
    <3>2. CASE e \in left
      <4>1. cache' = left
        BY <1>2, <3>2
      <4> QED
        BY <1>3, <2>1, <3>1, <4>1
    <3>3. CASE e \notin left
      <4>1. Cardinality(left \cup {e}) = Cardinality(left) + 1
        BY <2>1, <3>3, FS_AddElement
      <4> QED
        BY <1>2, <1>3, <2>1, <3>1, <4>1
    <3> QED
      BY <3>2, <3>3
  <2>3. \A d, f \in cache' : wants'[d] = wants'[f] => d = f
    BY <1>2, <1>3, <1>4, <1>6 DEF CacheInv, Cache!Bounded, Cache!TypeOK
  <2> QED
    BY <2>2, <2>3, SameCount DEF Cache!Bounded
<1> QED
  BY <1>5, <1>7, <1>8, <1>9, <1>10 DEF CacheInv

LEMMA BuildingKeeps ==
    ASSUME CacheInv, NEW r \in Requests,
           Cache!Enter(r) \/ Cache!Build(r) \/ Cache!Return(r)
    PROVE  CacheInv'
<1>1. CASE Cache!Enter(r)
  BY <1>1 DEF Cache!Enter, Cache!Goto, Cache!PCs, CacheInv, Cache!TypeOK,
              Handed, BuiltOnce, FailureLeaves, Cache!FailureLeaves,
              Cache!Bounded
<1>2. CASE Cache!Build(r)
  <2>1. PICK outcome \in {"error", "tree"} :
            built' = [built EXCEPT ![slot[r]] = outcome]
    BY <1>2 DEF Cache!Build
  <2> QED
    BY <1>2, <2>1
       DEF Cache!Build, Cache!Goto, Cache!PCs, CacheInv, Cache!TypeOK,
           Handed, BuiltOnce, FailureLeaves, Cache!FailureLeaves,
           Cache!Bounded
<1>3. CASE Cache!Return(r)
  BY <1>3 DEF Cache!Return, Cache!Goto, Cache!PCs, CacheInv, Cache!TypeOK,
              Handed, BuiltOnce, FailureLeaves, Cache!FailureLeaves,
              Cache!Bounded
<1> QED
  BY <1>1, <1>2, <1>3

LEMMA InvalidateKeeps ==
    ASSUME CacheInv, NEW r \in Requests, Cache!Invalidate(r) PROVE CacheInv'
<1>1. cache' \subseteq cache /\ slot[r] \notin cache'
  BY DEF Cache!Invalidate, CacheInv, Handed
<1>2. Cardinality(cache') <= MaxTrees
  <2>1. IsFiniteSet(cache) /\ MaxTrees \in Nat
    BY FS_Subset, CacheLimit DEF CacheInv, Cache!TypeOK
  <2>2. Cardinality(cache) <= MaxTrees
    BY SameCount DEF CacheInv, Cache!Bounded
  <2> QED
    BY <1>1, <2>1, <2>2, FS_Subset, FS_CardinalityType
<1>3. /\ stage[r] = "dropping" /\ stage' = [stage EXCEPT ![r] = "failed"]
      /\ UNCHANGED <<listed, wants, slot, used, now, once, built>>
  BY DEF Cache!Invalidate, Cache!Goto
<1>4. Cache!TypeOK'
  BY <1>1, <1>3 DEF CacheInv, Cache!TypeOK, Cache!PCs
<1>5. Handed' /\ BuiltOnce'
  BY <1>1, <1>3 DEF CacheInv, Cache!TypeOK, Handed, BuiltOnce
<1>6. FailureLeaves'
  BY <1>1, <1>3
     DEF CacheInv, Cache!TypeOK, FailureLeaves, Cache!FailureLeaves
<1>7. Cache!Bounded'
  BY <1>1, <1>2, <1>3, SameCount DEF CacheInv, Cache!Bounded
<1> QED
  BY <1>4, <1>5, <1>6, <1>7 DEF CacheInv

LEMMA CacheStep == ASSUME CacheInv, Cache!Next PROVE CacheInv'
<1>1. ASSUME NEW s \in Snapshots, Cache!Move(s) PROVE CacheInv'
  BY <1>1 DEF Cache!Move, CacheInv, Cache!TypeOK, Handed, BuiltOnce,
              FailureLeaves, Cache!FailureLeaves, Cache!Bounded
<1> QED
  BY <1>1, GetKeeps, BuildingKeeps, InvalidateKeeps DEF Cache!Next

LEMMA Cached == Spec => []CacheInv
<1>1. ASSUME CacheInv, [Next]_web PROVE CacheInv'
  BY <1>1, CacheStep, CacheStutters
     DEF Next, Browse, Grow, Count, Counting, AskAmp, Edit, web
<1> QED
  BY <1>1, CacheInit, PTL DEF Spec, Init

\* A failed build is not kept in the cache: as long as it is there, somebody
\* it was handed to is about to drop it (snaptree.Cache.Get).
THEOREM FailureIsDropped == Spec => []FailureLeaves
<1>1. CacheInv => FailureLeaves
  BY DEF CacheInv
<1> QED
  BY <1>1, Cached, PTL

\* There are never more trees in the cache than it may hold, nor two of one
\* snapshot (evictLocked).
THEOREM CacheIsBounded == Spec => []Cache!Bounded
<1>1. CacheInv => Cache!Bounded
  BY DEF CacheInv
<1> QED
  BY <1>1, Cached, PTL
----------------------------------------------------------------------------
(* The building of a tree.                                                 *)

\* A directory that d lies in is a beginning of d.
LEMMA AboveIs ==
    ASSUME NEW S, NEW p \in Seq(S), NEW a
    PROVE  a \in Shape!Above(p) <=>
             /\ a \in Seq(S) /\ Len(a) < Len(p)
             /\ \A i \in 1..Len(a) : a[i] = p[i]
<1>1. ASSUME NEW n \in 0..(Len(p) - 1)
      PROVE  /\ SubSeq(p, 1, n) \in Seq(S) /\ Len(SubSeq(p, 1, n)) = n
             /\ \A i \in 1..n : SubSeq(p, 1, n)[i] = p[i]
  <2>1. n \in Nat /\ n <= Len(p)
    BY LenProperties
  <2>2. \A i \in 1..n : p[i] \in S
    BY <2>1, LenProperties, ElementOfSeq
  <2>3. SubSeq(p, 1, n) = [i \in 1..n |-> p[i]]
    BY <2>1, LenProperties
  <2>4. [i \in 1..n |-> p[i]] \in [1..n -> S]
    BY <2>2
  <2> QED
    BY <2>1, <2>3, <2>4, SeqDef
<1>2. ASSUME a \in Shape!Above(p)
      PROVE  /\ a \in Seq(S) /\ Len(a) < Len(p)
             /\ \A i \in 1..Len(a) : a[i] = p[i]
  <2>1. PICK n \in 0..(Len(p) - 1) : a = SubSeq(p, 1, n)
    BY <1>2 DEF Shape!Above
  <2> QED
    BY <1>1, <2>1, LenProperties
<1>3. ASSUME a \in Seq(S), Len(a) < Len(p),
             \A i \in 1..Len(a) : a[i] = p[i]
      PROVE  a \in Shape!Above(p)
  <2>1. Len(a) \in 0..(Len(p) - 1)
    BY <1>3, LenProperties
  <2>2. a = SubSeq(p, 1, Len(a))
    BY <1>1, <1>3, <2>1, SeqEqual
  <2> QED
    BY <2>1, <2>2 DEF Shape!Above
<1> QED
  BY <1>2, <1>3

LEMMA ParentIs ==
    ASSUME NEW S, NEW p \in Seq(S), p # <<>>
    PROVE  /\ Shape!parentOf(p) \in Seq(S)
           /\ Len(Shape!parentOf(p)) = Len(p) - 1
           /\ Shape!parentOf(p) \in Shape!Above(p)
           /\ <<>> \in Shape!Above(p)
<1>1. Len(p) \in Nat \ {0}
  BY EmptySeq
<1>2. Shape!parentOf(p) \in Shape!Above(p)
  BY <1>1 DEF Shape!parentOf, Shape!Front, Shape!Above
<1>3. Shape!parentOf(p) \in Seq(S)
  BY <1>2, AboveIs
<1>4. Len(Shape!parentOf(p)) = Len(p) - 1
  <2>1. Shape!parentOf(p) = [i \in 1..(Len(p) - 1) |-> p[i]]
    BY <1>1, LenProperties DEF Shape!parentOf, Shape!Front
  <2> QED
    BY <1>1, <2>1
<1>5. <<>> \in Shape!Above(p)
  <2>1. 0 \in 0..(Len(p) - 1)
    BY <1>1
  <2>2. SubSeq(p, 1, 0) = <<>>
    BY <1>1
  <2> QED
    BY <2>1, <2>2 DEF Shape!Above
<1> QED
  BY <1>2, <1>3, <1>4, <1>5

\* The directories above p are in a chain.
LEMMA Chain ==
    ASSUME NEW S, NEW p \in Seq(S), NEW a \in Shape!Above(p)
    PROVE  /\ Shape!Above(a) \subseteq Shape!Above(p)
           /\ \A b \in Shape!Above(p) : Len(b) < Len(a) => b \in Shape!Above(a)
           /\ \A b \in Shape!Above(p) : Len(b) = Len(a) => b = a
<1>1. a \in Seq(S) /\ Len(a) < Len(p) /\ \A i \in 1..Len(a) : a[i] = p[i]
  BY AboveIs
<1>2. ASSUME NEW b \in Shape!Above(p)
      PROVE  b \in Seq(S) /\ \A i \in 1..Len(b) : b[i] = p[i]
  BY AboveIs
<1>3. ASSUME NEW b \in Shape!Above(a)
      PROVE  b \in Shape!Above(p)
  <2>1. b \in Seq(S) /\ Len(b) < Len(a) /\ \A i \in 1..Len(b) : b[i] = a[i]
    BY <1>1, AboveIs
  <2>2. Len(b) < Len(p) /\ \A i \in 1..Len(b) : b[i] = p[i]
    BY <1>1, <2>1, LenProperties
  <2> QED
    BY <2>1, <2>2, AboveIs
<1>4. ASSUME NEW b \in Shape!Above(p), Len(b) < Len(a)
      PROVE  b \in Shape!Above(a)
  <2>1. \A i \in 1..Len(b) : b[i] = a[i]
    BY <1>1, <1>2, <1>4, LenProperties
  <2> QED
    BY <1>1, <1>2, <1>4, <2>1, AboveIs
<1>5. ASSUME NEW b \in Shape!Above(p), Len(b) = Len(a)
      PROVE  b = a
  BY <1>1, <1>2, <1>5, SeqEqual
<1> QED
  BY <1>3, <1>4, <1>5

\* p lies in its parent and in whatever that lies in.
LEMMA ParentIsLast ==
    ASSUME NEW S, NEW p \in Seq(S), p # <<>>, NEW a \in Shape!Above(p)
    PROVE  a = Shape!parentOf(p) \/ a \in Shape!Above(Shape!parentOf(p))
<1>1. Shape!parentOf(p) \in Shape!Above(p)
      /\ Len(Shape!parentOf(p)) = Len(p) - 1
  BY ParentIs
<1>2. a \in Seq(S) /\ Len(a) < Len(p)
  BY AboveIs
<1>3. Len(a) < Len(Shape!parentOf(p)) \/ Len(a) = Len(Shape!parentOf(p))
  BY <1>1, <1>2, LenProperties
<1> QED
  BY <1>1, <1>3, Chain

Piece(S, into, c) == {x \in S : into[x] = c}

LEMMA SameShapeCount ==
    \A S : /\ Shape!IsFiniteSet(S) <=> IsFiniteSet(S)
           /\ Shape!Cardinality(S) = Cardinality(S)
BY Zenon DEF Shape!IsFiniteSet, IsFiniteSet, Shape!Cardinality, Cardinality

\* What is in the parts is what is in the whole.
LEMMA Parts ==
    ASSUME NEW S, IsFiniteSet(S), NEW C, NEW into \in [S -> C], NEW f,
           \A c \in C : f[c] = Cardinality(Piece(S, into, c))
    PROVE  Shape!Sum(C, f) = Cardinality(S)
<1> DEFINE B == UNION {{c} \X (1..f[c]) : c \in C}
           g == [c \in C |-> CHOOSE h : h \in Bijection(1..f[c],
                                                        Piece(S, into, c))]
           F == [y \in B |-> g[y[1]][y[2]]]
<1>1. ASSUME NEW c \in C
      PROVE  f[c] \in Nat /\ g[c] \in Bijection(1..f[c], Piece(S, into, c))
  <2>1. Piece(S, into, c) \in SUBSET S
    BY DEF Piece
  <2>2. IsFiniteSet(Piece(S, into, c))
    BY <2>1, FS_Subset
  <2>3. f[c] \in Nat /\ ExistsBijection(1..f[c], Piece(S, into, c))
    BY <2>2, FS_CardinalityType
  <2> QED
    BY <2>3, Zenon DEF ExistsBijection
<1>2. \A y : y \in B <=> \E c \in C : \E n \in 1..f[c] : y = <<c, n>>
  OBVIOUS
<1>3. ASSUME NEW c \in C, NEW n \in 1..f[c]
      PROVE  /\ <<c, n>> \in B
             /\ F[<<c, n>>] = g[c][n]
             /\ g[c][n] \in S /\ into[g[c][n]] = c
  <2>1. g[c] \in [1..f[c] -> Piece(S, into, c)]
    BY <1>1 DEF Bijection, Injection
  <2>2. <<c, n>> \in B
    BY <1>2
  <2>3. F[<<c, n>>] = g[c][n]
    BY <2>2
  <2> HIDE DEF g, F, B
  <2> QED
    BY <2>1, <2>2, <2>3 DEF Piece
<1> HIDE DEF g, F
<1>4. F \in [B -> S]
  <2>1. \A y \in B : F[y] \in S
    BY <1>2, <1>3
  <2> QED
    BY <2>1 DEF F
<1>5. ASSUME NEW y \in B, NEW z \in B, F[y] = F[z]
      PROVE  y = z
  <2>1. PICK c \in C : \E n \in 1..f[c] : y = <<c, n>>
    BY <1>2
  <2>2. PICK d \in C : \E m \in 1..f[d] : z = <<d, m>>
    BY <1>2
  <2>3. PICK n \in 1..f[c] : y = <<c, n>>
    BY <2>1
  <2>4. PICK m \in 1..f[d] : z = <<d, m>>
    BY <2>2
  <2>5. c = d /\ g[c][n] = g[d][m]
    BY <1>3, <1>5, <2>3, <2>4
  <2>6. n = m
    BY <1>1, <2>5 DEF Bijection, Injection, IsInjective
  <2> QED
    BY <2>3, <2>4, <2>5, <2>6
<1>6. ASSUME NEW x \in S
      PROVE  \E y \in B : F[y] = x
  <2>1. into[x] \in C /\ x \in Piece(S, into, into[x])
    BY DEF Piece
  <2>2. PICK n \in 1..f[into[x]] : g[into[x]][n] = x
    BY <1>1, <2>1 DEF Bijection, Surjection
  <2>3. <<into[x], n>> \in B /\ F[<<into[x], n>>] = x
    BY <1>3, <2>1, <2>2
  <2> QED
    BY <2>3
<1> HIDE DEF B
<1>7. F \in Injection(B, S) /\ F \in Surjection(B, S)
  BY <1>4, <1>5, <1>6 DEF Injection, Surjection, IsInjective
<1>8. Cardinality(B) = Cardinality(S)
  BY <1>7, FS_Injection
<1> QED
  BY <1>8, SameShapeCount DEF Shape!Sum, B
LEMMA PathsKnown ==
    /\ \A p \in Files \cup Dirs : p \in Seq(Shape!Names) /\ p # <<>>
    /\ \A p \in Files \cup Dirs : Shape!Above(p) \cap Files = {}
    /\ \A p \in Files \cup Dirs : p \in Dirs <=> p \notin Files
    /\ Sizes \in [Files -> Nat]
<1>1. Shape!ShapeAssumption
  BY ConstantsAssumption
<1> QED
  BY <1>1 DEF Shape!ShapeAssumption

LEMMA AboveIsFinite ==
    ASSUME NEW S, NEW p \in Seq(S)
    PROVE  IsFiniteSet(Shape!Above(p))
<1> DEFINE D == 0..(Len(p) - 1)
           f == [n \in D |-> SubSeq(p, 1, n)]
<1>1. Len(p) \in Nat
  BY LenProperties
<1>2. IsFiniteSet(D)
  BY <1>1, FS_Interval
<1>3. f \in Surjection(D, Shape!Above(p))
  BY Zenon DEF Surjection, Shape!Above
<1> QED
  BY <1>2, <1>3, FS_Surjection

LEMMA SetToSeqIs ==
    ASSUME NEW K, \A a, b \in K : a = b
    PROVE  /\ Shape!SetToSeq(K) \in Seq(K)
           /\ Len(Shape!SetToSeq(K)) \in {0, 1}
           /\ K # {} => Len(Shape!SetToSeq(K)) = 1
<1>1. CASE K = {}
  <2>1. Shape!Cardinality(K) = 0
    BY <1>1, FS_EmptySet, SameShapeCount
  <2>2. <<>> \in [1..0 -> K] /\ Shape!IsInjective(<<>>)
    BY DEF Shape!IsInjective
  <2>3. Shape!SetToSeq(K) \in [1..0 -> K]
    BY <2>1, <2>2 DEF Shape!SetToSeq
  <2> QED
    BY <1>1, <2>3, SeqDef
<1>2. CASE K # {}
  <2>1. PICK k : K = {k}
    BY <1>2
  <2>2. Shape!Cardinality(K) = 1
    BY <2>1, FS_Singleton, SameShapeCount
  <2>3. <<k>> \in [1..1 -> K] /\ Shape!IsInjective(<<k>>)
    BY <2>1 DEF Shape!IsInjective
  <2>4. Shape!SetToSeq(K) \in [1..1 -> K]
    BY <2>2, <2>3 DEF Shape!SetToSeq
  <2> DEFINE f == Shape!SetToSeq(K)
  <2> HIDE DEF f
  <2>5. f \in Seq(K) /\ DOMAIN f = 1..1
    BY <2>4, SeqDef DEF f
  <2>6. Len(f) = 1
    BY <2>5, LenProperties
  <2> QED
    BY <2>5, <2>6 DEF f
<1> QED
  BY <1>1, <1>2

\* A list gets one more node, or none.
LEMMA OneMore ==
    ASSUME NEW S, NEW s \in Seq(S), Shape!IsInjective(s),
           NEW K \in SUBSET S, \A a, b \in K : a = b,
           K \cap Shape!ToSet(s) = {}
    PROVE  /\ s \o Shape!SetToSeq(K) \in Seq(S)
           /\ Shape!ToSet(s \o Shape!SetToSeq(K)) = Shape!ToSet(s) \cup K
           /\ Shape!IsInjective(s \o Shape!SetToSeq(K))
<1> DEFINE t == Shape!SetToSeq(K)
           u == s \o t
<1>1. t \in Seq(K) /\ Len(t) \in {0, 1} /\ (K # {} => Len(t) = 1)
  BY SetToSeqIs
<1>2. t \in Seq(S)
  BY <1>1, SeqMonotonic
<1>3. \A i \in 1..Len(t) : t[i] \in K
  BY <1>1, ElementOfSeq
<1> HIDE DEF t
<1>4. /\ u \in Seq(S) /\ Len(u) = Len(s) + Len(t)
      /\ DOMAIN u = 1..(Len(s) + Len(t)) /\ DOMAIN s = 1..Len(s)
      /\ Len(s) \in Nat
      /\ \A i \in 1..(Len(s) + Len(t)) :
            u[i] = IF i <= Len(s) THEN s[i] ELSE t[i - Len(s)]
  BY <1>2, ConcatProperties, LenProperties
<1> HIDE DEF u
<1>5. \A i \in 1..Len(s) : u[i] = s[i] /\ s[i] \in Shape!ToSet(s)
  BY <1>1, <1>4 DEF Shape!ToSet
<1>6. \A i \in 1..(Len(s) + Len(t)) : i > Len(s) =>
          i = Len(s) + 1 /\ u[i] \in K
  BY <1>1, <1>3, <1>4
<1>7. Shape!ToSet(u) = Shape!ToSet(s) \cup K
  <2>1. ASSUME NEW x \in K
        PROVE  x \in Shape!ToSet(u)
    <3>0. Len(t) = 1
      BY <1>1
    <3>1. Len(s) + 1 \in 1..(Len(s) + Len(t)) /\ Len(s) + 1 > Len(s)
      BY <1>4, <3>0
    <3>2. u[Len(s) + 1] = x
      BY <1>6, <3>1
    <3> QED
      BY <1>4, <3>1, <3>2 DEF Shape!ToSet
  <2>2. Shape!ToSet(s) \subseteq Shape!ToSet(u)
    <3>1. ASSUME NEW i \in 1..Len(s) PROVE s[i] \in Shape!ToSet(u)
      <4>1. i \in DOMAIN u
        BY <1>1, <1>4
      <4> QED
        BY <1>5, <4>1 DEF Shape!ToSet
    <3> QED
      BY <1>4, <3>1 DEF Shape!ToSet
  <2>3. \A i \in DOMAIN u : u[i] \in Shape!ToSet(s) \cup K
    BY <1>4, <1>5, <1>6
  <2> QED
    BY <2>1, <2>2, <2>3 DEF Shape!ToSet
<1>8. Shape!IsInjective(u)
  <2> SUFFICES ASSUME NEW a \in DOMAIN u, NEW b \in DOMAIN u, u[a] = u[b]
               PROVE  a = b
    BY DEF Shape!IsInjective
  <2>1. CASE a <= Len(s) /\ b <= Len(s)
    BY <1>4, <1>5, <2>1 DEF Shape!IsInjective
  <2>2. CASE a > Len(s) /\ b > Len(s)
    BY <1>4, <1>6, <2>2
  <2>3. CASE a <= Len(s) /\ b > Len(s)
    BY <1>4, <1>5, <1>6, <2>3
  <2>4. CASE a > Len(s) /\ b <= Len(s)
    BY <1>4, <1>5, <1>6, <2>4
  <2> QED
    BY <1>4, <2>1, <2>2, <2>3, <2>4
<1> QED
  BY <1>4, <1>7, <1>8 DEF u, t

\* What a path makes new: itself and its parent, if that is not there yet.
LEMMA NewIs ==
    ASSUME Listed, Waiting, NEW p, Shape!add(p)
    PROVE  /\ p \in Seq(Shape!Names) /\ p # <<>> /\ p \in Files \cup Dirs
           /\ p \in unread /\ p \in index
           /\ p \notin DOMAIN byPath /\ p \notin DOMAIN children
           /\ p \notin Shape!Invented(p)
           /\ \A a \in Shape!Above(p) :
                a \in Seq(Shape!Names) /\ a \notin Files /\ a \notin unread
           /\ Shape!parentOf(p) \in Shape!Above(p)
           /\ \A m \in Shape!Invented(p) :
                /\ m = Shape!parentOf(p) /\ m # <<>>
                /\ m \notin DOMAIN byPath /\ m \notin DOMAIN children
                /\ Shape!parentOf(m) \in Shape!Above(m)
                /\ Shape!Above(m) \subseteq Shape!Above(p)
           /\ Shape!parentOf(p) \in DOMAIN children \cup Shape!Invented(p)
<1>1. /\ p \in unread /\ p \in index /\ p \in Files \cup Dirs
      /\ p \notin DOMAIN byPath /\ p \notin DOMAIN children
      /\ Shape!Above(p) \cap unread = {}
  BY DEF Waiting, Shape!add
<1>2. p \in Seq(Shape!Names) /\ p # <<>> /\ Shape!Above(p) \cap Files = {}
  BY <1>1, PathsKnown
<1>3. ASSUME NEW a \in Shape!Above(p)
      PROVE  a \in Seq(Shape!Names) /\ Len(a) < Len(p) /\ a \notin Files
             /\ a \notin unread /\ Len(a) \in Nat /\ Len(p) \in Nat
  BY <1>1, <1>2, AboveIs, LenProperties
<1>4. Shape!parentOf(p) \in Shape!Above(p)
  BY <1>2, ParentIs
<1>5. Shape!parentOf(p) # p
  BY <1>3, <1>4
<1>6. ASSUME NEW m \in Shape!Invented(p)
      PROVE  /\ m = Shape!parentOf(p) /\ m # <<>>
             /\ m \notin DOMAIN byPath /\ m \notin DOMAIN children
             /\ Shape!parentOf(m) \in Shape!Above(m)
             /\ Shape!Above(m) \subseteq Shape!Above(p)
  <2>1. m = Shape!parentOf(p) /\ m \notin DOMAIN children
    BY DEF Shape!Invented
  <2>2. m # <<>> /\ m \notin DOMAIN byPath
    BY <1>3, <1>4, <2>1 DEF Listed
  <2>3. m \in Seq(Shape!Names)
    BY <1>3, <1>4, <2>1
  <2> QED
    BY <1>2, <1>4, <2>1, <2>2, <2>3, ParentIs, Chain
<1>7. p \notin Shape!Invented(p)
  BY <1>5, <1>6
<1>8. Shape!parentOf(p) \in DOMAIN children \cup Shape!Invented(p)
  BY DEF Shape!Invented
<1> QED
  BY <1>1, <1>2, <1>3, <1>4, <1>6, <1>7, <1>8

\* Two new nodes are not in one directory.
LEMMA NewAreApart ==
    ASSUME NEW S, NEW p \in Seq(S), p # <<>>,
           NEW a \in {p} \cup Shape!Above(p), a # <<>>,
           NEW b \in {p} \cup Shape!Above(p), b # <<>>,
           Shape!parentOf(a) = Shape!parentOf(b)
    PROVE  a = b
<1>1. a \in Seq(S) /\ b \in Seq(S)
  BY AboveIs
<1>2. Len(a) = Len(b)
  <2>1. /\ Len(Shape!parentOf(a)) = Len(a) - 1
        /\ Len(Shape!parentOf(b)) = Len(b) - 1
    BY <1>1, ParentIs
  <2> QED
    BY <1>1, <2>1, LenProperties
<1>3. \A c \in Shape!Above(p) : Len(c) < Len(p)
  BY AboveIs
<1>4. CASE a \in Shape!Above(p) /\ b \in Shape!Above(p)
  BY <1>2, <1>4, Chain
<1>5. CASE a = p \/ b = p
  BY <1>2, <1>3, <1>5, LenProperties
<1> QED
  BY <1>4, <1>5

LEMMA AddStep ==
    ASSUME Listed, Waiting, Linked, NEW p, Shape!add(p)
    PROVE  Listed' /\ Waiting' /\ Linked' /\ phase' = "reading"
<1> DEFINE new == {p} \cup Shape!Invented(p)
           above == {Shape!parentOf(m) : m \in Shape!Invented(p)}
           old(d) == IF d \in DOMAIN children THEN children[d] ELSE <<>>
           K(d) == {n \in new : Shape!parentOf(n) = d}
<1>1. /\ p \in Seq(Shape!Names) /\ p # <<>> /\ p \in Files \cup Dirs
      /\ p \in unread /\ p \in index
      /\ p \notin DOMAIN byPath /\ p \notin DOMAIN children
      /\ p \notin Shape!Invented(p)
      /\ \A a \in Shape!Above(p) :
            a \in Seq(Shape!Names) /\ a \notin Files /\ a \notin unread
      /\ Shape!parentOf(p) \in Shape!Above(p)
      /\ Shape!parentOf(p) \in DOMAIN children \cup Shape!Invented(p)
  BY NewIs
<1>2. \A m \in Shape!Invented(p) :
        /\ m = Shape!parentOf(p) /\ m # <<>>
        /\ m \in Shape!Above(p) /\ m \in Seq(Shape!Names)
        /\ m \notin Files /\ m \notin unread
        /\ m \notin DOMAIN byPath /\ m \notin DOMAIN children
        /\ Shape!parentOf(m) \in Shape!Above(m)
        /\ Shape!Above(m) \subseteq Shape!Above(p)
  BY <1>1, NewIs
<1>3. \A d \in above : d \in Shape!Above(p)
  BY <1>2
<1>4. /\ DOMAIN byPath' = DOMAIN byPath \cup new
      /\ \A q \in DOMAIN byPath : byPath'[q] = byPath[q]
      /\ \A q \in new : byPath'[q].dir <=> q # p \/ p \in Dirs
  <2>1. byPath' = [q \in DOMAIN byPath \cup new |->
                      IF q \in new THEN Shape!Node(q # p \/ p \in Dirs)
                                   ELSE byPath[q]]
    BY DEF Shape!add
  <2>2. \A q \in DOMAIN byPath : q \notin new
    BY <1>1, <1>2
  <2> HIDE DEF new
  <2> QED
    BY <2>1, <2>2 DEF Shape!Node
<1>5. /\ DOMAIN children' = DOMAIN children \cup Shape!Invented(p)
                            \cup above \cup ({p} \cap Dirs)
      /\ \A d \in DOMAIN children' :
            children'[d] = old(d) \o Shape!SetToSeq(K(d))
  <2>1. children' = [d \in DOMAIN children \cup Shape!Opened(p)
                        |-> old(d) \o Shape!SetToSeq(K(d))]
    BY DEF Shape!add
  <2>2. Shape!Opened(p) =
            Shape!Invented(p) \cup above \cup ({p} \cap Dirs)
    BY DEF Shape!Opened
  <2> HIDE DEF old, K, above
  <2> QED
    BY <2>1, <2>2
<1>6. /\ unread' = unread \ {p} /\ index' = index
      /\ phase' = phase /\ phase = "reading"
  BY DEF Shape!add
<1>7. p \in Dirs <=> p \notin Files
  BY <1>1, PathsKnown
<1>8. <<>> \in DOMAIN children' /\ <<>> \notin DOMAIN byPath'
  BY <1>1, <1>2, <1>4, <1>5 DEF Listed
<1>9. DOMAIN byPath' \subseteq Seq(Shape!Names)
  BY <1>1, <1>2, <1>4 DEF Listed
<1>10. IsFiniteSet(DOMAIN byPath')
  <2>1. IsFiniteSet({Shape!parentOf(p)})
    BY FS_Singleton
  <2>2. Shape!Invented(p) \in SUBSET {Shape!parentOf(p)}
    BY <1>2
  <2>3. IsFiniteSet(Shape!Invented(p))
    BY <2>1, <2>2, FS_Subset
  <2>4. IsFiniteSet(Shape!Invented(p) \cup {p})
    BY <2>3, FS_AddElement
  <2>5. DOMAIN byPath' = DOMAIN byPath \cup (Shape!Invented(p) \cup {p})
    BY <1>4
  <2>6. IsFiniteSet(DOMAIN byPath)
    BY DEF Listed
  <2> QED
    BY <2>4, <2>5, <2>6, FS_Union
\* A list that is opened is not that of a file, or of what is waiting, and
\* nothing but what is new has it as its directory.
<1>11. ASSUME NEW d \in above
       PROVE  d \notin Files /\ d \notin unread /\ d # p
  BY <1>1, <1>3
<1>12. ASSUME NEW q \in DOMAIN byPath'
       PROVE  /\ byPath'[q].dir <=> q \in DOMAIN children'
              /\ byPath'[q].dir <=> q \notin Files
              /\ Shape!parentOf(q) \in DOMAIN children'
  <2>1. CASE q \in DOMAIN byPath
    <3>1. q # p /\ q \notin Shape!Invented(p)
      BY <1>1, <1>2, <2>1
    <3>2. q \in above => q \notin Files
      BY <1>11
    <3> HIDE DEF above
    <3> QED
      BY <1>4, <1>5, <2>1, <3>1, <3>2 DEF Listed
  <2>2. CASE q = p
    <3>1. byPath'[p].dir <=> p \in Dirs
      BY <1>4
    <3>2. p \notin above
      BY <1>11
    <3> HIDE DEF above
    <3> QED
      BY <1>1, <1>5, <1>7, <2>2, <3>1, <3>2
  <2>3. CASE q \in Shape!Invented(p)
    <3>1. byPath'[q].dir
      BY <1>1, <1>4, <2>3
    <3>2. Shape!parentOf(q) \in above
      BY <2>3
    <3> HIDE DEF above
    <3> QED
      BY <1>2, <1>5, <2>3, <3>1, <3>2
  <2> QED
    BY <1>4, <2>1, <2>2, <2>3
<1>13. ASSUME NEW d \in DOMAIN children'
       PROVE  /\ children'[d] \in Seq(DOMAIN byPath')
              /\ Shape!ToSet(children'[d]) =
                    {q \in DOMAIN byPath' : Shape!parentOf(q) = d}
              /\ Shape!IsInjective(children'[d])
  <2>1. /\ old(d) \in Seq(DOMAIN byPath)
        /\ Shape!ToSet(old(d)) =
              {q \in DOMAIN byPath : Shape!parentOf(q) = d}
        /\ Shape!IsInjective(old(d))
    <3>1. CASE d \in DOMAIN children
      BY <3>1 DEF Listed
    <3>2. CASE d \notin DOMAIN children
      <4>1. ASSUME NEW q \in DOMAIN byPath PROVE Shape!parentOf(q) # d
        BY <3>2 DEF Listed
      <4>2. /\ <<>> \in Seq(DOMAIN byPath)
            /\ Shape!ToSet(<<>>) = {} /\ Shape!IsInjective(<<>>)
        BY DEF Shape!ToSet, Shape!IsInjective
      <4> QED
        BY <3>2, <4>1, <4>2
    <3> QED
      BY <3>1, <3>2
  <2>2. old(d) \in Seq(DOMAIN byPath')
    BY <1>4, <2>1, SeqMonotonic
  <2>3. K(d) \in SUBSET DOMAIN byPath'
    BY <1>4
  <2>4. \A a, b \in K(d) : a = b
    <3>1. \A a \in K(d) : a \in {p} \cup Shape!Above(p) /\ a # <<>>
                          /\ Shape!parentOf(a) = d
      BY <1>1, <1>2
    <3> HIDE DEF K
    <3> QED
      BY <1>1, <3>1, NewAreApart
  <2>5. K(d) \cap Shape!ToSet(old(d)) = {}
    BY <1>1, <1>2, <2>1
  <2>6. children'[d] = old(d) \o Shape!SetToSeq(K(d))
    BY <1>5
  <2>7. Shape!ToSet(old(d)) \cup K(d) =
            {q \in DOMAIN byPath' : Shape!parentOf(q) = d}
    BY <1>4, <2>1
  <2> HIDE DEF old, K
  <2>8. /\ children'[d] \in Seq(DOMAIN byPath')
        /\ Shape!ToSet(children'[d]) = Shape!ToSet(old(d)) \cup K(d)
        /\ Shape!IsInjective(children'[d])
    BY <2>1, <2>2, <2>3, <2>4, <2>5, <2>6, OneMore
  <2> QED
    BY <2>7, <2>8
<1>14. Listed'
  BY <1>8, <1>9, <1>10, <1>12, <1>13 DEF Listed
<1>15. Waiting'
  <2>1. \A d \in DOMAIN children' : d \notin unread'
    <3>1. \A d \in above : d \notin unread
      BY <1>11
    <3> HIDE DEF above
    <3> QED
      BY <1>2, <1>5, <1>6, <3>1 DEF Waiting
  <2>2. \A q \in DOMAIN byPath' : q \notin unread'
    BY <1>2, <1>4, <1>6 DEF Waiting
  <2>3. index' \ unread' \subseteq DOMAIN byPath'
    BY <1>4, <1>6 DEF Waiting
  <2> QED
    BY <1>6, <2>1, <2>2, <2>3 DEF Waiting
<1>16. Linked'
  <2> SUFFICES ASSUME Shape!NoneInARow
               PROVE  /\ DOMAIN children' \subseteq DOMAIN byPath' \cup {<<>>}
                      /\ \A q \in DOMAIN byPath' :
                            Shape!Above(q) \subseteq DOMAIN children'
    BY <1>6 DEF Linked, Shape!NoneInARow
  <2>1. /\ DOMAIN children \subseteq DOMAIN byPath \cup {<<>>}
        /\ \A q \in DOMAIN byPath : Shape!Above(q) \subseteq DOMAIN children
    BY DEF Linked
  \* The list that an invented directory goes into is there.
  <2>2. ASSUME NEW m \in Shape!Invented(p)
        PROVE  Shape!parentOf(m) \in DOMAIN children
    <3> DEFINE g == Shape!parentOf(m)
    <3>1. /\ m = Shape!parentOf(p) /\ m \in Seq(Shape!Names) /\ m # <<>>
          /\ m \notin DOMAIN byPath /\ m \notin unread
          /\ g \in Shape!Above(p)
      BY <1>2
    <3>2. g \notin Files /\ g \notin unread
      BY <1>1, <3>1
    <3>3. Len(g) = Len(m) - 1 /\ Len(m) = Len(p) - 1
          /\ Len(g) \in Nat /\ g \in Seq(Shape!Names)
      BY <1>1, <3>1, ParentIs, LenProperties
    <3>4. CASE Len(p) > 2
      <4>1. m \in index \/ g \in index
        BY <1>1, <3>1, <3>4 DEF Shape!NoneInARow
      <4>2. m \notin index
        BY <3>1 DEF Waiting
      <4>3. g \in DOMAIN byPath
        BY <3>2, <4>1, <4>2 DEF Waiting
      <4> QED
        BY <3>2, <4>3 DEF Listed
    <3>5. CASE ~(Len(p) > 2)
      <4>1. Len(g) = 0
        BY <1>1, <3>3, <3>5, LenProperties
      <4>2. g = <<>>
        BY <3>3, <4>1, EmptySeq
      <4> QED
        BY <4>2 DEF Listed
    <3> QED
      BY <3>4, <3>5
  <2>3. DOMAIN children' = DOMAIN children \cup Shape!Invented(p)
                           \cup ({p} \cap Dirs)
    BY <1>5, <2>2
  \* From a directory with a list there are lists all the way up.
  <2>4. ASSUME NEW d \in DOMAIN children, NEW a \in Shape!Above(d)
        PROVE  a \in DOMAIN children
    <3>1. CASE d \in DOMAIN byPath
      BY <2>1, <3>1
    <3>2. CASE d = <<>>
      <4>1. Len(d) = 0
        BY <3>2
      <4>2. 0..(Len(d) - 1) = {}
        BY <4>1
      <4> QED
        BY <4>2 DEF Shape!Above
    <3> QED
      BY <2>1, <3>1, <3>2
  <2>5. ASSUME NEW m \in Shape!Invented(p), NEW a \in Shape!Above(m)
        PROVE  a \in DOMAIN children
    <3>1. a = Shape!parentOf(m) \/ a \in Shape!Above(Shape!parentOf(m))
      BY <1>2, ParentIsLast
    <3> QED
      BY <2>2, <2>4, <3>1
  <2>6. ASSUME NEW a \in Shape!Above(p)
        PROVE  a \in DOMAIN children'
    <3>1. a = Shape!parentOf(p) \/ a \in Shape!Above(Shape!parentOf(p))
      BY <1>1, ParentIsLast
    <3>2. CASE a = Shape!parentOf(p)
      BY <1>1, <2>3, <3>2
    <3>3. CASE a \in Shape!Above(Shape!parentOf(p))
      BY <1>1, <2>3, <2>4, <2>5, <3>3
    <3> QED
      BY <3>1, <3>2, <3>3
  <2>7. DOMAIN children' \subseteq DOMAIN byPath' \cup {<<>>}
    BY <1>4, <2>1, <2>3
  <2>8. ASSUME NEW q \in DOMAIN byPath'
        PROVE  Shape!Above(q) \subseteq DOMAIN children'
    BY <1>4, <2>1, <2>3, <2>5, <2>6
  <2> QED
    BY <2>7, <2>8
<1> QED
  BY <1>6, <1>14, <1>15, <1>16

LEMMA ShapeInit == ASSUME Shape!Init PROVE ShapeInv
<1>1. /\ index \subseteq Files \cup Dirs /\ unread = index
      /\ byPath = <<>> /\ DOMAIN byPath = {}
      /\ children = [d \in {<<>>} |-> <<>>]
      /\ phase = "reading"
  BY DEF Shape!Init
<1>2. /\ DOMAIN children = {<<>>} /\ children[<<>>] = <<>>
  BY <1>1
<1>3. /\ <<>> \in Seq({}) /\ Shape!ToSet(<<>>) = {}
      /\ Shape!IsInjective(<<>>) /\ IsFiniteSet({})
  BY FS_EmptySet DEF Shape!ToSet, Shape!IsInjective
<1>4. Listed
  BY <1>1, <1>2, <1>3 DEF Listed
<1>5. Waiting
  <2>1. \A p \in unread : p # <<>>
    BY <1>1, PathsKnown
  <2> QED
    BY <1>1, <1>2, <2>1 DEF Waiting
<1> QED
  BY <1>1, <1>2, <1>4, <1>5 DEF ShapeInv, Linked, Rolled

LEMMA RollUpStep == ASSUME ShapeInv, Shape!rollUp PROVE ShapeInv'
<1>1. /\ DOMAIN byPath' = DOMAIN byPath
      /\ \A p \in DOMAIN byPath : byPath'[p].dir <=> byPath[p].dir
      /\ \A d \in DOMAIN byPath : byPath[d].dir =>
            /\ byPath'[d].count = Shape!Cardinality(Under(d))
            /\ byPath'[d].bytes = Shape!Sum(Under(d), Sizes)
  BY DEF Shape!rollUp, Under
<1>2. /\ children' = children /\ index' = index /\ unread' = unread
      /\ phase' = "rolled"
  BY DEF Shape!rollUp
<1>3. \A d : Under(d)' = Under(d)
  BY <1>1 DEF Under
<1>4. Listed'
  BY <1>1, <1>2 DEF ShapeInv, Listed
<1>5. Waiting'
  BY <1>1, <1>2 DEF ShapeInv, Waiting
<1>6. Linked'
  BY <1>1, <1>2 DEF ShapeInv, Linked, Shape!NoneInARow
<1>7. Rolled'
  BY <1>1, <1>3 DEF Rolled
<1> QED
  BY <1>4, <1>5, <1>6, <1>7 DEF ShapeInv

LEMMA ShapeStutters == ASSUME ShapeInv, UNCHANGED shapeVars PROVE ShapeInv'
BY DEF ShapeInv, Listed, Waiting, Linked, Rolled, Under, shapeVars,
       Shape!NoneInARow

LEMMA ShapeStep == ASSUME ShapeInv, Shape!Next PROVE ShapeInv'
<1>1. ASSUME NEW p, Shape!add(p) PROVE ShapeInv'
  BY <1>1, AddStep DEF ShapeInv, Rolled
<1>2. CASE Shape!EndOfIndex
  BY <1>2 DEF ShapeInv, Listed, Waiting, Linked, Rolled, Shape!NoneInARow,
              Shape!EndOfIndex
<1>3. CASE Shape!rollUp
  BY <1>3, RollUpStep
<1> QED
  BY <1>1, <1>2, <1>3 DEF Shape!Next

LEMMA Shaped == Spec => []ShapeInv
<1>1. Init => ShapeInv
  BY ShapeInit DEF Init
<1>2. ShapeInv /\ [Next]_web => ShapeInv'
  BY ShapeStep, ShapeStutters
     DEF Next, Browse, Grow, Count, Counting, AskAmp, Edit, web
<1> QED
  BY <1>1, <1>2, PTL DEF Spec

\* A way down from d to what lies in it begins with one of d's own nodes.
LEMMA FirstStep ==
    ASSUME Listed, Linked, Shape!NoneInARow,
           NEW d \in DOMAIN children, d # <<>>,
           NEW p \in DOMAIN byPath, d \in Shape!Above(p)
    PROVE  \E c \in Shape!ToSet(children[d]) :
              c = p \/ (byPath[c].dir /\ c \in Shape!Above(p))
<1> DEFINE N == Shape!Names
<1>1. p \in Seq(N) /\ d \in Seq(N) /\ p # <<>>
  BY DEF Listed, Linked
<1>2. Shape!ToSet(children[d]) =
        {q \in DOMAIN byPath : Shape!parentOf(q) = d}
  BY DEF Listed
<1>3. CASE Shape!parentOf(p) = d
  BY <1>2, <1>3
<1>4. CASE Shape!parentOf(p) # d
  <2> DEFINE n == Len(d) + 1
             c == SubSeq(p, 1, n)
  <2>1. Len(d) \in Nat /\ Len(p) \in Nat /\ Len(d) < Len(p)
    BY <1>1, AboveIs, LenProperties
  <2>2. Len(d) # Len(p) - 1
    <3>1. Shape!parentOf(p) \in Shape!Above(p)
          /\ Len(Shape!parentOf(p)) = Len(p) - 1
      BY <1>1, ParentIs
    <3> QED
      BY <1>1, <1>4, <3>1, Chain
  <2>3. n \in 0..(Len(p) - 1)
    BY <2>1, <2>2
  <2>4. c \in Shape!Above(p)
    BY <2>3 DEF Shape!Above
  <2>5. c \in Seq(N) /\ Len(c) = n
    <3>1. c \in Seq(N)
      BY <1>1, <2>4, AboveIs
    <3>2. c = [i \in 1..n |-> p[i]]
      BY <1>1, <2>1, <2>3, LenProperties
    <3> QED
      BY <2>3, <3>1, <3>2
  <2> HIDE DEF c
  <2>6. d \in Shape!Above(c)
    BY <1>1, <2>1, <2>4, <2>5, Chain
  <2>7. c # <<>>
    BY <2>1, <2>5, EmptySeq
  <2>8. Shape!parentOf(c) = d
    <3>1. Shape!parentOf(c) \in Shape!Above(c)
          /\ Len(Shape!parentOf(c)) = Len(d)
      BY <2>1, <2>5, <2>7, ParentIs
    <3> QED
      BY <2>5, <2>6, <3>1, Chain
  <2>9. c \in DOMAIN children /\ c \in DOMAIN byPath /\ byPath[c].dir
    BY <2>4, <2>7 DEF Listed, Linked
  <2> QED
    BY <1>2, <2>4, <2>8, <2>9
<1> QED
  BY <1>3, <1>4

\* p is c, or in it.
In(p, c) == p = c \/ (byPath[c].dir /\ c \in Shape!Above(p))

\* Two ways down do not meet again.
LEMMA OneWay ==
    ASSUME Listed, NEW d \in DOMAIN children, NEW p \in DOMAIN byPath,
           NEW a \in Shape!ToSet(children[d]), In(p, a),
           NEW b \in Shape!ToSet(children[d]), In(p, b)
    PROVE  a = b
<1>1. p \in Seq(Shape!Names) /\ p # <<>>
  BY DEF Listed
<1>2. /\ a \in DOMAIN byPath /\ Shape!parentOf(a) = d /\ a # <<>>
      /\ b \in DOMAIN byPath /\ Shape!parentOf(b) = d /\ b # <<>>
  BY DEF Listed
<1>3. a \in {p} \cup Shape!Above(p) /\ b \in {p} \cup Shape!Above(p)
  BY DEF In
<1> QED
  BY <1>1, <1>2, <1>3, NewAreApart

\* What Sum counts.
Items(S, f) == UNION {{x} \X (1..f[x]) : x \in S}

LEMMA ItemsAre ==
    ASSUME NEW S, NEW f, NEW y
    PROVE  y \in Items(S, f) <=> \E x \in S : \E n \in 1..f[x] : y = <<x, n>>
BY DEF Items

LEMMA SumIs == \A S, f : Shape!Sum(S, f) = Cardinality(Items(S, f))
BY SameShapeCount DEF Shape!Sum, Items

LEMMA ItemsAreFinite ==
    ASSUME NEW S, IsFiniteSet(S), NEW f, \A x \in S : f[x] \in Nat
    PROVE  IsFiniteSet(Items(S, f))
<1> DEFINE Of(x) == {x} \X (1..f[x])
           R == {Of(x) : x \in S}
           g == [x \in S |-> Of(x)]
<1>1. IsFiniteSet(R)
  <2> HIDE DEF Of
  <2>1. g \in [S -> R] /\ \A r \in R : \E x \in S : g[x] = r
    OBVIOUS
  <2> HIDE DEF g, R
  <2>2. g \in Surjection(S, R)
    BY <2>1, Zenon DEF Surjection
  <2> QED
    BY <2>2, FS_Surjection
<1>2. \A r \in R : IsFiniteSet(r)
  <2> SUFFICES ASSUME NEW x \in S PROVE IsFiniteSet(Of(x))
    OBVIOUS
  <2>1. IsFiniteSet({x})
    BY FS_Singleton
  <2>2. f[x] \in Int /\ 1 \in Int
    OBVIOUS
  <2>3. IsFiniteSet(1..f[x])
    BY <2>2, FS_Interval
  <2> QED
    BY <2>1, <2>3, FS_Product
<1>3. Items(S, f) = UNION R
  BY DEF Items
<1>4. IsFiniteSet(UNION R)
  <2> HIDE DEF R
  <2> QED
    BY <1>1, <1>2, FS_UNION
<1> QED
  BY <1>3, <1>4

LEMMA UnderIsFinite ==
    ASSUME Listed, NEW d
    PROVE  /\ IsFiniteSet(Under(d))
           /\ Under(d) \subseteq Files
           /\ IsFiniteSet(Items(Under(d), Sizes))
<1>1. Under(d) \in SUBSET DOMAIN byPath
  BY DEF Under
<1>2. IsFiniteSet(Under(d))
  BY <1>1, FS_Subset DEF Listed
<1>3. Under(d) \subseteq Files
  BY DEF Under, Listed
<1>4. \A x \in Under(d) : Sizes[x] \in Nat
  BY <1>3, PathsKnown
<1> QED
  BY <1>2, <1>3, <1>4, ItemsAreFinite

NodesTyped ==
    \A p \in DOMAIN byPath :
        byPath[p] \in [dir : BOOLEAN, count : Nat, bytes : Nat]

LEMMA NodesStep == ASSUME ShapeInv, NodesTyped, Shape!Next PROVE NodesTyped'
<1>1. ASSUME NEW p, Shape!add(p) PROVE NodesTyped'
  <2> DEFINE new == {p} \cup Shape!Invented(p)
  <2>1. byPath' = [q \in DOMAIN byPath \cup new |->
                      IF q \in new THEN Shape!Node(q # p \/ p \in Dirs)
                                   ELSE byPath[q]]
    BY <1>1 DEF Shape!add
  <2>2. \A dir \in BOOLEAN : Shape!Node(dir) \in
            [dir : BOOLEAN, count : Nat, bytes : Nat]
    BY DEF Shape!Node
  <2>3. \A q : (q # p \/ p \in Dirs) \in BOOLEAN
    OBVIOUS
  <2> HIDE DEF new
  <2> QED
    BY <2>1, <2>2, <2>3 DEF NodesTyped
<1>2. CASE Shape!EndOfIndex
  BY <1>2 DEF NodesTyped, Shape!EndOfIndex
<1>3. CASE Shape!rollUp
  <2>1. /\ DOMAIN byPath' = DOMAIN byPath
        /\ \A p \in DOMAIN byPath : byPath'[p] =
              IF byPath[p].dir
                THEN [dir |-> TRUE, count |-> Shape!Cardinality(Under(p)),
                      bytes |-> Shape!Sum(Under(p), Sizes)]
                ELSE byPath[p]
    BY <1>3 DEF Shape!rollUp, Under
  <2>2. \A p : /\ Shape!Cardinality(Under(p)) \in Nat
               /\ Shape!Sum(Under(p), Sizes) \in Nat
    BY UnderIsFinite, SumIs, SameShapeCount, FS_CardinalityType
       DEF ShapeInv
  <2>3. ASSUME NEW p \in DOMAIN byPath
        PROVE  byPath'[p] \in [dir : BOOLEAN, count : Nat, bytes : Nat]
    <3>1. CASE byPath[p].dir
      <4>1. byPath'[p] = [dir |-> TRUE,
                          count |-> Shape!Cardinality(Under(p)),
                          bytes |-> Shape!Sum(Under(p), Sizes)]
        BY <2>1, <3>1
      <4>2. \A n, k \in Nat : [dir |-> TRUE, count |-> n, bytes |-> k] \in
                [dir : BOOLEAN, count : Nat, bytes : Nat]
        OBVIOUS
      <4> QED
        BY <2>2, <4>1, <4>2
    <3>2. CASE ~byPath[p].dir
      BY <2>1, <3>2 DEF NodesTyped
    <3> QED
      BY <3>1, <3>2
  <2> QED
    BY <2>1, <2>3 DEF NodesTyped
<1> QED
  BY <1>1, <1>2, <1>3 DEF Shape!Next

LEMMA TreeTyped == Spec => []Shape!TypeOK
<1>1. Init => NodesTyped
  BY DEF Init, Shape!Init, NodesTyped
<1>2. ShapeInv /\ NodesTyped /\ [Next]_web => NodesTyped'
  <2>1. ASSUME NodesTyped, UNCHANGED shapeVars PROVE NodesTyped'
    BY <2>1 DEF NodesTyped, shapeVars
  <2> QED
    BY <2>1, NodesStep
       DEF Next, Browse, Grow, Count, Counting, AskAmp, Edit, web
<1>3. ShapeInv /\ NodesTyped => Shape!TypeOK
  <2>1. ASSUME ShapeInv, NEW d \in DOMAIN children
        PROVE  Shape!ToSet(children[d]) \subseteq DOMAIN byPath
    BY <2>1 DEF ShapeInv, Listed
  <2> QED
    BY <2>1 DEF ShapeInv, Waiting, NodesTyped, Shape!TypeOK
<1> QED
  BY <1>1, <1>2, <1>3, Shaped, PTL DEF Spec

\* The files below d that lie in d's node c.
LEMMA WayIs ==
    ASSUME Listed, NEW d \in DOMAIN children, d # <<>>,
           NEW into \in [Under(d) -> Shape!ToSet(children[d])],
           \A p \in Under(d) : In(p, into[p]),
           NEW c \in Shape!ToSet(children[d])
    PROVE  Piece(Under(d), into, c) =
              IF byPath[c].dir THEN Under(c) ELSE {c}
<1>1. c \in DOMAIN byPath /\ Shape!parentOf(c) = d
  BY DEF Listed
<1>2. c \in Seq(Shape!Names) /\ c # <<>>
  BY <1>1 DEF Listed
<1>3. d \in Shape!Above(c)
  BY <1>1, <1>2, ParentIs
<1>4. ASSUME NEW p \in Under(d), into[p] = c
      PROVE  p \in IF byPath[c].dir THEN Under(c) ELSE {c}
  <2>1. In(p, c) /\ p \in DOMAIN byPath /\ ~byPath[p].dir
    BY <1>4 DEF Under
  <2> QED
    BY <2>1 DEF In, Under
<1>5. ASSUME NEW p \in IF byPath[c].dir THEN Under(c) ELSE {c}
      PROVE  p \in Under(d) /\ In(p, c)
  <2>1. CASE byPath[c].dir
    <3>1. p \in DOMAIN byPath /\ ~byPath[p].dir /\ c \in Shape!Above(p)
      BY <1>5, <2>1 DEF Under
    <3>2. d \in Shape!Above(p)
      BY <1>3, <3>1, Chain DEF Listed
    <3> QED
      BY <2>1, <3>1, <3>2 DEF In, Under
  <2>2. CASE ~byPath[c].dir
    BY <1>1, <1>3, <1>5, <2>2 DEF In, Under
  <2> QED
    BY <2>1, <2>2
<1>6. ASSUME NEW p \in Under(d), In(p, c)
      PROVE  into[p] = c
  <2>1. In(p, into[p]) /\ into[p] \in Shape!ToSet(children[d])
        /\ p \in DOMAIN byPath
    BY DEF Under
  <2> QED
    BY <1>6, <2>1, OneWay
<1> QED
  BY <1>4, <1>5, <1>6 DEF Piece

LEMMA DirAddsUp ==
    ASSUME Listed, Linked, Shape!NoneInARow, Rolled, phase = "rolled",
           NEW d \in DOMAIN children, d # <<>>
    PROVE  /\ Shape!Cost(d) = Shape!Sum(Shape!ToSet(children[d]),
                                 [p \in DOMAIN byPath |-> Shape!Cost(p)])
           /\ Shape!Count(d) = Shape!Sum(Shape!ToSet(children[d]),
                                 [p \in DOMAIN byPath |-> Shape!Count(p)])
<1> DEFINE U == Under(d)
           kids == Shape!ToSet(children[d])
           into == [p \in U |-> CHOOSE c \in kids : In(p, c)]
           T == Items(U, Sizes)
           whose == [y \in T |-> into[y[1]]]
           cost == [p \in DOMAIN byPath |-> Shape!Cost(p)]
           count == [p \in DOMAIN byPath |-> Shape!Count(p)]
<1>1. d \in DOMAIN byPath /\ byPath[d].dir
  BY DEF Listed, Linked
<1>2. /\ byPath[d].count = Cardinality(U)
      /\ byPath[d].bytes = Cardinality(T)
  BY <1>1, SumIs, SameShapeCount DEF Rolled
<1>3. IsFiniteSet(U) /\ U \subseteq Files /\ IsFiniteSet(T)
  BY UnderIsFinite
<1>4. \A p \in U : \E c \in kids : In(p, c)
  BY FirstStep DEF Under, In
<1>5. into \in [U -> kids] /\ \A p \in U : In(p, into[p])
  <2> HIDE DEF U, kids
  <2> QED
    BY <1>4
<1>6. ASSUME NEW c \in kids
      PROVE  /\ c \in DOMAIN byPath
             /\ Piece(U, into, c) = IF byPath[c].dir THEN Under(c) ELSE {c}
             /\ ~byPath[c].dir => c \in Files
  <2> HIDE DEF into
  <2> QED
    BY <1>5, WayIs DEF Listed
<1>7. ASSUME NEW c \in kids
      PROVE  count[c] = Cardinality(Piece(U, into, c))
  <2>1. CASE byPath[c].dir
    BY <1>6, <2>1, SameShapeCount DEF Shape!Count, Rolled
  <2>2. CASE ~byPath[c].dir
    BY <1>6, <2>2, FS_Singleton DEF Shape!Count
  <2> QED
    BY <2>1, <2>2
<1>8. Shape!Sum(kids, count) = Cardinality(U)
  <2> HIDE DEF U, kids, into, count
  <2> QED
    BY <1>3, <1>5, <1>7, Parts
<1>9. whose \in [T -> kids]
  <2> HIDE DEF U, kids, into
  <2> QED
    BY <1>5, ItemsAre
<1>10. ASSUME NEW c \in kids
       PROVE  Piece(T, whose, c) = Items(Piece(U, into, c), Sizes)
  <2> HIDE DEF U, kids, into
  <2>1. ASSUME NEW y PROVE y \in Piece(T, whose, c) <=>
                              y \in Items(Piece(U, into, c), Sizes)
    BY ItemsAre DEF Piece
  <2> QED
    BY <2>1
<1>11. ASSUME NEW c \in kids
       PROVE  cost[c] = Cardinality(Piece(T, whose, c))
  <2>1. CASE byPath[c].dir
    BY <1>6, <1>10, <2>1, SumIs DEF Shape!Cost, Rolled
  <2>2. CASE ~byPath[c].dir
    <3>1. cost[c] = Sizes[c] /\ Sizes[c] \in Nat
      BY <1>6, <2>2, PathsKnown DEF Shape!Cost
    <3>2. Piece(T, whose, c) = {c} \X (1..Sizes[c])
      BY <1>6, <1>10, <2>2 DEF Items
    <3>3. Cardinality(1..Sizes[c]) = Sizes[c] /\ IsFiniteSet(1..Sizes[c])
      BY <3>1, FS_Interval
    <3>4. IsFiniteSet({c}) /\ Cardinality({c}) = 1
      BY FS_Singleton
    <3>5. Cardinality({c} \X (1..Sizes[c])) = 1 * Sizes[c]
      BY <3>3, <3>4, FS_Product
    <3> HIDE DEF T, whose, cost
    <3>6. Cardinality({c} \X (1..Sizes[c])) = Sizes[c]
      BY <3>1, <3>5
    <3> QED
      BY <3>1, <3>2, <3>6
  <2> QED
    BY <2>1, <2>2
<1>12. Shape!Sum(kids, cost) = Cardinality(T)
  <2> HIDE DEF T, kids, whose, cost
  <2> QED
    BY <1>3, <1>9, <1>11, Parts
<1> QED
  BY <1>1, <1>2, <1>8, <1>12 DEF Shape!Cost, Shape!Count

\* In a tree that was built every node is listed in its directory, and what is
\* shown for a directory is the sum of what is shown for its nodes, whatever
\* paths the index held, as long as it left out no two directories in a row,
\* and in whatever order they were added (Build, add, ensureDir, rollUp).
THEOREM TreeAddsUp == Spec => []AddsUp
<1>1. ASSUME ShapeInv PROVE AddsUp
  <2>1. SUFFICES ASSUME phase = "rolled"
        PROVE  /\ \A p \in DOMAIN byPath :
                    /\ Shape!parentOf(p) \in DOMAIN children
                    /\ p \in Shape!ToSet(children[Shape!parentOf(p)])
                    /\ byPath[p].dir => p \in DOMAIN children
               /\ \A d \in DOMAIN children : Shape!IsInjective(children[d])
               /\ Shape!NoneInARow => \A d \in DOMAIN children \ {<<>>} :
                    /\ d \in DOMAIN byPath
                    /\ Shape!Cost(d) = Shape!Sum(Shape!ToSet(children[d]),
                            [p \in DOMAIN byPath |-> Shape!Cost(p)])
                    /\ Shape!Count(d) = Shape!Sum(Shape!ToSet(children[d]),
                            [p \in DOMAIN byPath |-> Shape!Count(p)])
    BY DEF AddsUp, Shape!AddsUp
  <2>2. \A p \in DOMAIN byPath :
            /\ Shape!parentOf(p) \in DOMAIN children
            /\ p \in Shape!ToSet(children[Shape!parentOf(p)])
            /\ byPath[p].dir => p \in DOMAIN children
    BY <1>1 DEF ShapeInv, Listed
  <2>3. \A d \in DOMAIN children : Shape!IsInjective(children[d])
    BY <1>1 DEF ShapeInv, Listed
  <2>4. ASSUME Shape!NoneInARow, NEW d \in DOMAIN children \ {<<>>}
        PROVE  d \in DOMAIN byPath
    BY <1>1, <2>4 DEF ShapeInv, Linked
  <2> QED
    BY <1>1, <2>1, <2>2, <2>3, <2>4, DirAddsUp DEF ShapeInv
<1> QED
  BY <1>1, Shaped, PTL

----------------------------------------------------------------------------
(* The AMP client: types, and what an answer says.                         *)

LEMMA SessionBound ==
    /\ MaxSessions \in Nat
    /\ Borrowed \subseteq Calls /\ Forbidden \subseteq Calls
    /\ Amp!Panel = MaxSessions + 1
BY ConstantsAssumption DEF Amp!CallsAssumption, Amp!Panel

LEMMA ClientInit == ASSUME Amp!Init PROVE ClientInv /\ Answered
<1>1. Answered
  BY DEF Amp!Init, Answered
<1>2. Amp!TypeOK
  BY SessionBound DEF Amp!Init, Amp!TypeOK, Amp!PCs, Amp!NoSession
<1>3. BorrowedInv /\ OwnInv /\ SessionsInv
  BY SessionBound
     DEF Amp!Init, Amp!NoSession, BorrowedInv, OwnInv, SessionsInv, Own, Meek
<1>4. \A c \in Meek : BlamedInv(c)
  BY DEF Amp!Init, Amp!NoSession, BlamedInv, Own, Meek
<1> QED
  BY <1>1, <1>2, <1>3, <1>4 DEF ClientInv

\* One call goes on.
LEMMA CallGoes ==
    ASSUME Amp!TypeOK, NEW c \in Calls, NEW next \in Amp!PCs,
           Amp!Goto(c, next)
    PROVE  /\ pc' \in [Calls -> Amp!PCs]
           /\ pc'[c] = next
           /\ \A d \in Calls \ {c} : pc'[d] = pc[d]
BY DEF Amp!TypeOK, Amp!Goto

LEMMA ClientTyped ==
    ASSUME Amp!TypeOK, SessionsInv, Amp!Next PROVE Amp!TypeOK'
<1>1. ASSUME NEW c \in Calls, Amp!Read(c) PROVE Amp!TypeOK'
  <2>1. pc' \in [Calls -> Amp!PCs]
    BY <1>1, CallGoes DEF Amp!Read, Amp!PCs
  <2>2. session \in 0..Amp!Panel
    BY SessionBound DEF Amp!TypeOK
  <2> QED
    BY <1>1, <2>1, <2>2 DEF Amp!Read, Amp!TypeOK, Amp!ampVars
<1>2. ASSUME NEW c \in Calls, Amp!Login(c) PROVE Amp!TypeOK'
  <2>1. /\ pc' \in [Calls -> Amp!PCs]
        /\ result' \in [Calls -> {"none", "ok", "refused", "failed"}]
    BY <1>2, CallGoes DEF Amp!Login, Amp!Return, Amp!PCs, Amp!TypeOK
  <2>2. CASE UNCHANGED <<logins, valid, mine>>
    BY <1>2, <2>1, <2>2 DEF Amp!Login, Amp!TypeOK
  <2>3. CASE /\ logins < MaxSessions
             /\ logins' = logins + 1
             /\ valid' = valid \cup {logins'}
             /\ mine' = [mine EXCEPT ![c] = logins'] \/ UNCHANGED mine
    <3>1. /\ logins' \in 0..MaxSessions /\ logins' \in 0..Amp!Panel
          /\ 0..logins \subseteq 0..logins'
          /\ 1..logins \subseteq 1..logins' /\ logins' \in 1..logins'
      BY <2>3, SessionBound DEF Amp!TypeOK
    <3>2. mine' \in [Calls -> 0..Amp!Panel]
      BY <2>3, <3>1 DEF Amp!TypeOK
    <3>3. valid' \subseteq (1..logins') \cup {Amp!Panel}
      BY <2>3, <3>1 DEF Amp!TypeOK
    <3> QED
      BY <1>2, <2>1, <3>1, <3>2, <3>3 DEF Amp!Login, Amp!TypeOK
  <2> QED
    BY <1>2, <2>2, <2>3 DEF Amp!Login
<1>3. ASSUME NEW c \in Calls, Amp!Store(c) PROVE Amp!TypeOK'
  <2>1. pc' \in [Calls -> Amp!PCs]
    BY <1>3, CallGoes DEF Amp!Store, Amp!PCs
  <2>2. session' \in 0..logins
    BY <1>3 DEF Amp!Store, Amp!TypeOK, SessionsInv, Fresh
  <2> QED
    BY <1>3, <2>1, <2>2 DEF Amp!Store, Amp!TypeOK, Amp!ampVars
<1>4. ASSUME NEW c \in Calls, Amp!Reread(c) PROVE Amp!TypeOK'
  <2>1. pc' \in [Calls -> Amp!PCs]
    BY <1>4, CallGoes DEF Amp!Reread, Amp!PCs
  <2>2. session \in 0..Amp!Panel
    BY SessionBound DEF Amp!TypeOK
  <2> QED
    BY <1>4, <2>1, <2>2 DEF Amp!Reread, Amp!TypeOK, Amp!ampVars
<1>5. ASSUME NEW c \in Calls, Amp!Post(c) PROVE Amp!TypeOK'
  <2>1. pc' \in [Calls -> Amp!PCs]
    BY <1>5, CallGoes DEF Amp!Post, Amp!PCs
  <2>2. dropped \in 0..Amp!Panel /\ mine[c] \in 0..Amp!Panel
    BY SessionBound DEF Amp!TypeOK
  <2>3. blamed' \in [Calls -> SUBSET (0..Amp!Panel)]
    BY <1>5, <2>2 DEF Amp!Post, Amp!TypeOK
  <2> QED
    BY <1>5, <2>1, <2>3 DEF Amp!Post, Amp!TypeOK
<1>6. ASSUME NEW c \in Calls, Amp!Receive(c) PROVE Amp!TypeOK'
  <2>1. /\ pc' \in [Calls -> Amp!PCs]
        /\ result' \in [Calls -> {"none", "ok", "refused", "failed"}]
    BY <1>6, CallGoes DEF Amp!Receive, Amp!Return, Amp!PCs, Amp!TypeOK
  <2> QED
    BY <1>6, <2>1 DEF Amp!Receive, Amp!TypeOK, Amp!ampVars
<1>7. ASSUME NEW c \in Calls, Amp!Clear(c) PROVE Amp!TypeOK'
  <2>1. pc' \in [Calls -> Amp!PCs]
    BY <1>7, CallGoes DEF Amp!Clear, Amp!PCs
  <2>2. session' \in 0..logins /\ dropped' \in 0..logins
    BY <1>7, SessionBound DEF Amp!Clear, Amp!TypeOK, Amp!NoSession
  <2>3. {session} \cap valid \subseteq 1..logins
    BY SessionBound DEF Amp!TypeOK
  <2>4. spoilt' \subseteq 1..logins
    BY <1>7, <2>3 DEF Amp!Clear, Amp!TypeOK
  <2> QED
    BY <1>7, <2>1, <2>2, <2>4 DEF Amp!Clear, Amp!TypeOK, Amp!ampVars
<1>8. ASSUME NEW c \in Calls, Amp!Handle(c) PROVE Amp!TypeOK'
  BY <1>8 DEF Amp!Handle, Amp!TypeOK
<1>9. ASSUME NEW s \in valid, Amp!Expire(s) PROVE Amp!TypeOK'
  BY <1>9 DEF Amp!Expire, Amp!TypeOK
<1> QED
  BY <1>1, <1>2, <1>3, <1>4, <1>5, <1>6, <1>7, <1>8, <1>9
     DEF Amp!Next, Amp!Step

LEMMA AnsweredStep ==
    ASSUME Amp!TypeOK, OwnInv, BorrowedInv, Answered, Amp!Next
    PROVE  Answered'
<1>1. ASSUME NEW c \in Calls,
             Amp!Read(c) \/ Amp!Store(c) \/ Amp!Reread(c) \/ Amp!Clear(c)
      PROVE  Answered'
  BY <1>1 DEF Amp!Read, Amp!Store, Amp!Reread, Amp!Clear, Amp!Goto,
              Amp!ampVars, Amp!TypeOK, Answered
<1>2. ASSUME NEW c \in Calls, Amp!Login(c) PROVE Answered'
  BY <1>2 DEF Amp!Login, Amp!Return, Amp!Goto, Amp!TypeOK, Answered
<1>3. ASSUME NEW c \in Calls, Amp!Post(c) PROVE Answered'
  BY <1>3 DEF Amp!Post, Amp!Goto, Amp!TypeOK, Answered
<1>4. ASSUME NEW c \in Calls, Amp!Receive(c) PROVE Answered'
  BY <1>4 DEF Amp!Receive, Amp!Return, Amp!Goto, Amp!ampVars, Amp!TypeOK,
              Answered
<1>5. ASSUME NEW c \in Calls, Amp!Handle(c) PROVE Answered'
  BY <1>5 DEF Amp!Handle, Amp!TypeOK, Answered
<1>6. ASSUME NEW s \in valid, Amp!Expire(s) PROVE Answered'
  BY <1>6 DEF Amp!Expire, Answered
<1> QED
  BY <1>1, <1>2, <1>3, <1>4, <1>5, <1>6 DEF Amp!Next, Amp!Step
----------------------------------------------------------------------------
(* The AMP client: who holds which session.                                *)

LEMMA BorrowedStep ==
    ASSUME Amp!TypeOK, BorrowedInv, Amp!Next PROVE BorrowedInv'
<1>1. ASSUME NEW c \in Calls,
             \/ Amp!Read(c) \/ Amp!Store(c) \/ Amp!Reread(c)
             \/ Amp!Clear(c) \/ Amp!Login(c)
      PROVE  BorrowedInv'
  <2>1. c \notin Borrowed
    BY <1>1 DEF Amp!Read, Amp!Store, Amp!Reread, Amp!Clear, Amp!Login,
                BorrowedInv
  <2> QED
    BY <1>1, <2>1
       DEF Amp!Read, Amp!Store, Amp!Reread, Amp!Clear, Amp!Login, Amp!Return,
           Amp!Goto, Amp!TypeOK, BorrowedInv
<1>2. ASSUME NEW c \in Calls,
             Amp!Post(c) \/ Amp!Receive(c) \/ Amp!Handle(c)
      PROVE  BorrowedInv'
  BY <1>2 DEF Amp!Post, Amp!Receive, Amp!Handle, Amp!Return, Amp!Goto,
              Amp!TypeOK, BorrowedInv
<1>3. ASSUME NEW s \in valid, Amp!Expire(s) PROVE BorrowedInv'
  BY <1>3 DEF Amp!Expire, BorrowedInv
<1> QED
  BY <1>1, <1>2, <1>3 DEF Amp!Next, Amp!Step

LEMMA OwnStep ==
    ASSUME Amp!TypeOK, OwnInv, SessionsInv, Answered, Amp!Next
    PROVE  OwnInv'
<1>1. ASSUME NEW c \in Calls,
             Amp!Read(c) \/ Amp!Store(c) \/ Amp!Reread(c)
      PROVE  OwnInv'
  BY <1>1 DEF Amp!Read, Amp!Store, Amp!Reread, Amp!Goto, Amp!ampVars,
              Amp!TypeOK, OwnInv, Own, Meek
<1>2. ASSUME NEW c \in Calls, Amp!Login(c) PROVE OwnInv'
  <2>1. \A d \in Calls \ {c} : /\ pc'[d] = pc[d] /\ mine'[d] = mine[d]
                               /\ retried'[d] = retried[d]
                               /\ wire'[d] = wire[d]
    BY <1>2 DEF Amp!Login, Amp!Return, Amp!Goto, Amp!TypeOK
  <2>2. pc'[c] \in {"store", "done"}
    BY <1>2 DEF Amp!Login, Amp!Return, Amp!Goto, Amp!TypeOK
  <2>3. CASE UNCHANGED <<logins, valid, mine>>
    BY <2>1, <2>2, <2>3 DEF OwnInv, Own, Meek
  <2>4. CASE /\ logins < MaxSessions
             /\ logins' = logins + 1
             /\ valid' = valid \cup {logins'}
             /\ mine' = [mine EXCEPT ![c] = logins'] \/ UNCHANGED mine
    <3>1. \A d \in Own : mine'[d] \in 0..logins'
      BY <2>4 DEF OwnInv, Own, Amp!TypeOK
    <3>2. \A d \in Own \ {c} : mine[d] # logins'
      BY <2>4 DEF OwnInv, Own, Amp!TypeOK
    <3> QED
      BY <2>1, <2>2, <2>4, <3>1, <3>2 DEF OwnInv, Own, Meek
  <2> QED
    BY <1>2, <2>3, <2>4 DEF Amp!Login
<1>3. ASSUME NEW c \in Calls, Amp!Post(c) PROVE OwnInv'
  BY <1>3 DEF Amp!Post, Amp!Goto, Amp!TypeOK, OwnInv, Own, Meek
<1>4. ASSUME NEW c \in Calls, Amp!Receive(c) PROVE OwnInv'
  BY <1>4 DEF Amp!Receive, Amp!Return, Amp!Goto, Amp!ampVars, Amp!TypeOK,
              OwnInv, Own, Meek
<1>5. ASSUME NEW c \in Calls, Amp!Clear(c) PROVE OwnInv'
  BY <1>5 DEF Amp!Clear, Amp!Goto, Amp!ampVars, Amp!TypeOK, OwnInv, Own, Meek
<1>6. ASSUME NEW c \in Calls, Amp!Handle(c) PROVE OwnInv'
  BY <1>6 DEF Amp!Handle, Amp!TypeOK, OwnInv, Own, Meek
<1>7. ASSUME NEW s \in valid, Amp!Expire(s) PROVE OwnInv'
  BY <1>7 DEF Amp!Expire, OwnInv, Own, Meek
<1> QED
  BY <1>1, <1>2, <1>3, <1>4, <1>5, <1>6, <1>7 DEF Amp!Next, Amp!Step

\* A session that is of no use stays so.
LEMMA GoneForGood ==
    ASSUME Amp!TypeOK, Amp!Next
    PROVE  \A s : Gone(s) => Gone(s)'
<1>1. logins' \in Nat /\ logins' >= logins /\ logins \in Nat
  BY DEF Amp!TypeOK, Amp!Next, Amp!Step, Amp!Read, Amp!Login, Amp!Store,
         Amp!Reread, Amp!Post, Amp!Receive, Amp!Clear, Amp!Handle,
         Amp!Expire, Amp!ampVars
<1>2. spoilt \subseteq spoilt'
  BY DEF Amp!Next, Amp!Step, Amp!Read, Amp!Login, Amp!Store, Amp!Reread,
         Amp!Post, Amp!Receive, Amp!Clear, Amp!Handle, Amp!Expire
<1>3. \A s \in valid' \ valid : s > logins
  BY DEF Amp!TypeOK, Amp!Next, Amp!Step, Amp!Read, Amp!Login, Amp!Store,
         Amp!Reread, Amp!Post, Amp!Receive, Amp!Clear, Amp!Handle,
         Amp!Expire, Amp!ampVars
<1> QED
  BY <1>1, <1>2, <1>3 DEF Gone
\* What Clear drops is gone.
LEMMA ClearDrops ==
    ASSUME ClientInv, Answered, NEW c \in Calls, Amp!Clear(c)
    PROVE  /\ c \in Own /\ ~retried[c]
           /\ session # 0 /\ session = mine[c] =>
                /\ session' = 0 /\ dropped' = session /\ Gone(dropped)'
           /\ session = 0 \/ session # mine[c] =>
                /\ session' = session /\ dropped' = dropped
<1>1. c \in Own /\ pc[c] = "clear" /\ wire[c] = "unauthorized" /\ ~retried[c]
  BY DEF Amp!Clear, ClientInv, BorrowedInv, OwnInv, Answered, Own
<1>2. c \notin Forbidden => mine[c] \notin valid
  BY <1>1 DEF ClientInv, OwnInv, Meek, Own
<1>3. session \in 0..logins /\ logins \in Nat
  BY DEF ClientInv, Amp!TypeOK
<1>4. session # 0 /\ session = mine[c] => Gone(dropped)'
  <2>1. SUFFICES ASSUME session # 0, session = mine[c] PROVE Gone(dropped)'
    OBVIOUS
  <2>2. session' = 0 /\ dropped' = session /\ UNCHANGED <<logins, valid>>
    BY <2>1 DEF Amp!Clear, Amp!ampVars, Amp!NoSession
  <2>3. session \in 1..logins
    BY <1>3, <2>1
  <2>4. session \notin valid \ spoilt'
    BY <1>2, <2>1 DEF Amp!Clear
  <2> QED
    BY <2>2, <2>3, <2>4 DEF Gone
<1> QED
  BY <1>1, <1>4 DEF Amp!Clear, Amp!NoSession

LEMMA SessionsStep ==
    ASSUME ClientInv, Answered, Amp!Next PROVE SessionsInv'
<1> USE DEF ClientInv
<1>1. ASSUME NEW c \in Calls, Amp!Read(c) \/ Amp!Reread(c)
      PROVE  SessionsInv'
  <2>1. /\ mine'[c] = session /\ pc'[c] # "store"
        /\ \A d \in Calls \ {c} : mine'[d] = mine[d] /\ pc'[d] = pc[d]
        /\ UNCHANGED <<logins, valid, session, dropped, spoilt, blamed>>
    BY <1>1 DEF Amp!Read, Amp!Reread, Amp!Goto, Amp!ampVars, Amp!TypeOK
  <2> QED
    BY <2>1 DEF SessionsInv, Fresh, Gone
<1>2. ASSUME NEW c \in Calls, Amp!Login(c) PROVE SessionsInv'
  <2>1. /\ \A d \in Calls \ {c} : mine'[d] = mine[d] /\ pc'[d] = pc[d]
        /\ UNCHANGED <<session, dropped, spoilt, blamed>>
    BY <1>2 DEF Amp!Login, Amp!Return, Amp!Goto, Amp!TypeOK
  <2>2. CASE logins' = logins /\ valid' = valid /\ mine' = mine
    <3>1. pc'[c] # "store"
      BY <1>2, <2>2 DEF Amp!Login, Amp!Return, Amp!Goto, Amp!TypeOK
    <3> QED
      BY <2>1, <2>2, <3>1 DEF SessionsInv, Fresh, Gone
  <2>3. CASE /\ logins < MaxSessions
             /\ logins' = logins + 1
             /\ valid' = valid \cup {logins'}
             /\ \/ mine'[c] = logins'
                \/ mine' = mine /\ pc'[c] # "store"
    <3>1. logins \in Nat /\ logins' \in Nat /\ Amp!Panel > logins'
      BY <2>3, SessionBound DEF Amp!TypeOK
    <3>2. /\ dropped' # 0 => Gone(dropped)'
          /\ session' # 0 => session' # dropped'
          /\ \A d \in Calls :
                blamed'[d] \subseteq (0..logins') \cup {Amp!Panel}
      BY <2>1, <2>3, <3>1 DEF SessionsInv, Gone
    <3>3. \A d \in Calls \ {c} : pc'[d] = "store" => Fresh(d)'
      BY <2>1, <2>3, <3>1 DEF SessionsInv, Fresh
    <3>4. /\ \A d \in Calls : logins' \notin blamed[d]
          /\ logins' \notin {session, dropped} \cup spoilt
      BY <2>3, <3>1 DEF SessionsInv, Amp!TypeOK
    <3>5. \A d \in Calls \ {c} : mine[d] # logins'
      BY <2>3, <3>1 DEF OwnInv, BorrowedInv, Own
    <3>6. mine'[c] = logins' => Fresh(c)'
      BY <2>1, <2>3, <3>1, <3>4, <3>5 DEF Fresh
    <3> QED
      BY <2>3, <3>2, <3>3, <3>6 DEF SessionsInv
  <2> QED
    BY <1>2, <2>2, <2>3
       DEF Amp!Login, Amp!Return, Amp!Goto, Amp!TypeOK
<1>3. ASSUME NEW c \in Calls, Amp!Store(c) PROVE SessionsInv'
  <2>1. /\ session' = mine[c] /\ Fresh(c) /\ pc'[c] # "store"
        /\ \A d \in Calls \ {c} : pc'[d] = pc[d]
        /\ UNCHANGED <<logins, valid, mine, dropped, spoilt, blamed>>
    BY <1>3 DEF Amp!Store, Amp!Goto, Amp!ampVars, Amp!TypeOK, SessionsInv
  <2> QED
    BY <2>1 DEF SessionsInv, Fresh, Gone
<1>4. ASSUME NEW c \in Calls, Amp!Post(c) PROVE SessionsInv'
  <2> DEFINE b == IF mine[c] = 0 THEN dropped ELSE mine[c]
  <2>1. /\ pc'[c] = "posted"
        /\ \A d \in Calls \ {c} : pc'[d] = pc[d] /\ blamed'[d] = blamed[d]
        /\ blamed'[c] = blamed[c] \cup {b}
        /\ UNCHANGED <<logins, valid, mine, session, dropped, spoilt>>
    BY <1>4 DEF Amp!Post, Amp!Goto, Amp!TypeOK, Amp!NoSession
  <2>2. b \in (0..logins) \cup {Amp!Panel}
    BY <1>4 DEF Amp!TypeOK, OwnInv, BorrowedInv, Own
  <2>3. \A d \in Calls : pc'[d] = "store" => d # c /\ mine[d] # b
    BY <2>1 DEF SessionsInv, Fresh
  <2> HIDE DEF b
  <2> QED
    BY <2>1, <2>2, <2>3 DEF SessionsInv, Fresh, Gone
<1>5. ASSUME NEW c \in Calls, Amp!Receive(c) \/ Amp!Handle(c)
      PROVE  SessionsInv'
  <2>1. /\ \A d \in Calls : pc'[d] = "store" => pc[d] = "store"
        /\ UNCHANGED <<logins, valid, mine, session, dropped, spoilt, blamed>>
    BY <1>5 DEF Amp!Receive, Amp!Handle, Amp!Return, Amp!Goto, Amp!ampVars,
                Amp!TypeOK
  <2> QED
    BY <2>1 DEF SessionsInv, Fresh, Gone
<1>6. ASSUME NEW c \in Calls, Amp!Clear(c) PROVE SessionsInv'
  <2>1. /\ pc'[c] = "read"
        /\ \A d \in Calls \ {c} : pc'[d] = pc[d]
        /\ UNCHANGED <<logins, valid, mine, blamed>>
        /\ spoilt \subseteq spoilt' /\ spoilt' \subseteq spoilt \cup {session}
    BY <1>6 DEF Amp!Clear, Amp!Goto, Amp!ampVars, Amp!TypeOK
  <2>2. \A d \in Calls : pc'[d] = "store" => Fresh(d) /\ d # c
    BY <2>1 DEF SessionsInv
  <2>3. \/ session' = session /\ dropped' = dropped
        \/ session' = 0 /\ dropped' = session /\ Gone(dropped)'
    BY <1>6, ClearDrops
  <2>4. \A d \in Calls : pc'[d] = "store" => Fresh(d)'
    BY <2>1, <2>2, <2>3 DEF Fresh
  <2>5. dropped' # 0 => Gone(dropped)'
    BY <2>1, <2>3 DEF SessionsInv, Gone
  <2> QED
    BY <2>1, <2>3, <2>4, <2>5 DEF SessionsInv
<1>7. ASSUME NEW s \in valid, Amp!Expire(s) PROVE SessionsInv'
  BY <1>7 DEF Amp!Expire, SessionsInv, Fresh, Gone
<1> QED
  BY <1>1, <1>2, <1>3, <1>4, <1>5, <1>6, <1>7 DEF Amp!Next, Amp!Step
----------------------------------------------------------------------------
(* The AMP client: what a call has failed by.                              *)

\* What may happen to the shared session while a call stands still.
LEMMA StandingStill ==
    ASSUME ClientInv, Amp!Next, NEW c \in Meek,
           UNCHANGED <<pc[c], mine[c], retried[c], result[c], blamed[c]>>,
           \/ session' = session /\ dropped' = dropped
           \/ session # 0 /\ session' = 0 /\ dropped' = session
           \/ session' \notin {0} \cup blamed[c] /\ dropped' = dropped
    PROVE  BlamedInv(c)'
<1>1. BlamedInv(c)
  BY DEF ClientInv
<1>2. \A s : Gone(s) => Gone(s)'
  BY GoneForGood DEF ClientInv
<1>3. /\ \A s \in 0..logins : s \in 0..logins'
      /\ \A s \in 1..logins : s \in 1..logins'
  BY DEF ClientInv, Amp!TypeOK, Amp!Next, Amp!Step, Amp!Read, Amp!Login,
         Amp!Store, Amp!Reread, Amp!Post, Amp!Receive, Amp!Clear,
         Amp!Handle, Amp!Expire, Amp!ampVars
<1>4. pc[c] \in {"reread", "post"} =>
        /\ ~retried[c] => blamed[c] = {}
        /\ session \notin blamed[c]
  BY <1>1 DEF BlamedInv
<1>5. \A b : Failing(c, b) /\ b \in blamed[c] => Failing(c, b)'
  <2>1. SUFFICES ASSUME NEW b, Failing(c, b), b \in blamed[c], mine[c] = 0
                 PROVE  Gone(b)' /\ b # session'
    BY DEF Failing
  <2>2. Gone(b) /\ b # session /\ b # 0
    BY <2>1 DEF Failing, Gone
  <2> QED
    BY <1>2, <2>1, <2>2
<1>6. /\ pc'[c] = "reread" /\ session' = 0 =>
            dropped' \notin {0} \cup blamed'[c]
      /\ pc'[c] = "post" => mine'[c] \notin blamed'[c]
      /\ pc'[c] = "post" /\ mine'[c] = 0 =>
            dropped' \notin {0} \cup blamed'[c]
      /\ pc'[c] \notin {"posted", "clear", "done"} /\ ~retried'[c] =>
            blamed'[c] = {}
  BY <1>1, <1>4 DEF BlamedInv
<1>7. pc'[c] \in {"posted", "clear"} /\ ~retried'[c] =>
        \E b \in 0..logins' : blamed'[c] = {b} /\ Failing(c, b)'
  BY <1>1, <1>3, <1>5 DEF BlamedInv
<1>8. pc'[c] \notin {"posted", "clear", "done"} /\ retried'[c] =>
        \E a \in 1..logins' : blamed'[c] = {a} /\ Gone(a)' /\ a # session'
  <2>1. SUFFICES ASSUME NEW a \in 1..logins, blamed[c] = {a}, Gone(a),
                        a # session
                 PROVE  Gone(a)' /\ a # session'
    BY <1>1, <1>3 DEF BlamedInv
  <2> QED
    BY <1>2, <2>1
<1>9. pc'[c] = "posted" /\ retried'[c] =>
        \E a, b \in 1..logins' :
            a # b /\ blamed'[c] = {a, b} /\ Gone(a)' /\ Failing(c, b)'
  BY <1>1, <1>2, <1>3, <1>5 DEF BlamedInv
<1>10. result'[c] = "refused" =>
        \E a, b \in 1..logins' :
            a # b /\ blamed'[c] = {a, b} /\ Gone(a)' /\ Gone(b)'
  BY <1>1, <1>2, <1>3 DEF BlamedInv
<1> QED
  BY <1>6, <1>7, <1>8, <1>9, <1>10 DEF BlamedInv

LEMMA ReadBlames ==
    ASSUME ClientInv, Answered, NEW c \in Meek, Amp!Read(c) \/ Amp!Reread(c)
    PROVE  BlamedInv(c)'
<1>1. /\ mine'[c] = session
      /\ \/ pc[c] = "read" /\ pc'[c] = "post" /\ session # 0
         \/ pc[c] = "read" /\ pc'[c] = "login"
         \/ pc[c] = "reread" /\ pc'[c] = "post"
      /\ UNCHANGED <<logins, valid, session, retried, result, dropped, spoilt,
                     blamed>>
  BY DEF Amp!Read, Amp!Reread, Amp!Goto, Amp!ampVars, Amp!NoSession, Meek,
         Own, ClientInv, Amp!TypeOK
<1>2. BlamedInv(c) /\ result[c] = "none"
  BY <1>1 DEF ClientInv, Answered, Meek, Own
<1>3. session \notin blamed[c]
  BY <1>1, <1>2 DEF BlamedInv
<1> QED
  BY <1>1, <1>2, <1>3 DEF BlamedInv, Gone

LEMMA LoginBlames ==
    ASSUME ClientInv, Amp!Next, NEW c \in Meek, Amp!Login(c)
    PROVE  BlamedInv(c)'
<1>1. /\ pc[c] = "login"
      /\ \/ pc'[c] = "store" /\ UNCHANGED result
         \/ pc'[c] = "done" /\ result'[c] = "failed"
      /\ UNCHANGED <<session, retried, blamed>>
  BY DEF Amp!Login, Amp!Goto, Amp!Return, Meek, Own, ClientInv, Amp!TypeOK
<1>2. \A s : Gone(s) => Gone(s)'
  BY GoneForGood DEF ClientInv
<1>3. \A s \in 1..logins : s \in 1..logins'
  BY DEF ClientInv, Amp!TypeOK, Amp!Login
<1>4. BlamedInv(c) /\ SessionsInv
  BY DEF ClientInv
<1> QED
  BY <1>1, <1>2, <1>3, <1>4 DEF BlamedInv

LEMMA StoreBlames ==
    ASSUME ClientInv, NEW c \in Meek, Amp!Store(c) PROVE BlamedInv(c)'
<1>1. /\ pc[c] = "store" /\ pc'[c] = "reread"
      /\ session' = mine[c] /\ mine[c] \notin {0} \cup blamed[c]
      /\ UNCHANGED <<logins, valid, retried, result, spoilt, blamed>>
  BY DEF Amp!Store, Amp!Goto, Amp!ampVars, Meek, Own, ClientInv, Amp!TypeOK,
         SessionsInv, Fresh
<1>2. BlamedInv(c)
  BY DEF ClientInv
<1> QED
  BY <1>1, <1>2 DEF BlamedInv, Gone

LEMMA PostBlames ==
    ASSUME ClientInv, Answered, NEW c \in Meek, Amp!Post(c)
    PROVE  BlamedInv(c)'
<1>0. PICK b : b = IF mine[c] = 0 THEN dropped ELSE mine[c]
  OBVIOUS
<1>1. /\ pc[c] = "post" /\ pc'[c] = "posted"
      /\ blamed'[c] = blamed[c] \cup {b}
      /\ UNCHANGED <<logins, valid, mine, session, retried, result, dropped,
                     spoilt>>
  BY <1>0 DEF Amp!Post, Amp!Goto, Amp!NoSession, Meek, Own, ClientInv,
              Amp!TypeOK
<1>2. BlamedInv(c) /\ result[c] = "none"
  BY <1>1 DEF ClientInv, Answered, Meek, Own
<1>3. b \notin {0} \cup blamed[c]
  BY <1>0, <1>1, <1>2 DEF BlamedInv
<1>4. b \in 0..logins /\ b \in 1..logins
  <2>1. mine[c] \in 0..logins /\ dropped \in 0..logins
    BY DEF ClientInv, Amp!TypeOK, OwnInv, Meek
  <2> QED
    BY <1>0, <1>3, <2>1
<1>5. Failing(c, b)'
  <2>1. SUFFICES ASSUME mine[c] = 0
                 PROVE  Gone(dropped) /\ dropped # session
    BY <1>0, <1>1 DEF Failing, Gone
  <2>2. dropped # 0
    BY <1>0, <1>3, <2>1
  <2> QED
    BY <2>2 DEF ClientInv, SessionsInv
<1>6. pc'[c] = "posted" /\ retried'[c] = retried[c] /\ result'[c] = "none"
  BY <1>1, <1>2
<1>7. CASE ~retried[c]
  <2>1. blamed'[c] = {b} /\ b \in 0..logins'
    BY <1>1, <1>2, <1>4, <1>7 DEF BlamedInv
  <2> QED
    BY <1>5, <1>6, <1>7, <2>1 DEF BlamedInv
<1>8. CASE retried[c]
  <2>1. PICK a \in 1..logins : blamed[c] = {a} /\ Gone(a)
    BY <1>1, <1>2, <1>8 DEF BlamedInv
  <2>2. /\ a # b /\ blamed'[c] = {a, b} /\ Gone(a)'
        /\ a \in 1..logins' /\ b \in 1..logins'
    BY <1>1, <1>3, <1>4, <2>1 DEF Gone
  <2> QED
    BY <1>5, <1>6, <1>8, <2>2 DEF BlamedInv
<1> QED
  BY <1>7, <1>8

LEMMA ReceiveBlames ==
    ASSUME ClientInv, Answered, NEW c \in Meek, Amp!Receive(c)
    PROVE  BlamedInv(c)'
<1>1. /\ pc[c] = "posted"
      /\ \/ pc'[c] = "done" /\ result'[c] \in {"ok", "failed"}
         \/ /\ pc'[c] = "done" /\ result'[c] = "refused"
            /\ retried[c] /\ wire[c] = "unauthorized"
         \/ pc'[c] = "clear" /\ ~retried[c] /\ result' = result
      /\ UNCHANGED <<logins, valid, mine, session, retried, dropped, spoilt,
                     blamed>>
  BY DEF Amp!Receive, Amp!Return, Amp!Goto, Amp!ampVars, Meek, Own,
         ClientInv, Amp!TypeOK
<1>2. BlamedInv(c) /\ result[c] = "none"
  BY <1>1 DEF ClientInv, Answered, Meek, Own
<1>3. CASE pc'[c] = "done" /\ result'[c] = "refused"
  <2>1. mine[c] \notin valid
    BY <1>1, <1>3 DEF ClientInv, OwnInv, Meek
  <2>2. PICK a \in 1..logins, b \in 1..logins :
            a # b /\ blamed[c] = {a, b} /\ Gone(a) /\ Failing(c, b)
    BY <1>1, <1>2, <1>3 DEF BlamedInv
  <2>3. Gone(b)
    BY <2>1, <2>2 DEF Failing, Gone
  <2> QED
    BY <1>1, <1>3, <2>2, <2>3 DEF BlamedInv, Gone
<1>4. CASE pc'[c] = "done" /\ result'[c] # "refused"
  BY <1>4 DEF BlamedInv
<1>5. CASE pc'[c] = "clear"
  BY <1>1, <1>2, <1>5 DEF BlamedInv, Failing, Gone
<1> QED
  BY <1>1, <1>3, <1>4, <1>5

LEMMA ClearBlames ==
    ASSUME ClientInv, Answered, Amp!Next, NEW c \in Meek, Amp!Clear(c)
    PROVE  BlamedInv(c)'
<1>1. /\ pc[c] = "clear" /\ pc'[c] = "read" /\ retried'[c]
      /\ UNCHANGED <<logins, valid, mine, result, blamed>>
  BY DEF Amp!Clear, Amp!Goto, Amp!ampVars, Meek, Own, ClientInv, Amp!TypeOK
<1>2. /\ ~retried[c] /\ wire[c] = "unauthorized" /\ result[c] = "none"
      /\ mine[c] \notin valid /\ BlamedInv(c)
  BY <1>1 DEF ClientInv, OwnInv, Answered, Meek, Own
<1>3. PICK b \in 0..logins : blamed[c] = {b} /\ Failing(c, b)
  BY <1>1, <1>2 DEF BlamedInv
<1>4. Gone(b) /\ b # session'
  <2>1. CASE mine[c] # 0
    BY <1>2, <1>3, <2>1 DEF Failing, Gone, Amp!Clear, Amp!NoSession
  <2>2. CASE mine[c] = 0
    BY <1>3, <2>2 DEF Failing, Amp!Clear, Amp!NoSession
  <2> QED
    BY <2>1, <2>2
<1>5. Gone(b)' /\ b \in 1..logins'
  BY <1>1, <1>4, GoneForGood DEF ClientInv, Gone
<1> QED
  BY <1>1, <1>2, <1>3, <1>4, <1>5 DEF BlamedInv
\* Whoever takes a step.
LEMMA HandleBlames ==
    ASSUME ClientInv, NEW c \in Meek, Amp!Handle(c) PROVE BlamedInv(c)'
<1>1. UNCHANGED <<logins, valid, session, pc, mine, retried, result, dropped,
                  spoilt, blamed>>
  BY DEF Amp!Handle
<1> QED
  BY <1>1 DEF ClientInv, BlamedInv, Failing, Gone

\* What the step of one call does to the shared session, as another sees it.
LEMMA SharedSession ==
    ASSUME ClientInv, Answered, NEW x \in Calls, Amp!Step(x), NEW c \in Calls
    PROVE  \/ session' = session /\ dropped' = dropped
           \/ session # 0 /\ session' = 0 /\ dropped' = session
           \/ session' \notin {0} \cup blamed[c] /\ dropped' = dropped
<1>1. CASE Amp!Store(x)
  <2>1. session' = mine[x] /\ Fresh(x) /\ dropped' = dropped
    BY <1>1 DEF Amp!Store, ClientInv, SessionsInv
  <2>2. mine[x] \notin {0} \cup blamed[c]
    BY <2>1 DEF Fresh
  <2> QED
    BY <2>1, <2>2
<1>2. CASE Amp!Clear(x)
  BY <1>2, ClearDrops
<1>3. CASE \/ Amp!Read(x) \/ Amp!Login(x) \/ Amp!Reread(x) \/ Amp!Post(x)
           \/ Amp!Receive(x) \/ Amp!Handle(x)
  BY <1>3 DEF Amp!Read, Amp!Login, Amp!Reread, Amp!Post, Amp!Receive,
              Amp!Handle
<1> QED
  BY <1>1, <1>2, <1>3 DEF Amp!Step

LEMMA BlamedStep ==
    ASSUME ClientInv, Answered, Amp!Next, NEW c \in Meek PROVE BlamedInv(c)'
<1>1. c \in Calls
  BY DEF Meek, Own
<1>2. CASE Amp!Step(c)
  BY <1>2, ReadBlames, LoginBlames, StoreBlames, PostBlames, ReceiveBlames,
     ClearBlames, HandleBlames DEF Amp!Step
<1>3. ASSUME NEW x \in Calls \ {c}, Amp!Step(x) PROVE BlamedInv(c)'
  <2>1. UNCHANGED <<pc[c], mine[c], retried[c], result[c], blamed[c]>>
    BY <1>1, <1>3
       DEF Amp!Step, Amp!Read, Amp!Login, Amp!Store, Amp!Reread, Amp!Post,
           Amp!Receive, Amp!Clear, Amp!Handle, Amp!Goto, Amp!Return,
           ClientInv, Amp!TypeOK
  <2> QED
    BY <1>1, <1>3, <2>1, SharedSession, StandingStill
<1>4. ASSUME NEW s \in valid, Amp!Expire(s) PROVE BlamedInv(c)'
  <2>1. /\ UNCHANGED <<pc[c], mine[c], retried[c], result[c], blamed[c]>>
        /\ session' = session /\ dropped' = dropped
    BY <1>4 DEF Amp!Expire
  <2> QED
    BY <2>1, StandingStill
<1> QED
  BY <1>1, <1>2, <1>3, <1>4 DEF Amp!Next

LEMMA ClientStep ==
    ASSUME ClientInv, Answered, Amp!Next PROVE ClientInv' /\ Answered'
<1>1. /\ Amp!TypeOK /\ BorrowedInv /\ OwnInv /\ SessionsInv
  BY DEF ClientInv
<1>2. \A c \in Meek : BlamedInv(c)'
  BY BlamedStep
<1>3. Answered' /\ Amp!TypeOK' /\ BorrowedInv' /\ OwnInv' /\ SessionsInv'
  BY <1>1, AnsweredStep, ClientTyped, BorrowedStep, OwnStep, SessionsStep
<1> QED
  BY <1>2, <1>3 DEF ClientInv, Meek, Own

LEMMA ClientStutters ==
    ASSUME ClientInv, Answered, UNCHANGED ampVars
    PROVE  ClientInv' /\ Answered'
BY DEF ampVars, ClientInv, Answered, Amp!TypeOK, BorrowedInv, OwnInv,
       SessionsInv, Fresh, BlamedInv, Failing, Gone

LEMMA Client == Spec => [](ClientInv /\ Answered)
<1>1. ASSUME ClientInv /\ Answered, [Next]_web
      PROVE  (ClientInv /\ Answered)'
  BY <1>1, ClientStep, ClientStutters
     DEF Next, Browse, Grow, Count, Counting, AskAmp, Edit, web
<1>2. Amp!Init => ClientInv /\ Answered
  BY ClientInit
<1> QED
  BY <1>1, <1>2, PTL DEF Spec, Init

\* A permitted call on the daemon's own client is refused only if two
\* sessions were lost under it, one after the other (Client.Call).
THEOREM StaleIsUnseen == Spec => []Unseen
<1>1. ASSUME ClientInv, Answered PROVE Unseen
  <2>1. SUFFICES ASSUME NEW c \in Meek, result[c] = "refused"
                 PROVE  /\ Amp!Cardinality(blamed[c]) = 2
                        /\ \A s \in blamed[c] : /\ s \in Amp!Sessions
                                                /\ s \notin valid \ spoilt
    BY SessionBound DEF Unseen, Amp!Unseen, Meek, Own
  <2>2. PICK a \in 1..logins, b \in 1..logins :
            a # b /\ blamed[c] = {a, b} /\ Gone(a) /\ Gone(b)
    BY <1>1, <2>1 DEF ClientInv, BlamedInv
  <2>3. Cardinality({a, b}) = 2
    <3>1. IsFiniteSet({a}) /\ Cardinality({a}) = 1
      BY FS_Singleton
    <3>2. Cardinality({a} \cup {b}) = 2
      BY <2>2, <3>1, FS_AddElement
    <3>3. {a} \cup {b} = {a, b}
      OBVIOUS
    <3> QED
      BY <3>2, <3>3
  <2>4. \A S : Amp!Cardinality(S) = Cardinality(S)
    BY Zenon DEF Amp!Cardinality, Cardinality
  <2>5. 1..logins \subseteq Amp!Sessions
    BY <1>1, SessionBound DEF ClientInv, Amp!TypeOK, Amp!Sessions
  <2> QED
    BY <2>2, <2>3, <2>4, <2>5 DEF Gone
<1> QED
  BY <1>1, Client, PTL

\* Whatever the client retries, each call is carried out once at the most,
\* and its caller is told no more than is so: the client implements AmpCall.
THEOREM ClientKeepsAmpCall == Spec => CallKept
<1>1. Init => Amp!Contract!Init
  BY DEF Init, Amp!Init, Amp!Contract!Init
<1>2. ASSUME ClientInv, Answered, [Next]_web
      PROVE  [Amp!Contract!Next]_(Amp!Contract!vars)
  <2>1. ASSUME NEW c \in Calls, Amp!Handle(c)
        PROVE  Amp!Contract!CarryOut(c) \/ UNCHANGED Amp!Contract!vars
    <3>1. carried[c] = 0 /\ result[c] \in {"none", "failed"}
      BY <1>2, <2>1 DEF Amp!Handle, Answered, ClientInv, Amp!TypeOK
    <3> QED
      BY <2>1, <3>1
         DEF Amp!Handle, Amp!Contract!CarryOut, Amp!Contract!vars,
             ClientInv, Amp!TypeOK
  <2>2. ASSUME NEW c \in Calls, NEW r \in {"ok", "refused", "failed"},
               Amp!Return(c, r), UNCHANGED carried, pc[c] # "done",
               r = "ok" => wire[c] = "ok",
               r = "refused" => wire[c] = "unauthorized"
        PROVE  Amp!Contract!Return(c, r)
    BY <1>2, <2>2 DEF Amp!Return, Amp!Contract!Return, Answered
  <2>3. ASSUME NEW c \in Calls, Amp!Receive(c) \/ Amp!Login(c)
        PROVE  \/ \E r \in {"ok", "refused", "failed"} :
                    Amp!Contract!Return(c, r)
               \/ UNCHANGED Amp!Contract!vars
    BY <2>2, <2>3
       DEF Amp!Receive, Amp!Login, Amp!ampVars, Amp!Contract!vars
  <2>4. ASSUME NEW c \in Calls,
               \/ Amp!Read(c) \/ Amp!Store(c) \/ Amp!Reread(c)
               \/ Amp!Post(c) \/ Amp!Clear(c)
        PROVE  UNCHANGED Amp!Contract!vars
    BY <2>4 DEF Amp!Read, Amp!Store, Amp!Reread, Amp!Post, Amp!Clear,
                Amp!ampVars, Amp!Contract!vars
  <2>5. CASE AskAmp
    BY <2>1, <2>3, <2>4, <2>5
       DEF AskAmp, Amp!Next, Amp!Step, Amp!Expire, Amp!Contract!Next,
           Amp!Contract!vars
  <2>6. CASE UNCHANGED ampVars
    BY <2>6 DEF ampVars, Amp!Contract!vars
  <2> QED
    BY <1>2, <2>5, <2>6
       DEF Next, Browse, Grow, Count, Counting, Edit, web
<1> QED
  BY <1>1, <1>2, Client, PTL
     DEF Spec, CallKept, Amp!CallKept, Amp!Contract!Spec

\* The totals, the cache of trees, a tree and the client are what they were
\* declared to be.
THEOREM Typed == Spec => [](/\ Stats!TypeOK /\ Cache!TypeOK
                            /\ Shape!TypeOK /\ Amp!TypeOK)
<1>1. /\ StatsInv => Stats!TypeOK
      /\ CacheInv => Cache!TypeOK
      /\ ClientInv => Amp!TypeOK
  BY DEF StatsInv, CacheInv, ClientInv
<1> QED
  BY <1>1, Counted, Cached, TreeTyped, Client, PTL
=============================================================================
