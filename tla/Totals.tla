------------------------------- MODULE Totals -------------------------------
(***************************************************************************)
(* web.statsCache: the repository's totals on the overview page, which are *)
(* one walk of the whole store and therefore cached.  The first request to *)
(* ask pays for the walk; later ones are given what there is, and a        *)
(* goroutine refreshes it.  A request takes long after it was given the    *)
(* totals (handleStatus goes on to ask AMP), a page polls without waiting  *)
(* for its last poll (Plugin.js refresh), and so replies overtake each     *)
(* other.                                                                  *)
(*                                                                         *)
(* The repository's totals are a version that grows with every change.  A  *)
(* walk that overlaps changes comes to any version from its begin to its   *)
(* end.                                                                    *)
(***************************************************************************)
EXTENDS Naturals

CONSTANTS
    Pages,
    Polls,      \* GET /status that may be under way
    pageOf,     \* the page each of them is of
    MaxVersion  \* bound: how often the repository changes

TotalsAssumption ==
    MaxVersion \in Nat \ {0} /\ pageOf \in [Polls -> Pages]

VARIABLES
    version,    \* what a walk would find
    value, at, loading,  \* statsCache; `at' is "zero", "fresh" or "stale"
    paying,     \* the polls that walk
    refreshing, \* the goroutine walks
    since,      \* the version when each of these polls began
    begun,      \* the version when the goroutine began
    given,      \* the polls that were given totals, and are still to answer
    reply,      \* what they were given
    shown,      \* what each page shows
    unsaid      \* a web job has changed the repository, invalidate is due

cacheVars == <<value, at, loading>>
walkVars == <<paying, refreshing, since, begun>>
pageVars == <<given, reply, shown>>
vars == <<version, cacheVars, walkVars, pageVars, unsaid>>

Versions == 0..MaxVersion

TypeOK ==
    /\ version \in 1..MaxVersion
    /\ value \in Versions
    /\ at \in {"zero", "fresh", "stale"}
    /\ loading \in BOOLEAN
    /\ paying \subseteq Polls
    /\ refreshing \in BOOLEAN
    /\ since \in [Polls -> Versions]
    /\ begun \in Versions
    /\ given \subseteq Polls
    /\ reply \in [Polls -> Versions]
    /\ shown \in [Pages -> Versions]
    /\ unsaid \in BOOLEAN

Init ==
    /\ version = 1
    /\ value = 0 /\ at = "zero" /\ loading = FALSE
    /\ paying = {} /\ refreshing = FALSE
    /\ since = [r \in Polls |-> 0] /\ begun = 0
    /\ given = {} /\ reply = [r \in Polls |-> 0]
    /\ shown = [p \in Pages |-> 0]
    /\ unsaid = FALSE

----------------------------------------------------------------------------

\* A variant of Pay: several may walk at a time.
PayTogether(r) ==
    /\ r \notin paying \cup given
    /\ at = "zero"
    /\ paying' = paying \cup {r}
    /\ since' = [since EXCEPT ![r] = version]
    /\ UNCHANGED <<version, cacheVars, refreshing, begun, pageVars, unsaid>>

\* get, with nothing to serve: this caller pays for it.
Pay(r) ==
    /\ r \notin paying \cup given
    /\ at = "zero" /\ ~loading
    /\ loading' = TRUE
    /\ paying' = paying \cup {r}
    /\ since' = [since EXCEPT ![r] = version]
    /\ UNCHANGED <<version, value, at, refreshing, begun, pageVars, unsaid>>

\* What get returns is not yet on the page.
Give(r, v) == given' = given \cup {r} /\ reply' = [reply EXCEPT ![r] = v]

\* get, otherwise: what there is, and a refresh if that is stale and nobody
\* is at it.
Serve(r) ==
    /\ r \notin paying \cup given
    /\ ~(at = "zero" /\ ~loading)
    /\ Give(r, value)
    /\ IF at # "fresh" /\ ~loading
         THEN loading' = TRUE /\ refreshing' = TRUE /\ begun' = version
         ELSE UNCHANGED <<loading, refreshing, begun>>
    /\ UNCHANGED <<version, value, at, paying, since, shown, unsaid>>

\* What comes of a walk that began at version v.
Found(v) == value' \in v..version /\ at' = "fresh"

\* The payer's walk is over; an error (the page hung up, say) keeps what was.
Paid(r) ==
    /\ r \in paying
    /\ Found(since[r]) \/ UNCHANGED <<value, at>>
    /\ loading' = FALSE
    /\ paying' = paying \ {r}
    /\ since' = [since EXCEPT ![r] = 0]
    /\ Give(r, value')
    /\ UNCHANGED <<version, refreshing, begun, shown, unsaid>>

\* The reply arrives, perhaps after later ones of other polls, and the page
\* shows it; or the request fails.
Over(r) ==
    /\ r \in given
    /\ given' = given \ {r}
    /\ reply' = [reply EXCEPT ![r] = 0]
    /\ UNCHANGED <<version, cacheVars, walkVars, unsaid>>
Arrive(r) == Over(r) /\ shown' = [shown EXCEPT ![pageOf[r]] = reply[r]]
Fail(r) == Over(r) /\ UNCHANGED shown

\* A variant of Refreshed: an error returns early.
RefreshedOnSuccess ==
    /\ refreshing
    /\ refreshing' = FALSE
    /\ begun' = 0
    /\ \/ Found(begun) /\ loading' = FALSE
       \/ UNCHANGED <<value, at, loading>>
    /\ UNCHANGED <<version, paying, since, pageVars, unsaid>>

\* refresh
Refreshed ==
    /\ refreshing
    /\ Found(begun) \/ UNCHANGED <<value, at>>
    /\ loading' = FALSE
    /\ refreshing' = FALSE
    /\ begun' = 0
    /\ UNCHANGED <<version, paying, since, pageVars, unsaid>>

\* statsMaxAge has passed.
Ages ==
    /\ at = "fresh"
    /\ at' = "stale"
    /\ UNCHANGED <<version, value, loading, walkVars, pageVars, unsaid>>

\* Backups, moves and prunes; those that a page submitted are followed by an
\* invalidate, the scheduler's and the two moves are not.
Changes ==
    /\ version < MaxVersion
    /\ version' = version + 1
    /\ unsaid' \in {unsaid, TRUE}
    /\ UNCHANGED <<cacheVars, walkVars, pageVars>>

\* invalidate does not care for a walk that is under way.
invalidate ==
    /\ unsaid
    /\ unsaid' = FALSE
    /\ at' = "zero"
    /\ UNCHANGED <<version, value, loading, walkVars, pageVars>>

Next ==
    \/ \E r \in Polls : Pay(r) \/ Serve(r) \/ Paid(r) \/ Arrive(r) \/ Fail(r)
    \/ Refreshed \/ Ages \/ Changes \/ invalidate

Spec == Init /\ [][Next]_vars

----------------------------------------------------------------------------

\* The totals never go back to an older state of the repository: not in the
\* cache, since there is one walk at a time, and not from one poll to the
\* next: whoever is given totals later, is given no older ones than those
\* that others were given before and are yet to show, or show.  (A page may
\* go back for a moment all the same: the replies may arrive in any order.)
NeverBackwards ==
    [][/\ value' >= value
       /\ \A r \in given' \ given :
            /\ \A q \in given : reply'[r] >= reply[q]
            /\ \A p \in Pages : reply'[r] >= shown[p]]_vars
=============================================================================
