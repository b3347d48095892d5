-------------------------------- MODULE Ops --------------------------------
(***************************************************************************)
(* The jobs of ops.Runner on one instance and one repository: backups,     *)
(* restores into the live instance or a scratch directory, with the        *)
(* snapshot taken before, and housekeeping (check, forget, empty trash),   *)
(* while the game is started and stopped from the panel, players change    *)
(* files, the operator forgets snapshots by hand and objects go bad.       *)
(*                                                                         *)
(* One job runs at a time (JobRunner).  How a backup reads files is        *)
(* Capture's, how objects are collected Repository's: here a backup is one *)
(* step, and a snapshot the contents it lists.  A content is a number, 0   *)
(* for a file that is not there.                                           *)
(***************************************************************************)
EXTENDS Retention, Exclude

CONSTANTS
    Policies,   \* retention policies that may be configured
    Kinds,      \* jobs to be had: "backup", "restore", "housekeeping"
    Early,      \* the first snapshots, taken before there were any rules
    MaxTime,    \* bound on the clock, and so on the snapshots
    MaxEvents,  \* bound on what happens besides the jobs and the game's moves
    Ticks,      \* selections that are ticked
    MaxJobs     \* bound on the restores asked for

Files == Paths \ Dirs
PreRestore == "pre-restore"
JobKinds == {"backup", "restore", "housekeeping"}

ASSUME OpsAssumption ==
    /\ Kinds \subseteq JobKinds
    /\ {Early, MaxTime, MaxEvents, MaxJobs} \subseteq Nat
    /\ Ticks \subseteq SUBSET Paths /\ {} \in Ticks
    /\ \A p \in Policies :
          /\ Valid(p) /\ {p.last, p.within, p.floor} \subseteq Int
          /\ \A b \in p.buckets : b.size \in Nat \ {0} /\ b.count \in Int

VARIABLES
    \* The instance.
    game,       \* "stopped", or "up": any other state
    live,       \* content of its files
    events,     \* what happened so far, by MaxEvents
    \* The repository.
    now,        \* the time of the next snapshot
    snaps,      \* the live set
    trash,      \* forgotten snapshots
    bad,        \* for each content: "ok", "missing", "rotten"
    policy,     \* the retention policy in the settings
    \* The job.
    pc,         \* "idle", "asked", "check", "pre", "plan", "load", "write",
                \* "done", "hkcheck", "hkforget", "hkprune"
    req,        \* the restore asked for
    scratch,    \* the scratch directory
    todo,       \* entries not yet written
    jobs,       \* restores so far
    \* What an observer remembers.
    taken,      \* every snapshot ever taken
    byHand,     \* times of those the operator forgot
    was,        \* the instance when the job passed its check
    pre,        \* the time of the job's pre-restore snapshot, or 0
    lost,       \* replaced contents, with the time of that snapshot
    stirred     \* the game was started or stopped since then

instance == <<game, live, events>>
repository == <<now, snaps, trash, bad>>
job == <<pc, req, scratch, todo, jobs>>
ghosts == <<taken, byHand, was, pre, lost, stirred>>
vars == <<instance, repository, policy, job, ghosts>>

Contents == 0..MaxEvents + 1
Content == [Files -> Contents]
Nothing == [f \in Files |-> 0]
Times == 1..MaxTime
Snaps == [at : Times, tags : SUBSET {PreRestore}, whole : BOOLEAN,
          holds : Content]
NoReq == [at |-> 0, ticked |-> {}, into |-> "scratch", dry |-> FALSE,
          pre |-> FALSE]
\* pre counts only for a real restore into the instance.
Reqs == {r \in [at : Times \cup {0}, ticked : Ticks,
                into : {"instance", "scratch"}, dry : BOOLEAN, pre : BOOLEAN] :
           r.pre => r.into = "instance" /\ ~r.dry}
PCs == {"idle", "asked", "check", "pre", "plan", "load", "write", "done",
        "hkcheck", "hkforget", "hkprune"}

TypeOK ==
    /\ game \in {"stopped", "up"}
    /\ live \in Content /\ events \in 0..MaxEvents
    /\ now \in 1..MaxTime + 1
    /\ snaps \subseteq Snaps /\ trash \subseteq taken /\ taken \subseteq Snaps
    /\ snaps \cap trash = {} /\ snaps \subseteq taken
    /\ bad \in [Contents -> {"ok", "missing", "rotten"}]
    /\ policy \in Policies
    /\ pc \in PCs /\ req \in Reqs /\ jobs \in 0..MaxJobs
    /\ scratch \in Content /\ todo \subseteq Paths
    /\ byHand \subseteq Times /\ was \in Content
    /\ pre \in Times \cup {0} /\ stirred \in BOOLEAN
    /\ \A x \in lost : x \in [file : Files, content : Contents, at : Times]

Init ==
    /\ game \in {"stopped", "up"}
    /\ live = [f \in Files |-> 1]
    /\ events = 0
    /\ now = 1
    /\ snaps = {} /\ trash = {} /\ taken = {}
    /\ bad = [c \in Contents |-> "ok"]
    /\ policy \in Policies
    /\ pc = "idle" /\ req = NoReq /\ jobs = 0
    /\ scratch = Nothing /\ todo = {}
    /\ byHand = {} /\ lost = {} /\ pre = 0 /\ stirred = FALSE
    /\ was = Nothing

----------------------------------------------------------------------------
(* Helpers.                                                                *)

\* What a backup lists now; a partial one misses a file.
Listed == {f \in Files : live[f] # 0 /\ (now > Early => Walked(f))}
Holding(fs) == [f \in Files |-> IF f \in fs THEN live[f] ELSE 0]

Happens(n) == events + n <= MaxEvents /\ events' = events + n

\* A snapshot is taken, whole or, with warnings, without some file.
Snapshot(tags) ==
    /\ now <= MaxTime
    /\ \E fs \in {Listed} \cup {Listed \ {f} : f \in Listed} :
         LET s == [at |-> now, tags |-> tags, whole |-> fs = Listed,
                   holds |-> Holding(fs)]
         IN  /\ Happens(IF s.whole THEN 0 ELSE 1)
             /\ snaps' = snaps \cup {s} /\ taken' = taken \cup {s}
    /\ now' = now + 1
    /\ UNCHANGED <<trash, bad>>

Entries(s) == {d \in Dirs : s.at > Early => Walked(d)}
              \cup {f \in Files : s.holds[f] # 0}
Asked == {s \in snaps : s.at = req.at}

Over(next) ==
    /\ pc' = next /\ req' = NoReq /\ todo' = {} /\ pre' = 0
    /\ was' = Nothing /\ stirred' = FALSE /\ scratch' = Nothing

----------------------------------------------------------------------------
(* Backup.                                                                 *)

Backup ==
    /\ "backup" \in Kinds
    /\ pc = "idle"
    /\ Snapshot({})
    /\ UNCHANGED <<game, live, policy, job, byHand, was, pre, lost, stirred>>

----------------------------------------------------------------------------
(* Restore.                                                                *)

\* The handler refuses at once if the game is not stopped.
Ask ==
    /\ "restore" \in Kinds
    /\ pc = "idle" /\ jobs < MaxJobs
    /\ \E r \in Reqs :
         /\ r.at \in {s.at : s \in snaps}
         /\ r.into = "instance" => game = "stopped"
         /\ req' = r
    /\ pc' = "asked" /\ jobs' = jobs + 1
    /\ UNCHANGED <<instance, repository, policy, scratch, todo, ghosts>>

\* The job asks again; a scratch copy does not care.
CheckStopped ==
    /\ pc = "asked"
    /\ req.into = "instance" => game = "stopped"
    /\ pc' = IF req.into = "instance" /\ req.pre /\ ~req.dry THEN "pre"
             ELSE "plan"
    /\ was' = live
    /\ stirred' = FALSE
    /\ UNCHANGED <<instance, repository, policy, req, scratch, todo, jobs,
                   taken, byHand, pre, lost>>

\* A variant of TakePre: a failed pre-restore snapshot is put up with.
TakePreOrNot ==
    /\ pc = "pre"
    /\ \/ Snapshot({PreRestore}) /\ pre' = now
       \/ UNCHANGED <<events, repository, taken, pre>>
    /\ pc' = "plan"
    /\ UNCHANGED <<game, live, policy, req, scratch, todo, jobs, byHand, was,
                   lost, stirred>>

\* The current state is saved first, and tagged.
TakePre ==
    /\ pc = "pre"
    /\ Snapshot({PreRestore})
    /\ pre' = now
    /\ pc' = "plan"
    /\ UNCHANGED <<game, live, policy, req, scratch, todo, jobs, byHand, was,
                   lost, stirred>>

\* The dry run: the snapshot is there and has everything that was ticked.
Plan ==
    /\ pc = "plan"
    /\ \E s \in Asked : Unmatched(Entries(s), req.ticked) = {}
    /\ pc' = IF req.dry THEN "done" ELSE "load"
    /\ UNCHANGED <<instance, repository, policy, req, scratch, todo, jobs,
                   ghosts>>

\* The real run loads it anew, and makes the directories.
Load ==
    /\ pc = "load"
    /\ \E s \in Asked :
         /\ Unmatched(Entries(s), req.ticked) = {}
         /\ todo' = Kept(Entries(s), req.ticked) \ Dirs
         /\ req' = req
    /\ pc' = "write"
    /\ UNCHANGED <<instance, repository, policy, scratch, jobs, ghosts>>

\* The index was read whole: what the job knows of its snapshot.
Source == CHOOSE s \in taken : s.at = req.at

\* A variant of WriteFile: what the object holds is not hashed.
WriteUnverified ==
    /\ pc = "write"
    /\ \E f \in todo :
         LET c == Source.holds[f]
             got == IF bad[c] = "rotten" THEN 0 ELSE c
         IN  /\ \A g \in todo : Rank(f) <= Rank(g)
             /\ bad[c] # "missing"
             /\ todo' = todo \ {f}
             /\ IF req.into = "instance"
                  THEN live' = [live EXCEPT ![f] = got] /\ UNCHANGED scratch
                  ELSE scratch' = [scratch EXCEPT ![f] = got]
                       /\ UNCHANGED live
             /\ lost' = lost
    /\ UNCHANGED <<game, events, repository, policy, pc, req, jobs, taken,
                   byHand, was, pre, stirred>>

\* A variant of WriteFile: an object that cannot be read is passed over.
WriteOrSkip ==
    /\ pc = "write"
    /\ \E f \in todo :
         LET c == Source.holds[f]
             here == req.into = "instance" /\ bad[c] = "ok"
         IN  /\ \A g \in todo : Rank(f) <= Rank(g)
             /\ todo' = todo \ {f}
             /\ live' = IF here THEN [live EXCEPT ![f] = c] ELSE live
             /\ scratch' = IF req.into = "scratch" /\ bad[c] = "ok"
                            THEN [scratch EXCEPT ![f] = c] ELSE scratch
    /\ UNCHANGED <<game, events, repository, policy, pc, req, jobs, taken,
                   byHand, was, pre, lost, stirred>>

\* The next file in order: read into a temporary, verified, renamed.
WriteFile ==
    /\ pc = "write"
    /\ \E f \in todo :
         LET c == Source.holds[f]
         IN  /\ \A g \in todo : Rank(f) <= Rank(g)
             /\ bad[c] = "ok"
             /\ todo' = todo \ {f}
             /\ IF req.into = "instance"
                  THEN live' = [live EXCEPT ![f] = c] /\ UNCHANGED scratch
                  ELSE scratch' = [scratch EXCEPT ![f] = c] /\ UNCHANGED live
             /\ lost' = IF req.into = "instance" /\ req.pre /\ ~stirred
                           /\ live[f] \notin {0, c}
                          THEN lost \cup {[file |-> f, content |-> live[f],
                                           at |-> pre]}
                          ELSE lost
    /\ UNCHANGED <<game, events, repository, policy, pc, req, jobs, taken,
                   byHand, was, pre, stirred>>

Written ==
    /\ pc = "write" /\ todo = {}
    /\ pc' = "done"
    /\ UNCHANGED <<instance, repository, policy, req, scratch, todo, jobs,
                   ghosts>>

\* Refused, failed, cancelled, or over: the slot is free again.
JobEnds ==
    /\ pc # "idle"
    /\ Over("idle")
    /\ UNCHANGED <<instance, repository, policy, jobs, taken, byHand, lost>>

----------------------------------------------------------------------------
(* Housekeeping.                                                           *)

HkBegin ==
    /\ "housekeeping" \in Kinds
    /\ pc = "idle"
    /\ pc' = "hkcheck"
    /\ UNCHANGED <<instance, repository, policy, req, scratch, todo, jobs,
                   ghosts>>

\* Without ReadData the check sees only that an object is there.
Problems == {s \in snaps : \E f \in Files :
                s.holds[f] # 0 /\ bad[s.holds[f]] = "missing"}
HkCheck ==
    /\ pc = "hkcheck"
    /\ Problems = {}
    /\ pc' = "hkforget"
    /\ UNCHANGED <<instance, repository, policy, req, scratch, todo, jobs,
                   ghosts>>

\* applyRetention.
HkForget ==
    /\ pc = "hkforget"
    /\ snaps' = Apply(policy, snaps, now)
    /\ trash' = trash \cup (snaps \ snaps')
    /\ pc' = "hkprune"
    /\ UNCHANGED <<instance, now, bad, policy, req, scratch, todo, jobs,
                   ghosts>>

HkPrune ==
    /\ pc = "hkprune"
    /\ trash' = {}
    /\ pc' = "idle"
    /\ UNCHANGED <<instance, now, snaps, bad, policy, req, scratch, todo,
                   jobs, ghosts>>

----------------------------------------------------------------------------
(* Everybody else.                                                         *)

\* The handlers ask nobody whether a job is running.
Forget(s) ==
    /\ s \in snaps /\ Happens(1)
    /\ snaps' = snaps \ {s} /\ trash' = trash \cup {s}
    /\ byHand' = byHand \cup {s.at}
    /\ UNCHANGED <<game, live, now, bad, policy, job, taken, was, pre, lost,
                   stirred>>

Unforget(s) ==
    /\ s \in trash /\ Happens(1)
    /\ trash' = trash \ {s} /\ snaps' = snaps \cup {s}
    /\ UNCHANGED <<game, live, now, bad, policy, job, ghosts>>

\* From the panel; amp-bb's own start and stop wait for the slot.
GameMoves ==
    /\ game' \in {"stopped", "up"} \ {game}
    /\ stirred' = (stirred \/ req # NoReq)
    /\ UNCHANGED <<live, events, repository, policy, job, taken, byHand, was,
                   pre, lost>>

Play(f) ==
    /\ game # "stopped" /\ Happens(1)
    /\ live' = [live EXCEPT ![f] = events + 2]
    /\ UNCHANGED <<game, repository, policy, job, ghosts>>

\* An object in use is deleted, or no longer what its name says.
GoBad(c) ==
    /\ \A d \in Contents : bad[d] = "ok"
    /\ \E s \in snaps, f \in Files : s.holds[f] = c
    /\ c # 0 /\ Happens(1)
    /\ \E how \in {"missing", "rotten"} : bad' = [bad EXCEPT ![c] = how]
    /\ UNCHANGED <<game, live, now, snaps, trash, policy, job, ghosts>>

Next ==
    \/ Backup \/ Ask \/ CheckStopped \/ TakePre \/ Plan \/ Load \/ WriteFile
    \/ Written \/ JobEnds \/ HkBegin \/ HkCheck \/ HkForget \/ HkPrune
    \/ GameMoves
    \/ \E s \in taken : Forget(s) \/ Unforget(s)
    \/ \E f \in Files : Play(f)
    \/ \E c \in Contents : GoBad(c)

Spec == Init /\ [][Next]_vars

----------------------------------------------------------------------------
(* What is claimed.                                                        *)

\* docs/web.md:162-164, Plugin.js:581: whatever a restore replaced in the
\* instance is in the snapshot it took before, and that one is still there.
\* Unless the file is excluded from backups, the game was started meanwhile,
\* the snapshot was partial (the log says so), the configured policy does
\* not keep the tag, or the operator forgot the snapshot.
Recoverable ==
    \A x \in lost :
        \/ \E s \in snaps : s.at = x.at /\ s.holds[x.file] = x.content
        \/ \E s \in taken : s.at = x.at /\ ~s.whole
        \/ ~Walked(x.file) \/ PreRestore \notin policy.tags
        \/ x.at \in byHand

\* What a restore, successful or not, may have done so far: files that were
\* asked for are as they were or as in the snapshot, never anything else,
\* and the others, or all before the job writes, are as they were.
NothingElse ==
    pc \in {"pre", "plan", "load", "write", "done"} /\ ~stirred
    /\ game = "stopped" =>
        \A f \in Files :
            \/ live[f] = was[f]
            \/ /\ pc \in {"write", "done"} /\ ~req.dry
               /\ req.into = "instance"
               /\ live[f] = Source.holds[f]
               /\ f \in Meant(Entries(Source), req.ticked)

Landed(f) == IF req.into = "instance" THEN live[f] ELSE scratch[f]
Complete ==
    \A f \in Meant(Entries(Source), req.ticked) \ Dirs :
        Landed(f) = Source.holds[f]

\* A restore that reports success put back all that was ticked: unless the
\* game was started meanwhile, or a ticked path sorts between a ticked
\* directory and its contents.
Restored ==
    pc = "done" /\ ~req.dry /\ ~Muddled(req.ticked)
    /\ (req.into = "instance" => ~stirred)
        => Complete

\* Apply keeps exactly what some rule wants or the floor needs, and asked a
\* second time it lets nothing more go.
DecidesRight ==
    pc = "hkforget" =>
        LET kept == Apply(policy, snaps, now)
        IN  /\ kept = ShouldKeep(policy, snaps, now)
            /\ Apply(policy, kept, now) = kept

\* Over all passes since the first backup: of each of the latest buckets in
\* which a snapshot was taken there is still one, and never fewer than the
\* floor, apart from what the operator forgot by hand.
Bucket(s, b) == s.at \div b.size
Latest(b) == {k \in {Bucket(s, b) : s \in taken} :
                Cardinality({Bucket(s, b) : s \in {t \in taken :
                                                Bucket(t, b) > k}}) < b.count}
Covered ==
    /\ \A b \in policy.buckets : \A k \in Latest(b) :
         \/ \E s \in snaps : Bucket(s, b) = k
         \/ \E s \in taken : s.at \in byHand /\ Bucket(s, b) = k
    /\ LET there == snaps \cup {s \in taken : s.at \in byHand}
       IN  \/ Cardinality(there) >= policy.floor
           \/ there = taken

----------------------------------------------------------------------------
(* What a comment says and the code does not keep.                         *)

\* paths.go:24-26 calls the selected paths "prefix-free and sorted, so the
\* only candidate prefix of any entry is the greatest element not greater
\* than it"; but a ticked path may sort between a directory and its
\* contents, which are then left out by a restore that reports success.
TickedIsRestored ==
    pc = "done" /\ ~req.dry /\ req.into = "scratch" => Complete

\* glob.go:30-31: "Later rules win, which is what makes 'exclude a directory
\* but keep one file inside it' expressible."  The walk does not enter the
\* directory: a file that the preview of the rules on an earlier snapshot
\* does not count as left out is not in later backups.
KeptInside ==
    \A s, t \in snaps :
        s.at < t.at /\ t.at > Early /\ t.whole =>
            \A f \in Files :
                s.holds[f] # 0 /\ f \notin Previewed(Entries(s))
                    => t.holds[f] # 0
=============================================================================
