----------------------------- MODULE Repository -----------------------------
(***************************************************************************)
(* The snapshot repository on disk and the operations that share it: a     *)
(* backup (backup.Run over objectfs.Put and SnapshotWriter), Forget and    *)
(* Unforget (two renames each), and Prune (empty the trash, mark, sweep).  *)
(* Every rename, remove and directory listing is a step of its own, and    *)
(* the process may die, or an operation fail, between any two of them.     *)
(*                                                                         *)
(* A snapshot is two files, a manifest and an index; the index names the   *)
(* objects (file contents) it needs.  Snapshot ids embed their start time, *)
(* so a later backup has a larger id.                                      *)
(***************************************************************************)
EXTENDS Naturals, FiniteSets

CONSTANTS
    Objects,    \* file contents, addressed by hash
    Snaps,      \* snapshot ids
    Overlap     \* what may run at the same time, beyond the daemon's job slot

OverlapKinds == {
    "processes",    \* amp-bb prune on the command line, beside a backup
    "handlers",     \* the web handlers' Forget and Unforget, beside a prune
    "slowJobs" }    \* a backup or a prune takes longer than the grace period

ASSUME SnapsAssumption == Snaps \subseteq Nat
ASSUME OverlapAssumption == Overlap \subseteq OverlapKinds

VARIABLES
    \* The disk.
    objects,    \* objects/: what is stored
    young,      \* the stored objects younger than the grace period
    liveM,      \* snapshots/: manifests
    liveI,      \* snapshots/: indexes
    trashM,     \* snapshots/.trash/: manifests
    trashI,     \* snapshots/.trash/: indexes
    idx,        \* what each index file names, while there is one
    whole,      \* of the manifests, those with state complete
    published,  \* history: the manifests that ever appeared in snapshots/
    raced,      \* history: the snapshots that were moved while a prune
                \* listed what there is
    torn,       \* history: of the others, those whose two files a death or an
                \* error left apart, and those a backup built on such a one
    \* The backup.
    bpc,        \* where it is
    bid,        \* its snapshot id; 0 before the first
    parent,     \* LatestFor's answer
    carried,    \* the parent's entries
    entries,    \* what the new index will name
    \* The prune.
    gpc,        \* where it is
    emptying,   \* EmptyTrash
    toEmpty,    \* trash files it still has to remove
    glive,      \* live snapshots it still has to mark from
    gtrash,     \* trashed snapshots it still has to mark from
    marked,     \* objects found referenced
    doomed,     \* objects it is going to delete
    \* Forget or Unforget.
    mpc,        \* "idle", or the file it moves next
    mop,        \* "forget" or "unforget"
    mid         \* the snapshot it moves

files == <<objects, young, liveM, liveI, trashM, trashI, idx, whole,
           published>>
history == <<torn, raced>>
disk == <<files, history>>
backup == <<bpc, bid, parent, carried, entries>>
prune == <<gpc, emptying, toEmpty, glive, gtrash, marked, doomed>>
mover == <<mpc, mop, mid>>
vars == <<disk, backup, prune, mover>>

TrashFiles == {"manifest", "index"} \X Snaps

TypeOK ==
    /\ objects \subseteq Objects
    /\ young \subseteq objects
    /\ liveM \subseteq Snaps
    /\ liveI \subseteq Snaps
    /\ trashM \subseteq Snaps
    /\ trashI \subseteq Snaps
    /\ idx \in [Snaps -> SUBSET Objects]
    /\ whole \subseteq Snaps
    /\ published \subseteq Snaps
    /\ torn \subseteq Snaps /\ raced \subseteq Snaps
    /\ bpc \in {"idle", "parent", "index", "files", "manifest"}
    /\ bid \in Snaps \cup {0}
    /\ bpc # "idle" => bid \in Snaps
    /\ parent \in Snaps \cup {0}
    /\ bpc = "index" => parent \in Snaps
    /\ carried \subseteq Objects
    /\ entries \subseteq Objects
    /\ gpc \in {"idle", "empty", "trash", "mark", "delete"}
    /\ emptying \in BOOLEAN
    /\ toEmpty \subseteq TrashFiles
    /\ glive \subseteq Snaps
    /\ gtrash \subseteq Snaps
    /\ marked \subseteq Objects
    /\ doomed \subseteq Objects
    /\ mpc \in {"idle", "manifest", "index"}
    /\ mop \in {"forget", "unforget"}
    /\ mid \in Snaps \cup {0}
    /\ mpc # "idle" => mid \in Snaps

Init ==
    /\ objects = {} /\ young = {}
    /\ liveM = {} /\ liveI = {} /\ trashM = {} /\ trashI = {}
    /\ idx = [s \in Snaps |-> {}]
    /\ whole = {} /\ published = {} /\ torn = {} /\ raced = {}
    /\ bpc = "idle" /\ bid = 0 /\ parent = 0 /\ carried = {} /\ entries = {}
    /\ gpc = "idle" /\ emptying = FALSE /\ toEmpty = {} /\ glive = {}
    /\ gtrash = {} /\ marked = {} /\ doomed = {}
    /\ mpc = "idle" /\ mop = "forget" /\ mid = 0

\* Both files of a snapshot are in the same place.  (An index alone is what a
\* backup leaves that dies in the middle of its commit.)
Paired(s) ==
    /\ s \in trashM <=> s \in trashI
    /\ s \in liveM => s \in liveI
    /\ ~(s \in liveI /\ s \in trashI)

Exposed == torn \cup raced

\* Nobody will go on with what they did to these snapshots.
LeftAlone(S) ==
    /\ torn' = torn \cup {s \in (S \cap published) \ raced : ~Paired(s)}
    /\ raced' = raced

\* These snapshots meet a prune.
Race(S) == raced' = raced \cup S /\ torn' = torn \ S

----------------------------------------------------------------------------
(* Locks and the job slot.                                                 *)

\* LockWrite and LockGC: the files they flock, and how.
LockFile == [backup |-> "repo.write", prune |-> "repo.gc"]
LockMode == [backup |-> "shared", prune |-> "exclusive"]

Holding == {k \in {"backup", "prune"} :
              \/ k = "backup" /\ bpc # "idle"
              \/ k = "prune" /\ gpc # "idle"}

MayLock(k) ==
    \A h \in Holding :
        LockFile[h] = LockFile[k] =>
            LockMode[h] = "shared" /\ LockMode[k] = "shared"

\* Inside one daemon the runner has a single slot for backup and prune; the
\* handlers that move a snapshot are outside it.
SlotFree(k) == Holding = {} \/ ("processes" \in Overlap /\ k \notin Holding)
MoverApart == mpc = "idle" \/ "handlers" \in Overlap

----------------------------------------------------------------------------
(* The backup.                                                             *)

\* What a backup keeps in memory goes with it.
BackupEnds ==
    /\ bpc' = "idle"
    /\ parent' = 0 /\ carried' = {} /\ entries' = {}

StartBackup(s) ==
    /\ SlotFree("backup") /\ MayLock("backup")
    /\ s > bid
    /\ bid' = s
    /\ bpc' = "parent"
    /\ UNCHANGED <<disk, parent, carried, entries, prune, mover>>

\* LatestFor skips partial snapshots.
IsNewest(s, S) == s \in S /\ \A t \in S : t <= s

PickParent ==
    /\ bpc = "parent"
    /\ \/ /\ liveM \cap whole = {}
          /\ parent' = 0 /\ bpc' = "files"
       \/ /\ \E s \in Snaps : IsNewest(s, liveM \cap whole) /\ parent' = s
          /\ bpc' = "index"
    /\ UNCHANGED <<disk, bid, carried, entries, prune, mover>>

\* A parent whose index is missing fails the run.
LoadParentIndex ==
    /\ bpc = "index"
    /\ IF parent \in liveI
         THEN /\ carried' = idx[parent] /\ bpc' = "files"
              /\ UNCHANGED <<parent, entries>>
         ELSE BackupEnds
    /\ torn' = IF parent \in Exposed THEN torn \cup ({bid} \ raced) ELSE torn
    /\ UNCHANGED <<files, raced, bid, prune, mover>>

\* storeFile, unchanged since the parent: its hash is copied, nothing is read
\* and nothing is looked up.
CarryForward(o) ==
    /\ bpc = "files"
    /\ o \in carried
    /\ entries' = entries \cup {o}
    /\ UNCHANGED <<disk, bpc, bid, parent, carried, prune, mover>>

\* storeFile, read: Put finds the object stored (and leaves its age alone) or
\* renames a new one into place.
Put(o) ==
    /\ bpc = "files"
    /\ entries' = entries \cup {o}
    /\ objects' = objects \cup {o}
    /\ young' = IF o \in objects THEN young ELSE young \cup {o}
    /\ UNCHANGED <<liveM, liveI, trashM, trashI, idx, whole, published,
                   history, bpc, bid, parent, carried, prune, mover>>

\* A variant of CommitIndex: the error of the rename is not looked at.
CommitIndexUnchecked ==
    /\ bpc = "files"
    /\ bid \notin liveM
    /\ liveI' \in {liveI, liveI \cup {bid}}
    /\ idx' = [idx EXCEPT ![bid] = entries]
    /\ bpc' = "manifest"
    /\ UNCHANGED <<objects, young, liveM, trashM, trashI, whole, published,
                   history, bid, parent, carried, entries, prune, mover>>

\* SnapshotWriter.Commit: the index is renamed into place first ...
CommitIndex ==
    /\ bpc = "files"
    /\ bid \notin liveM
    /\ liveI' = liveI \cup {bid}
    /\ idx' = [idx EXCEPT ![bid] = entries]
    /\ bpc' = "manifest"
    /\ UNCHANGED <<objects, young, liveM, trashM, trashI, whole, published,
                   history, bid, parent, carried, entries, prune, mover>>

\* ... then the manifest; if that fails the index is taken away again.
CommitManifest ==
    /\ bpc = "manifest"
    /\ \/ /\ liveM' = liveM \cup {bid}
          /\ published' = published \cup {bid}
          /\ whole' \in {whole, whole \cup {bid}}
          /\ UNCHANGED <<liveI, idx>>
       \/ /\ liveI' = liveI \ {bid} /\ idx' = [idx EXCEPT ![bid] = {}]
          /\ UNCHANGED <<liveM, whole, published>>
    /\ BackupEnds
    /\ UNCHANGED <<objects, young, trashM, trashI, history, bid, prune, mover>>

\* An error or a cancel before the commit.
BackupFails ==
    /\ bpc \in {"parent", "index", "files"}
    /\ BackupEnds
    /\ UNCHANGED <<disk, bid, prune, mover>>

BackupStep ==
    \/ PickParent \/ LoadParentIndex
    \/ \E o \in Objects : CarryForward(o) \/ Put(o)
    \/ CommitIndex \/ CommitManifest \/ BackupFails

----------------------------------------------------------------------------
(* Forget and Unforget: the manifest is renamed first, then the index; a   *)
(* file that is not there is passed over.                                  *)

\* A prune is still to list the snapshots, or their two lists at least; or the
\* snapshot is torn, so that neither list may have it.
Meets(s) == gpc \in {"empty", "trash"} \/ (gpc # "idle" /\ s \in torn)

MoveEnds == mpc' = "idle" /\ mop' = "forget" /\ mid' = 0

StartMove(op, s) ==
    /\ mpc = "idle"
    /\ gpc = "idle" \/ "handlers" \in Overlap
    /\ s \in liveM \cup trashM \cup trashI
    /\ mop' = op /\ mid' = s /\ mpc' = "manifest"
    /\ Race(IF Meets(s) THEN {s} ELSE {})
    /\ UNCHANGED <<files, backup, prune>>

MoveManifest ==
    /\ mpc = "manifest"
    /\ IF mop = "forget" /\ mid \in liveM
         THEN liveM' = liveM \ {mid} /\ trashM' = trashM \cup {mid}
         ELSE IF mop = "unforget" /\ mid \in trashM
         THEN liveM' = liveM \cup {mid} /\ trashM' = trashM \ {mid}
         ELSE UNCHANGED <<liveM, trashM>>
    /\ mpc' = "index"
    /\ UNCHANGED <<objects, young, liveI, trashI, idx, whole, published,
                   history, backup, prune, mop, mid>>

MoveIndex ==
    /\ mpc = "index"
    /\ IF mop = "forget" /\ mid \in liveI
         THEN liveI' = liveI \ {mid} /\ trashI' = trashI \cup {mid}
         ELSE IF mop = "unforget" /\ mid \in trashI
         THEN liveI' = liveI \cup {mid} /\ trashI' = trashI \ {mid}
         ELSE UNCHANGED <<liveI, trashI>>
    /\ MoveEnds
    /\ UNCHANGED <<objects, young, liveM, trashM, idx, whole, published,
                   history, backup, prune>>

\* A rename fails: what was renamed stays so.
MoveFails ==
    /\ mpc # "idle"
    /\ MoveEnds
    /\ LeftAlone({mid})
    /\ UNCHANGED <<files, backup, prune>>

----------------------------------------------------------------------------
(* Prune.                                                                  *)

\* What a prune keeps in memory goes with it.
PruneEnds ==
    /\ gpc' = "idle"
    /\ emptying' = FALSE /\ toEmpty' = {} /\ glive' = {} /\ gtrash' = {}
    /\ marked' = {} /\ doomed' = {}

StartPrune(e) ==
    /\ SlotFree("prune") /\ MayLock("prune") /\ MoverApart
    /\ emptying' = e
    /\ toEmpty' = IF e THEN {"manifest"} \X trashM \cup {"index"} \X trashI
                  ELSE {}
    /\ gpc' = "empty"
    /\ Race(IF mpc # "idle" THEN {mid} ELSE {})
    /\ UNCHANGED <<files, backup, glive, gtrash, marked, doomed, mover>>

\* emptyTrash removes file by file in the order of their names (<id>.idx.zst
\* comes before <id>.json); one that is gone is an error.
RemoveTrash(kind, s) ==
    /\ gpc = "empty"
    /\ <<kind, s>> \in toEmpty
    /\ \A f \in toEmpty :
          f[2] > s \/ (f[2] = s /\ (kind = "index" \/ f[1] = "manifest"))
    /\ IF s \in (IF kind = "index" THEN trashI ELSE trashM)
         THEN /\ toEmpty' = toEmpty \ {<<kind, s>>}
              /\ UNCHANGED <<gpc, emptying, glive, gtrash, marked, doomed>>
         ELSE PruneEnds
    /\ trashM' = IF kind = "manifest" THEN trashM \ {s} ELSE trashM
    /\ trashI' = IF kind = "index" THEN trashI \ {s} ELSE trashI
    /\ idx' = IF kind = "index" /\ s \in trashI THEN [idx EXCEPT ![s] = {}]
              ELSE idx
    /\ whole' = IF kind = "manifest" THEN whole \ (trashM \cap {s}) ELSE whole
    /\ UNCHANGED <<objects, young, liveM, liveI, published, history, backup,
                   mover>>

ListLive ==
    /\ gpc = "empty" /\ toEmpty = {}
    /\ glive' = liveM
    /\ gpc' = "trash"
    /\ UNCHANGED <<disk, backup, emptying, toEmpty, gtrash, marked, doomed,
                   mover>>

\* A variant of ListTrash: what is in the trash does not count.
ListNoTrash ==
    /\ gpc = "trash"
    /\ gtrash' = {}
    /\ gpc' = "mark"
    /\ UNCHANGED <<disk, backup, emptying, toEmpty, glive, marked, doomed,
                   mover>>

\* listTrashedIDs goes by the index files; they count unless the trash was
\* emptied.
ListTrash ==
    /\ gpc = "trash"
    /\ gtrash' = IF emptying THEN {} ELSE trashI
    /\ gpc' = "mark"
    /\ UNCHANGED <<disk, backup, emptying, toEmpty, glive, marked, doomed,
                   mover>>

\* A variant of MarkLive: a partial snapshot is passed over.
MarkLiveComplete(s) ==
    /\ gpc = "mark" /\ s \in glive
    /\ glive' = glive \ {s}
    /\ marked' = IF s \in whole THEN marked \cup idx[s] ELSE marked
    /\ UNCHANGED <<disk, backup, gpc, emptying, toEmpty, gtrash, doomed,
                   mover>>

\* An index that is not where it was listed fails the prune.
MarkLive(s) ==
    /\ gpc = "mark" /\ s \in glive
    /\ IF s \in liveI
         THEN /\ glive' = glive \ {s} /\ marked' = marked \cup idx[s]
              /\ UNCHANGED <<gpc, emptying, toEmpty, gtrash, doomed>>
         ELSE PruneEnds
    /\ UNCHANGED <<disk, backup, mover>>

MarkTrashed(s) ==
    /\ gpc = "mark" /\ glive = {} /\ s \in gtrash
    /\ IF s \in trashI
         THEN /\ gtrash' = gtrash \ {s} /\ marked' = marked \cup idx[s]
              /\ UNCHANGED <<gpc, emptying, toEmpty, glive, doomed>>
         ELSE PruneEnds
    /\ UNCHANGED <<disk, backup, mover>>

\* A variant of Sweep: the cutoff is compared the wrong way round.
SweepRecent ==
    /\ gpc = "mark" /\ glive = {} /\ gtrash = {}
    /\ doomed' = (objects \ marked) \cap young
    /\ gpc' = "delete"
    /\ UNCHANGED <<disk, backup, emptying, toEmpty, glive, gtrash, marked,
                   mover>>

\* Objects.List: unreferenced and older than the grace period.
Sweep ==
    /\ gpc = "mark" /\ glive = {} /\ gtrash = {}
    /\ doomed' = objects \ (marked \cup young)
    /\ gpc' = "delete"
    /\ UNCHANGED <<disk, backup, emptying, toEmpty, glive, gtrash, marked,
                   mover>>

Delete(o) ==
    /\ gpc = "delete" /\ o \in doomed
    /\ doomed' = doomed \ {o}
    /\ objects' = objects \ {o}
    /\ young' = young \ {o}
    /\ UNCHANGED <<liveM, liveI, trashM, trashI, idx, whole, published,
                   history, backup, gpc, emptying, toEmpty, glive, gtrash,
                   marked, mover>>

FinishPrune ==
    /\ gpc = "delete" /\ doomed = {}
    /\ PruneEnds
    /\ UNCHANGED <<disk, backup, mover>>

\* An error or a cancel at any point, also between the two files of a snapshot
\* in the trash: nothing is undone.
PruneFails ==
    /\ gpc # "idle"
    /\ PruneEnds
    /\ LeftAlone({f[2] : f \in toEmpty})
    /\ UNCHANGED <<files, backup, mover>>

PruneStep ==
    \/ \E kind \in {"manifest", "index"}, s \in Snaps : RemoveTrash(kind, s)
    \/ ListLive \/ ListTrash
    \/ \E s \in Snaps : MarkLive(s) \/ MarkTrashed(s)
    \/ Sweep
    \/ \E o \in Objects : Delete(o)
    \/ FinishPrune

----------------------------------------------------------------------------
(* Time and death.                                                         *)

\* An object outgrows the grace period.  A backup's own objects do so before
\* its end, and any object in the middle of a prune, only when the job takes
\* longer than that period.
Age(o) ==
    /\ o \in young
    /\ \/ "slowJobs" \in Overlap
       \/ gpc = "idle" /\ ~(bpc # "idle" /\ o \in entries)
    /\ young' = young \ {o}
    /\ UNCHANGED <<objects, liveM, liveI, trashM, trashI, idx, whole,
                   published, history, backup, prune, mover>>

\* The daemon dies: its jobs and its handlers stop where they are.  Locks are
\* flocks, so they die with it; nothing on disk is repaired at startup.
Crash ==
    /\ BackupEnds /\ PruneEnds /\ MoveEnds
    /\ LeftAlone(Snaps)
    /\ UNCHANGED <<files, bid>>

Next ==
    \/ \E s \in Snaps : StartBackup(s)
    \/ BackupStep
    \/ \E op \in {"forget", "unforget"}, s \in Snaps : StartMove(op, s)
    \/ MoveManifest \/ MoveIndex \/ MoveFails
    \/ \E e \in BOOLEAN : StartPrune(e)
    \/ PruneStep \/ PruneFails
    \/ \E o \in Objects : Age(o)
    \/ Crash

Spec == Init /\ [][Next]_vars

\* Jobs run to an end, prunes are started again and again, and time passes.
\* Moves may compete with the start of a prune for ever, hence SF; the clock
\* does not stop while jobs run, an Age that had to wait for them still comes.
Fairness ==
    /\ WF_vars(BackupStep)
    /\ WF_vars(MoveManifest \/ MoveIndex)
    /\ SF_vars(\E e \in BOOLEAN : StartPrune(e))
    /\ WF_vars(PruneStep)
    /\ \A o \in Objects : SF_vars(Age(o))

FairSpec == Spec /\ Fairness

----------------------------------------------------------------------------
(* What is checked.                                                        *)

\* Every snapshot in the list is whole: the objects its index names are all
\* stored, whatever pruned, forgot, took back, failed or died before; but for
\* those a death or an error left in two places, which a prune may find in no
\* list, and those moved while a prune listed.
NoDangling == \A s \in liveM \ Exposed : idx[s] \subseteq objects

\* A manifest in the list has its index, except while a move of that very
\* snapshot is between its two renames, or was when it failed or died
\* (snapshotwriter.go: the index goes first, because a manifest without an
\* index would be a broken snapshot).
ManifestHasIndex ==
    \A s \in liveM \ Exposed : s \in liveI \/ (mpc = "index" /\ mid = s)

\* A snapshot in the trash can be taken back with all its data (gc.go: forget
\* is "a metadata edit that a mistaken retention policy can undo").
TrashIsRecoverable ==
    \A s \in (trashM \cap trashI) \ Exposed : idx[s] \subseteq objects

\* Prune deletes only what no snapshot in the list needs (gc.go:113), torn or
\* not; but for those that were moved while it listed.
DeletesOnlyGarbage ==
    [][\A o \in objects \ objects' :
          \A s \in liveM \ raced : o \notin idx[s]]_vars

\* What is in the trash counts as reachable unless the trash was emptied
\* (gc.go:153), and what is in the list does in any case, without exception.
SparesReachable ==
    gpc = "delete" /\ ~emptying =>
        \A s \in liveM \cup trashM : idx[s] \cap doomed = {}

\* How far a snapshot is in its life, for the abstract specification.
Whole(s) == idx[s] \subseteq objects
LifeOf(s) ==
    IF s \notin published THEN "none"
    ELSE IF s \in Exposed THEN "torn"
    ELSE IF s \in liveM /\ s \in liveI /\ Whole(s) THEN "live"
    ELSE IF s \in liveM \cup trashM /\ s \in liveI \cup trashI /\ Whole(s)
      THEN "trashed"
    ELSE "gone"

Life == INSTANCE SnapshotLife WITH life <- [s \in Snaps |-> LifeOf(s)]

\* The repository implements the life of a snapshot: published whole, never
\* unrestorable before it was forgotten and purged, never back after that;
\* unless it is torn, which no step does to more than one.
LivesOn == Life!Spec

\* Garbage does not stay for ever: once prunes stop failing, an object that
\* nothing in the list or in the trash names is eventually deleted.
Garbage(o) == o \in objects /\ \A s \in liveM \cup trashI : o \notin idx[s]
PrunesComplete ==
    <>[][(gpc # "idle" /\ gpc' = "idle") => gpc = "delete" /\ doomed = {}]_vars
Collected ==
    PrunesComplete =>
        \A o \in Objects : ~<>[]Garbage(o)
=============================================================================
