-------------------------- MODULE Repository_proofs --------------------------
(***************************************************************************)
(* Proofs about Repository, for any set of objects and of snapshot ids.    *)
(* Types hold whatever overlaps.  The rest holds in one daemon, whose web  *)
(* handlers may move snapshots beside a prune, and which may die, or fail, *)
(* between any two renames or removals; the snapshots which that exposed   *)
(* are named in each property.                                             *)
(***************************************************************************)
EXTENDS Repository, TLAPS

\* No second process works on the repository.
Daemon == "processes" \notin Overlap

\* A prune runs beside no backup.
PruneAlone == gpc # "idle" => bpc = "idle"

Known == liveM \cup trashM \cup trashI

\* Known snapshots were published, before the one that is being written.
Older ==
    /\ Known \subseteq published
    /\ \A s \in published :
          s \in Snaps /\ s <= bid /\ (bpc # "idle" => s # bid)

\* A move that meets a prune's lists, or a torn snapshot beside a prune, is
\* accounted for.
Moved ==
    mpc # "idle" =>
        /\ mid \in published
        /\ mid \in Known \cup Exposed
        /\ gpc \in {"empty", "trash"} => mid \in raced
        /\ gpc # "idle" => mid \in raced \/ mid \notin torn
        /\ mpc = "index" =>
              mid \notin (IF mop = "forget" THEN liveM ELSE trashM)

\* The prune marks from s before it sweeps, and does not delete what s names.
Spared(s) ==
    /\ gpc = "mark" => s \in glive \cup gtrash \/ idx[s] \subseteq marked
    /\ gpc = "delete" => idx[s] \cap doomed = {}

LiveCovered ==
    \A s \in liveM \ raced : (gpc = "trash" => s \in glive) /\ Spared(s)

TrashCovered ==
    \A s \in (trashM \cup trashI) \ Exposed :
        (gpc = "trash" => ~emptying) /\ Spared(s)

\* What emptyTrash still has to remove.
Emptied ==
    /\ gpc # "empty" \/ ~emptying => toEmpty = {}
    /\ gpc = "empty" /\ emptying =>
          \A s \in Snaps \ Exposed :
              /\ <<"manifest", s>> \in toEmpty <=> s \in trashM
              /\ <<"index", s>> \in toEmpty <=> s \in trashI

\* Both files of a snapshot are in the same place, except that a mover is
\* between its two renames, or emptyTrash between its two removes.
MidForget(s) ==
    mop = "forget" /\ s \in (liveI \cap trashM) \ (liveM \cup trashI)
MidUnforget(s) ==
    mop = "unforget" /\ s \in (liveM \cap trashI) \ (liveI \cup trashM)
MidMove(s) == mpc = "index" /\ mid = s /\ (MidForget(s) \/ MidUnforget(s))

MidPurge(s) ==
    /\ gpc = "empty" /\ emptying
    /\ s \in trashM \ (trashI \cup liveM \cup liveI)
    /\ \A f \in toEmpty : s <= f[2]

Placed == \A s \in Snaps \ Exposed : Paired(s) \/ MidMove(s) \/ MidPurge(s)

\* Nothing that a snapshot or the backup under way names is missing.
Stored ==
    /\ \A s \in Known \ Exposed : idx[s] \subseteq objects
    /\ bpc = "idle" => carried \cup entries = {}
    /\ bpc = "index" => parent \in Known \cup Exposed
    /\ bpc # "idle" /\ bid \notin Exposed =>
          carried \cup entries \subseteq objects
    /\ bpc = "manifest" => bid \in liveI /\ idx[bid] = entries

IInv ==
    /\ TypeOK /\ PruneAlone /\ Older /\ Moved /\ LiveCovered /\ TrashCovered
    /\ Emptied /\ Placed /\ Stored

----------------------------------------------------------------------------
(* The steps.                                                              *)

\* Every action keeps the types.
LEMMA TypeStep ==
    ASSUME TypeOK, [Next]_vars
    PROVE  TypeOK'
<1> USE SnapsAssumption DEF TypeOK, TrashFiles, vars, disk, files, history,
     backup, prune, mover
<1>1. ASSUME NEW s \in Snaps, StartBackup(s) PROVE TypeOK'
  BY <1>1 DEF StartBackup, SlotFree, Holding
<1>2. CASE PickParent
  BY <1>2 DEF PickParent, IsNewest
<1>3. CASE LoadParentIndex
  BY <1>3 DEF LoadParentIndex, BackupEnds
<1>4. ASSUME NEW o \in Objects, CarryForward(o) PROVE TypeOK'
  BY <1>4 DEF CarryForward
<1>5. ASSUME NEW o \in Objects, Put(o) PROVE TypeOK'
  BY <1>5 DEF Put
<1>6. CASE CommitIndex
  BY <1>6 DEF CommitIndex
<1>7. CASE CommitManifest
  BY <1>7 DEF CommitManifest, BackupEnds
<1>8. CASE BackupFails
  BY <1>8 DEF BackupFails, BackupEnds
<1>9. ASSUME NEW op \in {"forget", "unforget"}, NEW s \in Snaps,
             StartMove(op, s)
      PROVE  TypeOK'
  BY <1>9 DEF StartMove, Race, Meets
<1>10. CASE MoveManifest
  BY <1>10 DEF MoveManifest
<1>11. CASE MoveIndex
  BY <1>11 DEF MoveIndex, MoveEnds
<1>12. CASE MoveFails
  BY <1>12 DEF MoveFails, MoveEnds, LeftAlone
<1>13. ASSUME NEW e \in BOOLEAN, StartPrune(e) PROVE TypeOK'
  BY <1>13 DEF StartPrune, SlotFree, Holding, Race
<1>14. ASSUME NEW kind \in {"manifest", "index"}, NEW s \in Snaps,
             RemoveTrash(kind, s)
      PROVE  TypeOK'
  BY <1>14 DEF RemoveTrash, PruneEnds
<1>15. CASE ListLive
  BY <1>15 DEF ListLive
<1>16. CASE ListTrash
  BY <1>16 DEF ListTrash
<1>17. ASSUME NEW s \in Snaps, MarkLive(s) PROVE TypeOK'
  BY <1>17 DEF MarkLive, PruneEnds
<1>18. ASSUME NEW s \in Snaps, MarkTrashed(s) PROVE TypeOK'
  BY <1>18 DEF MarkTrashed, PruneEnds
<1>19. CASE Sweep
  BY <1>19 DEF Sweep
<1>20. ASSUME NEW o \in Objects, Delete(o) PROVE TypeOK'
  BY <1>20 DEF Delete
<1>21. CASE FinishPrune
  BY <1>21 DEF FinishPrune, PruneEnds
<1>22. CASE PruneFails
  BY <1>22 DEF PruneFails, PruneEnds, LeftAlone
<1>23. ASSUME NEW o \in Objects, Age(o) PROVE TypeOK'
  BY <1>23 DEF Age
<1>24. CASE Crash
  BY <1>24 DEF Crash, BackupEnds, PruneEnds, MoveEnds, LeftAlone
<1>25. CASE UNCHANGED vars
  BY <1>25
<1> QED
  BY <1>1, <1>2, <1>3, <1>4, <1>5, <1>6, <1>7, <1>8, <1>9, <1>10, <1>11,
       <1>12, <1>13, <1>14, <1>15, <1>16, <1>17, <1>18, <1>19, <1>20, <1>21,
       <1>22, <1>23, <1>24, <1>25
  DEF Next, BackupStep, PruneStep

\* The job slot keeps prune and backup apart.
LEMMA AloneStep ==
    ASSUME Daemon, IInv, [Next]_vars
    PROVE  PruneAlone'
<1> USE DEF IInv, PruneAlone, Daemon, vars, disk, files, history, backup,
     prune, mover
<1>1. ASSUME NEW s \in Snaps, StartBackup(s) PROVE PruneAlone'
  BY <1>1 DEF StartBackup, SlotFree, Holding
<1>2. CASE PickParent
  BY <1>2 DEF PickParent, IsNewest
<1>3. CASE LoadParentIndex
  BY <1>3 DEF LoadParentIndex, BackupEnds
<1>4. ASSUME NEW o \in Objects, CarryForward(o) PROVE PruneAlone'
  BY <1>4 DEF CarryForward
<1>5. ASSUME NEW o \in Objects, Put(o) PROVE PruneAlone'
  BY <1>5 DEF Put
<1>6. CASE CommitIndex
  BY <1>6 DEF CommitIndex
<1>7. CASE CommitManifest
  BY <1>7 DEF CommitManifest, BackupEnds
<1>8. CASE BackupFails
  BY <1>8 DEF BackupFails, BackupEnds
<1>9. ASSUME NEW op \in {"forget", "unforget"}, NEW s \in Snaps,
             StartMove(op, s)
      PROVE  PruneAlone'
  BY <1>9 DEF StartMove, Race, Meets
<1>10. CASE MoveManifest
  BY <1>10 DEF MoveManifest
<1>11. CASE MoveIndex
  BY <1>11 DEF MoveIndex, MoveEnds
<1>12. CASE MoveFails
  BY <1>12 DEF MoveFails, MoveEnds, LeftAlone
<1>13. ASSUME NEW e \in BOOLEAN, StartPrune(e) PROVE PruneAlone'
  BY <1>13 DEF StartPrune, SlotFree, Holding, Race
<1>14. ASSUME NEW kind \in {"manifest", "index"}, NEW s \in Snaps,
             RemoveTrash(kind, s)
      PROVE  PruneAlone'
  BY <1>14 DEF RemoveTrash, PruneEnds
<1>15. CASE ListLive
  BY <1>15 DEF ListLive
<1>16. CASE ListTrash
  BY <1>16 DEF ListTrash
<1>17. ASSUME NEW s \in Snaps, MarkLive(s) PROVE PruneAlone'
  BY <1>17 DEF MarkLive, PruneEnds
<1>18. ASSUME NEW s \in Snaps, MarkTrashed(s) PROVE PruneAlone'
  BY <1>18 DEF MarkTrashed, PruneEnds
<1>19. CASE Sweep
  BY <1>19 DEF Sweep
<1>20. ASSUME NEW o \in Objects, Delete(o) PROVE PruneAlone'
  BY <1>20 DEF Delete
<1>21. CASE FinishPrune
  BY <1>21 DEF FinishPrune, PruneEnds
<1>22. CASE PruneFails
  BY <1>22 DEF PruneFails, PruneEnds, LeftAlone
<1>23. ASSUME NEW o \in Objects, Age(o) PROVE PruneAlone'
  BY <1>23 DEF Age
<1>24. CASE Crash
  BY <1>24 DEF Crash, BackupEnds, PruneEnds, MoveEnds, LeftAlone
<1>25. CASE UNCHANGED vars
  BY <1>25
<1> QED
  BY <1>1, <1>2, <1>3, <1>4, <1>5, <1>6, <1>7, <1>8, <1>9, <1>10, <1>11,
       <1>12, <1>13, <1>14, <1>15, <1>16, <1>17, <1>18, <1>19, <1>20, <1>21,
       <1>22, <1>23, <1>24, <1>25
  DEF Next, BackupStep, PruneStep

\* Snapshot ids grow with time.
LEMMA OlderStep ==
    ASSUME Daemon, IInv, [Next]_vars
    PROVE  Older'
<1> USE SnapsAssumption DEF IInv, TypeOK, PruneAlone, Older, Known, Moved,
     Daemon, vars, disk, files, history, backup, prune, mover
<1>1. ASSUME NEW s \in Snaps, StartBackup(s) PROVE Older'
  BY <1>1 DEF StartBackup, SlotFree, Holding
<1>2. CASE PickParent
  BY <1>2 DEF PickParent, IsNewest
<1>3. CASE LoadParentIndex
  BY <1>3 DEF LoadParentIndex, BackupEnds
<1>4. ASSUME NEW o \in Objects, CarryForward(o) PROVE Older'
  BY <1>4 DEF CarryForward
<1>5. ASSUME NEW o \in Objects, Put(o) PROVE Older'
  BY <1>5 DEF Put
<1>6. CASE CommitIndex
  BY <1>6 DEF CommitIndex
<1>7. CASE CommitManifest
  <2>1. bid \in Snaps /\ bid \in Nat /\ bpc' = "idle" /\ bid' = bid
    BY <1>7 DEF CommitManifest, BackupEnds
  <2>2. CASE liveM' = liveM \cup {bid} /\ published' = published \cup {bid}
    BY <1>7, <2>1, <2>2 DEF CommitManifest
  <2>3. CASE UNCHANGED <<liveM, published>>
    BY <1>7, <2>1, <2>3 DEF CommitManifest
  <2> QED
    BY <1>7, <2>2, <2>3 DEF CommitManifest
<1>8. CASE BackupFails
  BY <1>8 DEF BackupFails, BackupEnds
<1>9. ASSUME NEW op \in {"forget", "unforget"}, NEW s \in Snaps,
             StartMove(op, s)
      PROVE  Older'
  BY <1>9 DEF StartMove, Race, Meets
<1>10. CASE MoveManifest
  BY <1>10 DEF MoveManifest
<1>11. CASE MoveIndex
  BY <1>11 DEF MoveIndex, MoveEnds
<1>12. CASE MoveFails
  BY <1>12 DEF MoveFails, MoveEnds, LeftAlone
<1>13. ASSUME NEW e \in BOOLEAN, StartPrune(e) PROVE Older'
  BY <1>13 DEF StartPrune, SlotFree, Holding, Race
<1>14. ASSUME NEW kind \in {"manifest", "index"}, NEW s \in Snaps,
             RemoveTrash(kind, s)
      PROVE  Older'
  BY <1>14 DEF RemoveTrash, PruneEnds
<1>15. CASE ListLive
  BY <1>15 DEF ListLive
<1>16. CASE ListTrash
  BY <1>16 DEF ListTrash
<1>17. ASSUME NEW s \in Snaps, MarkLive(s) PROVE Older'
  BY <1>17 DEF MarkLive, PruneEnds
<1>18. ASSUME NEW s \in Snaps, MarkTrashed(s) PROVE Older'
  BY <1>18 DEF MarkTrashed, PruneEnds
<1>19. CASE Sweep
  BY <1>19 DEF Sweep
<1>20. ASSUME NEW o \in Objects, Delete(o) PROVE Older'
  BY <1>20 DEF Delete
<1>21. CASE FinishPrune
  BY <1>21 DEF FinishPrune, PruneEnds
<1>22. CASE PruneFails
  BY <1>22 DEF PruneFails, PruneEnds, LeftAlone
<1>23. ASSUME NEW o \in Objects, Age(o) PROVE Older'
  BY <1>23 DEF Age
<1>24. CASE Crash
  BY <1>24 DEF Crash, BackupEnds, PruneEnds, MoveEnds, LeftAlone
<1>25. CASE UNCHANGED vars
  BY <1>25
<1> QED
  BY <1>1, <1>2, <1>3, <1>4, <1>5, <1>6, <1>7, <1>8, <1>9, <1>10, <1>11,
       <1>12, <1>13, <1>14, <1>15, <1>16, <1>17, <1>18, <1>19, <1>20, <1>21,
       <1>22, <1>23, <1>24, <1>25
  DEF Next, BackupStep, PruneStep

\* What the prune's lists may miss is marked as raced when a move starts
\* beside it, or it beside a move.
LEMMA MovedStep ==
    ASSUME Daemon, IInv, [Next]_vars
    PROVE  Moved'
<1> USE SnapsAssumption DEF IInv, TypeOK, PruneAlone, Older, Known, Moved,
     Exposed, Daemon, vars, disk, files, history, backup, prune, mover
<1>1. ASSUME NEW s \in Snaps, StartBackup(s) PROVE Moved'
  BY <1>1 DEF StartBackup, SlotFree, Holding
<1>2. CASE PickParent
  BY <1>2 DEF PickParent, IsNewest
<1>3. CASE LoadParentIndex
  BY <1>3 DEF LoadParentIndex, BackupEnds
<1>4. ASSUME NEW o \in Objects, CarryForward(o) PROVE Moved'
  BY <1>4 DEF CarryForward
<1>5. ASSUME NEW o \in Objects, Put(o) PROVE Moved'
  BY <1>5 DEF Put
<1>6. CASE CommitIndex
  BY <1>6 DEF CommitIndex
<1>7. CASE CommitManifest
  BY <1>7 DEF CommitManifest, BackupEnds
<1>8. CASE BackupFails
  BY <1>8 DEF BackupFails, BackupEnds
<1>9. ASSUME NEW op \in {"forget", "unforget"}, NEW s \in Snaps,
             StartMove(op, s)
      PROVE  Moved'
  BY <1>9 DEF StartMove, Race, Meets
<1>10. CASE MoveManifest
  BY <1>10 DEF MoveManifest
<1>11. CASE MoveIndex
  BY <1>11 DEF MoveIndex, MoveEnds
<1>12. CASE MoveFails
  BY <1>12 DEF MoveFails, MoveEnds, LeftAlone
<1>13. ASSUME NEW e \in BOOLEAN, StartPrune(e) PROVE Moved'
  BY <1>13 DEF StartPrune, SlotFree, Holding, Race
<1>14. ASSUME NEW kind \in {"manifest", "index"}, NEW s \in Snaps,
             RemoveTrash(kind, s)
      PROVE  Moved'
  BY <1>14 DEF RemoveTrash, PruneEnds
<1>15. CASE ListLive
  BY <1>15 DEF ListLive
<1>16. CASE ListTrash
  BY <1>16 DEF ListTrash
<1>17. ASSUME NEW s \in Snaps, MarkLive(s) PROVE Moved'
  BY <1>17 DEF MarkLive, PruneEnds
<1>18. ASSUME NEW s \in Snaps, MarkTrashed(s) PROVE Moved'
  BY <1>18 DEF MarkTrashed, PruneEnds
<1>19. CASE Sweep
  BY <1>19 DEF Sweep
<1>20. ASSUME NEW o \in Objects, Delete(o) PROVE Moved'
  BY <1>20 DEF Delete
<1>21. CASE FinishPrune
  BY <1>21 DEF FinishPrune, PruneEnds
<1>22. CASE PruneFails
  BY <1>22 DEF PruneFails, PruneEnds, LeftAlone
<1>23. ASSUME NEW o \in Objects, Age(o) PROVE Moved'
  BY <1>23 DEF Age
<1>24. CASE Crash
  BY <1>24 DEF Crash, BackupEnds, PruneEnds, MoveEnds, LeftAlone
<1>25. CASE UNCHANGED vars
  BY <1>25
<1> QED
  BY <1>1, <1>2, <1>3, <1>4, <1>5, <1>6, <1>7, <1>8, <1>9, <1>10, <1>11,
       <1>12, <1>13, <1>14, <1>15, <1>16, <1>17, <1>18, <1>19, <1>20, <1>21,
       <1>22, <1>23, <1>24, <1>25
  DEF Next, BackupStep, PruneStep

\* The prune marks from every listed snapshot that no move raced, or gives up.
LEMMA LiveStep ==
    ASSUME Daemon, IInv, [Next]_vars
    PROVE  LiveCovered'
<1> USE SnapsAssumption DEF IInv, TypeOK, PruneAlone, Moved, Exposed,
     LiveCovered, TrashCovered, Spared, Daemon, vars, disk, files, history,
     backup, prune, mover
<1>1. ASSUME NEW s \in Snaps, StartBackup(s) PROVE LiveCovered'
  BY <1>1 DEF StartBackup, SlotFree, Holding
<1>2. CASE PickParent
  BY <1>2 DEF PickParent, IsNewest
<1>3. CASE LoadParentIndex
  BY <1>3 DEF LoadParentIndex, BackupEnds
<1>4. ASSUME NEW o \in Objects, CarryForward(o) PROVE LiveCovered'
  BY <1>4 DEF CarryForward
<1>5. ASSUME NEW o \in Objects, Put(o) PROVE LiveCovered'
  BY <1>5 DEF Put
<1>6. CASE CommitIndex
  BY <1>6 DEF CommitIndex
<1>7. CASE CommitManifest
  BY <1>7 DEF CommitManifest, BackupEnds
<1>8. CASE BackupFails
  BY <1>8 DEF BackupFails, BackupEnds
<1>9. ASSUME NEW op \in {"forget", "unforget"}, NEW s \in Snaps,
             StartMove(op, s)
      PROVE  LiveCovered'
  BY <1>9 DEF StartMove, Race, Meets
<1>10. CASE MoveManifest
  BY <1>10 DEF MoveManifest
<1>11. CASE MoveIndex
  BY <1>11 DEF MoveIndex, MoveEnds
<1>12. CASE MoveFails
  BY <1>12 DEF MoveFails, MoveEnds, LeftAlone
<1>13. ASSUME NEW e \in BOOLEAN, StartPrune(e) PROVE LiveCovered'
  BY <1>13 DEF StartPrune, SlotFree, Holding, Race
<1>14. ASSUME NEW kind \in {"manifest", "index"}, NEW s \in Snaps,
             RemoveTrash(kind, s)
      PROVE  LiveCovered'
  BY <1>14 DEF RemoveTrash, PruneEnds
<1>15. CASE ListLive
  BY <1>15 DEF ListLive
<1>16. CASE ListTrash
  BY <1>16 DEF ListTrash
<1>17. ASSUME NEW s \in Snaps, MarkLive(s) PROVE LiveCovered'
  BY <1>17 DEF MarkLive, PruneEnds
<1>18. ASSUME NEW s \in Snaps, MarkTrashed(s) PROVE LiveCovered'
  BY <1>18 DEF MarkTrashed, PruneEnds
<1>19. CASE Sweep
  BY <1>19 DEF Sweep
<1>20. ASSUME NEW o \in Objects, Delete(o) PROVE LiveCovered'
  BY <1>20 DEF Delete
<1>21. CASE FinishPrune
  BY <1>21 DEF FinishPrune, PruneEnds
<1>22. CASE PruneFails
  BY <1>22 DEF PruneFails, PruneEnds, LeftAlone
<1>23. ASSUME NEW o \in Objects, Age(o) PROVE LiveCovered'
  BY <1>23 DEF Age
<1>24. CASE Crash
  BY <1>24 DEF Crash, BackupEnds, PruneEnds, MoveEnds, LeftAlone
<1>25. CASE UNCHANGED vars
  BY <1>25
<1> QED
  BY <1>1, <1>2, <1>3, <1>4, <1>5, <1>6, <1>7, <1>8, <1>9, <1>10, <1>11,
       <1>12, <1>13, <1>14, <1>15, <1>16, <1>17, <1>18, <1>19, <1>20, <1>21,
       <1>22, <1>23, <1>24, <1>25
  DEF Next, BackupStep, PruneStep

\* The prune marks from every snapshot in the trash, unless it emptied it.
LEMMA TrashStep ==
    ASSUME Daemon, IInv, [Next]_vars
    PROVE  TrashCovered'
<1> USE SnapsAssumption DEF IInv, TypeOK, PruneAlone, Known, Moved, Exposed,
     LiveCovered, TrashCovered, Spared, Daemon, vars, disk, files, history,
     backup, prune, mover
<1>1. ASSUME NEW s \in Snaps, StartBackup(s) PROVE TrashCovered'
  BY <1>1 DEF StartBackup, SlotFree, Holding
<1>2. CASE PickParent
  BY <1>2 DEF PickParent, IsNewest
<1>3. CASE LoadParentIndex
  BY <1>3 DEF LoadParentIndex, BackupEnds
<1>4. ASSUME NEW o \in Objects, CarryForward(o) PROVE TrashCovered'
  BY <1>4 DEF CarryForward
<1>5. ASSUME NEW o \in Objects, Put(o) PROVE TrashCovered'
  BY <1>5 DEF Put
<1>6. CASE CommitIndex
  BY <1>6 DEF CommitIndex
<1>7. CASE CommitManifest
  BY <1>7 DEF CommitManifest, BackupEnds
<1>8. CASE BackupFails
  BY <1>8 DEF BackupFails, BackupEnds
<1>9. ASSUME NEW op \in {"forget", "unforget"}, NEW s \in Snaps,
             StartMove(op, s)
      PROVE  TrashCovered'
  BY <1>9 DEF StartMove, Race, Meets
<1>10. CASE MoveManifest
  BY <1>10 DEF MoveManifest
<1>11. CASE MoveIndex
  BY <1>11 DEF MoveIndex, MoveEnds
<1>12. CASE MoveFails
  BY <1>12 DEF MoveFails, MoveEnds, LeftAlone
<1>13. ASSUME NEW e \in BOOLEAN, StartPrune(e) PROVE TrashCovered'
  BY <1>13 DEF StartPrune, SlotFree, Holding, Race
<1>14. ASSUME NEW kind \in {"manifest", "index"}, NEW s \in Snaps,
             RemoveTrash(kind, s)
      PROVE  TrashCovered'
  BY <1>14 DEF RemoveTrash, PruneEnds
<1>15. CASE ListLive
  BY <1>15 DEF ListLive, Emptied
<1>16. CASE ListTrash
  BY <1>16 DEF ListTrash, Placed, Paired, MidMove, MidPurge
<1>17. ASSUME NEW s \in Snaps, MarkLive(s) PROVE TrashCovered'
  BY <1>17 DEF MarkLive, PruneEnds
<1>18. ASSUME NEW s \in Snaps, MarkTrashed(s) PROVE TrashCovered'
  BY <1>18 DEF MarkTrashed, PruneEnds
<1>19. CASE Sweep
  BY <1>19 DEF Sweep
<1>20. ASSUME NEW o \in Objects, Delete(o) PROVE TrashCovered'
  BY <1>20 DEF Delete
<1>21. CASE FinishPrune
  BY <1>21 DEF FinishPrune, PruneEnds
<1>22. CASE PruneFails
  BY <1>22 DEF PruneFails, PruneEnds, LeftAlone
<1>23. ASSUME NEW o \in Objects, Age(o) PROVE TrashCovered'
  BY <1>23 DEF Age
<1>24. CASE Crash
  BY <1>24 DEF Crash, BackupEnds, PruneEnds, MoveEnds, LeftAlone
<1>25. CASE UNCHANGED vars
  BY <1>25
<1> QED
  BY <1>1, <1>2, <1>3, <1>4, <1>5, <1>6, <1>7, <1>8, <1>9, <1>10, <1>11,
       <1>12, <1>13, <1>14, <1>15, <1>16, <1>17, <1>18, <1>19, <1>20, <1>21,
       <1>22, <1>23, <1>24, <1>25
  DEF Next, BackupStep, PruneStep

\* What emptyTrash means to remove is what is in the trash.
LEMMA EmptiedStep ==
    ASSUME Daemon, IInv, [Next]_vars
    PROVE  Emptied'
<1> USE SnapsAssumption DEF IInv, TypeOK, PruneAlone, Moved, Exposed, Emptied,
     Daemon, vars, disk, files, history, backup, prune, mover
<1>1. ASSUME NEW s \in Snaps, StartBackup(s) PROVE Emptied'
  BY <1>1 DEF StartBackup, SlotFree, Holding
<1>2. CASE PickParent
  BY <1>2 DEF PickParent, IsNewest
<1>3. CASE LoadParentIndex
  BY <1>3 DEF LoadParentIndex, BackupEnds
<1>4. ASSUME NEW o \in Objects, CarryForward(o) PROVE Emptied'
  BY <1>4 DEF CarryForward
<1>5. ASSUME NEW o \in Objects, Put(o) PROVE Emptied'
  BY <1>5 DEF Put
<1>6. CASE CommitIndex
  BY <1>6 DEF CommitIndex
<1>7. CASE CommitManifest
  BY <1>7 DEF CommitManifest, BackupEnds
<1>8. CASE BackupFails
  BY <1>8 DEF BackupFails, BackupEnds
<1>9. ASSUME NEW op \in {"forget", "unforget"}, NEW s \in Snaps,
             StartMove(op, s)
      PROVE  Emptied'
  BY <1>9 DEF StartMove, Race, Meets
<1>10. CASE MoveManifest
  BY <1>10 DEF MoveManifest
<1>11. CASE MoveIndex
  BY <1>11 DEF MoveIndex, MoveEnds
<1>12. CASE MoveFails
  BY <1>12 DEF MoveFails, MoveEnds, LeftAlone
<1>13. ASSUME NEW e \in BOOLEAN, StartPrune(e) PROVE Emptied'
  BY <1>13 DEF StartPrune, SlotFree, Holding, Race
<1>14. ASSUME NEW kind \in {"manifest", "index"}, NEW s \in Snaps,
             RemoveTrash(kind, s)
      PROVE  Emptied'
  BY <1>14 DEF RemoveTrash, PruneEnds
<1>15. CASE ListLive
  BY <1>15 DEF ListLive
<1>16. CASE ListTrash
  BY <1>16 DEF ListTrash
<1>17. ASSUME NEW s \in Snaps, MarkLive(s) PROVE Emptied'
  BY <1>17 DEF MarkLive, PruneEnds
<1>18. ASSUME NEW s \in Snaps, MarkTrashed(s) PROVE Emptied'
  BY <1>18 DEF MarkTrashed, PruneEnds
<1>19. CASE Sweep
  BY <1>19 DEF Sweep
<1>20. ASSUME NEW o \in Objects, Delete(o) PROVE Emptied'
  BY <1>20 DEF Delete
<1>21. CASE FinishPrune
  BY <1>21 DEF FinishPrune, PruneEnds
<1>22. CASE PruneFails
  BY <1>22 DEF PruneFails, PruneEnds, LeftAlone
<1>23. ASSUME NEW o \in Objects, Age(o) PROVE Emptied'
  BY <1>23 DEF Age
<1>24. CASE Crash
  BY <1>24 DEF Crash, BackupEnds, PruneEnds, MoveEnds, LeftAlone
<1>25. CASE UNCHANGED vars
  BY <1>25
<1> QED
  BY <1>1, <1>2, <1>3, <1>4, <1>5, <1>6, <1>7, <1>8, <1>9, <1>10, <1>11,
       <1>12, <1>13, <1>14, <1>15, <1>16, <1>17, <1>18, <1>19, <1>20, <1>21,
       <1>22, <1>23, <1>24, <1>25
  DEF Next, BackupStep, PruneStep

\* Only a move and emptyTrash part the two files of a snapshot, and when they
\* stop half-way it is torn.
LEMMA PlacedStep ==
    ASSUME Daemon, IInv, [Next]_vars
    PROVE  Placed'
<1> USE SnapsAssumption DEF IInv, TypeOK, PruneAlone, Older, Known, Moved,
     Exposed, Emptied, Placed, Paired, MidMove, MidForget, MidUnforget,
     MidPurge, TrashFiles, Daemon, vars, disk, files, history, backup, prune,
     mover
<1>1. ASSUME NEW s \in Snaps, StartBackup(s) PROVE Placed'
  BY <1>1 DEF StartBackup, SlotFree, Holding
<1>2. CASE PickParent
  BY <1>2 DEF PickParent, IsNewest
<1>3. CASE LoadParentIndex
  BY <1>3 DEF LoadParentIndex, BackupEnds
<1>4. ASSUME NEW o \in Objects, CarryForward(o) PROVE Placed'
  BY <1>4 DEF CarryForward
<1>5. ASSUME NEW o \in Objects, Put(o) PROVE Placed'
  BY <1>5 DEF Put
<1>6. CASE CommitIndex
  BY <1>6 DEF CommitIndex
<1>7. CASE CommitManifest
  <2>1. bid \notin Known /\ bid \in Snaps /\ gpc = "idle" /\ gpc' = "idle"
    BY <1>7 DEF CommitManifest
  <2>2. bid \in liveI /\ UNCHANGED <<trashM, trashI, history, mover>>
    BY <1>7 DEF CommitManifest, Stored
  <2>3. mpc # "idle" => mid # bid
    BY <1>7, <2>1 DEF CommitManifest
  <2>4. CASE liveM' = liveM \cup {bid} /\ UNCHANGED liveI
    BY <2>1, <2>2, <2>3, <2>4
  <2>5. CASE liveI' = liveI \ {bid} /\ UNCHANGED liveM
    BY <2>1, <2>2, <2>3, <2>5
  <2> QED
    BY <1>7, <2>4, <2>5 DEF CommitManifest
<1>8. CASE BackupFails
  BY <1>8 DEF BackupFails, BackupEnds
<1>9. ASSUME NEW op \in {"forget", "unforget"}, NEW s \in Snaps,
             StartMove(op, s)
      PROVE  Placed'
  BY <1>9 DEF StartMove, Race, Meets
<1>10. CASE MoveManifest
  BY <1>10 DEF MoveManifest
<1>11. CASE MoveIndex
  BY <1>11 DEF MoveIndex, MoveEnds
<1>12. CASE MoveFails
  BY <1>12 DEF MoveFails, MoveEnds, LeftAlone
<1>13. ASSUME NEW e \in BOOLEAN, StartPrune(e) PROVE Placed'
  BY <1>13 DEF StartPrune, SlotFree, Holding, Race
<1>14. ASSUME NEW kind \in {"manifest", "index"}, NEW s \in Snaps,
             RemoveTrash(kind, s)
      PROVE  Placed'
  <2>1. gpc = "empty" /\ emptying /\ <<kind, s>> \in toEmpty
    BY <1>14 DEF RemoveTrash
  <2>2. ASSUME NEW f \in toEmpty PROVE f[2] \in Nat /\ s <= f[2]
    <3>1. f \in {"manifest", "index"} \X Snaps /\ s \in Nat
      BY DEF TrashFiles
    <3>2. f[2] \in Nat
      BY <3>1
    <3>3. f[2] > s \/ f[2] = s
      BY <1>14 DEF RemoveTrash
    <3> QED
      BY <3>1, <3>2, <3>3
  <2>3. /\ trashM' = IF kind = "manifest" THEN trashM \ {s} ELSE trashM
        /\ trashI' = IF kind = "index" THEN trashI \ {s} ELSE trashI
        /\ UNCHANGED <<liveM, liveI, history, mover>>
    BY <1>14 DEF RemoveTrash
  <2>4. ASSUME NEW t \in Snaps \ Exposed
        PROVE  (Paired(t) \/ MidMove(t) \/ MidPurge(t))'
    <3>1. (t \in trashM <=> <<"manifest", t>> \in toEmpty)
          /\ (t \in trashI <=> <<"index", t>> \in toEmpty)
      BY <2>1, <2>4
    <3>2. Paired(t) \/ MidPurge(t)
      BY <2>1, <2>4
    <3>3. CASE t = s
      <4>1. s \in (IF kind = "index" THEN trashI ELSE trashM)
        BY <2>1, <3>1, <3>3
      <4>2. /\ gpc' = "empty" /\ emptying'
            /\ toEmpty' = toEmpty \ {<<kind, s>>}
        BY <1>14, <2>1, <4>1 DEF RemoveTrash
      <4>3. \A f \in toEmpty' : s <= f[2]
        BY <2>2, <4>2
      <4>4. CASE kind = "index"
        BY <2>3, <3>2, <3>3, <4>1, <4>2, <4>3, <4>4
      <4>5. CASE kind = "manifest"
        <5>1. s \notin trashI
          BY <1>14, <2>1, <3>1, <3>3, <4>5 DEF RemoveTrash
        <5> QED
          BY <2>3, <3>2, <3>3, <4>1, <4>2, <4>3, <4>5, <5>1
      <4> QED
        BY <4>4, <4>5
    <3>4. CASE t # s
      BY <1>14, <2>1, <2>2, <2>3, <3>1, <3>2, <3>4 DEF RemoveTrash
    <3> QED
      BY <3>3, <3>4
  <2> QED
    BY <2>3, <2>4
<1>15. CASE ListLive
  BY <1>15 DEF ListLive
<1>16. CASE ListTrash
  BY <1>16 DEF ListTrash
<1>17. ASSUME NEW s \in Snaps, MarkLive(s) PROVE Placed'
  BY <1>17 DEF MarkLive, PruneEnds
<1>18. ASSUME NEW s \in Snaps, MarkTrashed(s) PROVE Placed'
  BY <1>18 DEF MarkTrashed, PruneEnds
<1>19. CASE Sweep
  BY <1>19 DEF Sweep
<1>20. ASSUME NEW o \in Objects, Delete(o) PROVE Placed'
  BY <1>20 DEF Delete
<1>21. CASE FinishPrune
  BY <1>21 DEF FinishPrune, PruneEnds
<1>22. CASE PruneFails
  <2>1. UNCHANGED <<files, backup, mover>> /\ Exposed \subseteq Exposed'
    BY <1>22 DEF PruneFails, LeftAlone
  <2>2. ASSUME NEW t \in Snaps \ Exposed', MidPurge(t) PROVE FALSE
    <3>1. <<"manifest", t>> \in toEmpty /\ t \in published /\ ~Paired(t)
      BY <2>1, <2>2
    <3>2. t \in {f[2] : f \in toEmpty}
      <4>1. t = (<<"manifest", t>>)[2]
        OBVIOUS
      <4> QED
        BY <3>1, <4>1
    <3> QED
      BY <1>22, <2>1, <2>2, <3>1, <3>2 DEF PruneFails, LeftAlone
  <2> QED
    BY <2>1, <2>2
<1>23. ASSUME NEW o \in Objects, Age(o) PROVE Placed'
  BY <1>23 DEF Age
<1>24. CASE Crash
  BY <1>24 DEF Crash, BackupEnds, PruneEnds, MoveEnds, LeftAlone
<1>25. CASE UNCHANGED vars
  BY <1>25
<1> QED
  BY <1>1, <1>2, <1>3, <1>4, <1>5, <1>6, <1>7, <1>8, <1>9, <1>10, <1>11,
       <1>12, <1>13, <1>14, <1>15, <1>16, <1>17, <1>18, <1>19, <1>20, <1>21,
       <1>22, <1>23, <1>24, <1>25
  DEF Next, BackupStep, PruneStep

\* Objects go away only in a prune, and then only what nobody needs.
LEMMA StoredStep ==
    ASSUME Daemon, IInv, [Next]_vars
    PROVE  Stored'
<1> USE SnapsAssumption DEF IInv, TypeOK, PruneAlone, Older, Known, Moved,
     Exposed, LiveCovered, TrashCovered, Spared, Stored, Daemon, vars, disk,
     files, history, backup, prune, mover
<1>1. ASSUME NEW s \in Snaps, StartBackup(s) PROVE Stored'
  BY <1>1 DEF StartBackup, SlotFree, Holding
<1>2. CASE PickParent
  BY <1>2 DEF PickParent, IsNewest
<1>3. CASE LoadParentIndex
  BY <1>3 DEF LoadParentIndex, BackupEnds
<1>4. ASSUME NEW o \in Objects, CarryForward(o) PROVE Stored'
  BY <1>4 DEF CarryForward
<1>5. ASSUME NEW o \in Objects, Put(o) PROVE Stored'
  BY <1>5 DEF Put
<1>6. CASE CommitIndex
  BY <1>6 DEF CommitIndex
<1>7. CASE CommitManifest
  BY <1>7 DEF CommitManifest, BackupEnds
<1>8. CASE BackupFails
  BY <1>8 DEF BackupFails, BackupEnds
<1>9. ASSUME NEW op \in {"forget", "unforget"}, NEW s \in Snaps,
             StartMove(op, s)
      PROVE  Stored'
  BY <1>9 DEF StartMove, Race, Meets
<1>10. CASE MoveManifest
  BY <1>10 DEF MoveManifest
<1>11. CASE MoveIndex
  <2>1. /\ mid \in published /\ mid \in Known \cup Exposed
        /\ bpc # "idle" => mid # bid
    BY <1>11 DEF MoveIndex
  <2>2. /\ bpc = "manifest" => bid \in liveI'
        /\ Known' \subseteq Known \cup {mid}
        /\ UNCHANGED <<objects, idx, history, backup>>
    BY <1>11, <2>1 DEF MoveIndex
  <2>3. Known \ {mid} \subseteq Known'
    BY <1>11 DEF MoveIndex
  <2>4. mid \in Known' \cup Exposed
    BY <1>11 DEF MoveIndex, Placed, Paired, MidMove, MidForget, MidUnforget,
             MidPurge
  <2> QED
    BY <2>1, <2>2, <2>3, <2>4
<1>12. CASE MoveFails
  BY <1>12 DEF MoveFails, MoveEnds, LeftAlone
<1>13. ASSUME NEW e \in BOOLEAN, StartPrune(e) PROVE Stored'
  BY <1>13 DEF StartPrune, SlotFree, Holding, Race
<1>14. ASSUME NEW kind \in {"manifest", "index"}, NEW s \in Snaps,
             RemoveTrash(kind, s)
      PROVE  Stored'
  BY <1>14 DEF RemoveTrash, PruneEnds
<1>15. CASE ListLive
  BY <1>15 DEF ListLive
<1>16. CASE ListTrash
  BY <1>16 DEF ListTrash
<1>17. ASSUME NEW s \in Snaps, MarkLive(s) PROVE Stored'
  BY <1>17 DEF MarkLive, PruneEnds
<1>18. ASSUME NEW s \in Snaps, MarkTrashed(s) PROVE Stored'
  BY <1>18 DEF MarkTrashed, PruneEnds
<1>19. CASE Sweep
  BY <1>19 DEF Sweep
<1>20. ASSUME NEW o \in Objects, Delete(o) PROVE Stored'
  BY <1>20 DEF Delete
<1>21. CASE FinishPrune
  BY <1>21 DEF FinishPrune, PruneEnds
<1>22. CASE PruneFails
  BY <1>22 DEF PruneFails, PruneEnds, LeftAlone
<1>23. ASSUME NEW o \in Objects, Age(o) PROVE Stored'
  BY <1>23 DEF Age
<1>24. CASE Crash
  BY <1>24 DEF Crash, BackupEnds, PruneEnds, MoveEnds, LeftAlone
<1>25. CASE UNCHANGED vars
  BY <1>25
<1> QED
  BY <1>1, <1>2, <1>3, <1>4, <1>5, <1>6, <1>7, <1>8, <1>9, <1>10, <1>11,
       <1>12, <1>13, <1>14, <1>15, <1>16, <1>17, <1>18, <1>19, <1>20, <1>21,
       <1>22, <1>23, <1>24, <1>25
  DEF Next, BackupStep, PruneStep

\* What is exposed stays so.
LEMMA ExposedStays ==
    ASSUME [Next]_vars
    PROVE  Exposed \subseteq Exposed' /\ raced \subseteq raced'
  BY DEF Exposed, Next, BackupStep, PruneStep, vars, disk, files, history,
         StartBackup, PickParent, LoadParentIndex, CarryForward, Put,
         CommitIndex, CommitManifest, BackupFails, StartMove, MoveManifest,
         MoveIndex, MoveFails, StartPrune, RemoveTrash, ListLive, ListTrash,
         MarkLive, MarkTrashed, Sweep, Delete, FinishPrune, PruneFails, Age,
         Crash, Race, LeftAlone

\* The invariant of one daemon.
LEMMA Invariant == Daemon => (Spec => []IInv)
<1> SUFFICES ASSUME Daemon PROVE Spec => []IInv
  OBVIOUS
<1>1. Init => IInv
  BY DEF Init, IInv, TypeOK, PruneAlone, Older, Known, Moved, LiveCovered,
         TrashCovered, Emptied, Placed, Paired, Stored
<1>2. IInv /\ [Next]_vars => IInv'
  BY TypeStep, AloneStep, OlderStep, MovedStep, LiveStep, TrashStep,
     EmptiedStep, PlacedStep, StoredStep DEF IInv
<1> QED
  BY <1>1, <1>2, PTL DEF Spec

----------------------------------------------------------------------------
(* The theorems.                                                           *)

\* Type correctness, whatever overlaps.
THEOREM Typed == Spec => []TypeOK
<1>1. Init => TypeOK
  BY DEF Init, TypeOK
<1>2. TypeOK /\ [Next]_vars => TypeOK'
  BY TypeStep
<1> QED
  BY <1>1, <1>2, PTL DEF Spec

\* In one daemon no prune deletes an object that a listed snapshot names,
\* torn or not, whatever died before; but for the snapshots that were moved
\* while it listed.
THEOREM OnlyGarbage == Daemon => (Spec => DeletesOnlyGarbage)
<1> SUFFICES ASSUME Daemon PROVE Spec => DeletesOnlyGarbage
  OBVIOUS
<1>1. ASSUME IInv, [Next]_vars
      PROVE  [\A o \in objects \ objects' :
                  \A s \in liveM \ raced : o \notin idx[s]]_vars
  <2>1. ASSUME NEW o \in Objects, Delete(o)
        PROVE  \A d \in objects \ objects' :
                   \A s \in liveM \ raced : d \notin idx[s]
    BY <1>1, <2>1 DEF Delete, IInv, LiveCovered, Spared
  <2>2. ASSUME ~\E o \in Objects : Delete(o) PROVE objects \subseteq objects'
    BY <1>1, <2>2
    DEF Next, BackupStep, PruneStep, vars, disk, files, StartBackup,
        PickParent, LoadParentIndex, CarryForward, Put, CommitIndex,
        CommitManifest, BackupFails, StartMove, MoveManifest, MoveIndex,
        MoveFails, StartPrune, RemoveTrash, ListLive, ListTrash, MarkLive,
        MarkTrashed, Sweep, FinishPrune, PruneFails, Age, Crash
  <2> QED
    BY <2>1, <2>2
<1> QED
  BY <1>1, Invariant, PTL DEF Spec, DeletesOnlyGarbage

\* In one daemon every listed snapshot keeps all its data, through handlers
\* beside prunes and deaths anywhere; but for those that these exposed.
THEOREM NothingMissing == Daemon => (Spec => []NoDangling)
<1>1. IInv => NoDangling
  BY DEF IInv, Stored, Known, NoDangling
<1> QED
  BY <1>1, Invariant, PTL

\* And its index.
THEOREM Indexed == Daemon => (Spec => []ManifestHasIndex)
<1>1. IInv => ManifestHasIndex
  BY DEF IInv, TypeOK, Placed, Paired, MidMove, MidPurge, ManifestHasIndex
<1> QED
  BY <1>1, Invariant, PTL

\* And what is in the trash can be taken back.
THEOREM Recoverable == Daemon => (Spec => []TrashIsRecoverable)
<1>1. IInv => TrashIsRecoverable
  BY DEF IInv, Stored, Known, TrashIsRecoverable
<1> QED
  BY <1>1, Invariant, PTL

----------------------------------------------------------------------------
(* The refinement.                                                         *)

lives == [s \in Snaps |-> LifeOf(s)]

\* In one daemon data is never missing from a snapshot that is not exposed, so
\* the files alone tell how far it is.
PlaceOf(s) ==
    IF s \notin published THEN "none"
    ELSE IF s \in Exposed THEN "torn"
    ELSE IF s \in liveM \cap liveI THEN "live"
    ELSE IF s \in (liveM \cup trashM) \cap (liveI \cup trashI) THEN "trashed"
    ELSE "gone"

\* Under the invariant the two readings agree.
LEMMA LifeIsPlace == IInv => lives = [s \in Snaps |-> PlaceOf(s)]
<1>1. ASSUME IInv, NEW s \in Snaps PROVE LifeOf(s) = PlaceOf(s)
  BY <1>1 DEF IInv, Stored, Known, LifeOf, PlaceOf, Whole
<1> QED
  BY <1>1 DEF lives

\* What is to be shown of a step that touches one snapshot.
LEMMA OneChanges ==
    ASSUME IInv, IInv', NEW x \in Snaps,
           \A s \in Snaps : s # x => PlaceOf(s)' = PlaceOf(s)
    PROVE  /\ lives[x] = PlaceOf(x)
           /\ lives' = [lives EXCEPT ![x] = PlaceOf(x)']
<1>1. /\ lives = [s \in Snaps |-> PlaceOf(s)]
      /\ lives' = [s \in Snaps |-> PlaceOf(s)]'
  <2>1. (IInv => lives = [s \in Snaps |-> PlaceOf(s)])'
    BY LifeIsPlace, PTL
  <2> QED
    BY LifeIsPlace, <2>1
<1>2. lives' = [s \in Snaps |-> PlaceOf(s)']
  BY <1>1
<1> QED
  BY <1>1, <1>2

\* A step that exposes one snapshot at most, and moves nothing, is a step of
\* its life.
LEMMA TearStep ==
    ASSUME IInv, IInv', Exposed \subseteq Exposed',
           NEW x \in Snaps, Exposed' \subseteq Exposed \cup {x},
           UNCHANGED <<liveM, liveI, trashM, trashI, published>>
    PROVE  [Life!Next]_lives
<1>1. \A s \in Snaps : s # x => PlaceOf(s)' = PlaceOf(s)
  BY DEF PlaceOf
<1>2. CASE PlaceOf(x)' = PlaceOf(x)
  <2>1. lives' = [lives EXCEPT ![x] = lives[x]]
    BY <1>1, <1>2, OneChanges
  <2> QED
    BY <2>1 DEF lives
<1>3. CASE PlaceOf(x)' # PlaceOf(x)
  <2>1. PlaceOf(x)' = "torn" /\ PlaceOf(x) # "torn"
    BY <1>3 DEF PlaceOf
  <2>2. lives' = [lives EXCEPT ![x] = "torn"] /\ lives[x] # "torn"
    BY <1>1, <2>1, OneChanges
  <2>3. Life!Tear(x)
    BY <2>2 DEF Life!Tear, Life!Move, lives
  <2> QED
    BY <2>3 DEF Life!Next
<1> QED
  BY <1>2, <1>3

\* At any time one snapshot at most is between its two files.
LEMMA OneIsHalfDone ==
    ASSUME IInv, NEW s \in Snaps \ Exposed, NEW t \in Snaps \ Exposed,
           ~Paired(s), ~Paired(t)
    PROVE  s = t
<1>1. (MidMove(s) \/ MidPurge(s)) /\ (MidMove(t) \/ MidPurge(t))
  BY DEF IInv, Placed
<1>2. MidMove(s) => gpc # "empty" /\ mid = s
  BY DEF IInv, Moved, MidMove, Exposed
<1>3. MidMove(t) => gpc # "empty" /\ mid = t
  BY DEF IInv, Moved, MidMove, Exposed
<1>4. CASE MidMove(s)
  BY <1>1, <1>2, <1>3, <1>4 DEF MidPurge
<1>5. CASE MidPurge(s)
  <2>1. MidPurge(t) /\ s \in Nat /\ t \in Nat
    BY <1>1, <1>3, <1>5, SnapsAssumption DEF MidPurge
  <2>2. <<"manifest", s>> \in toEmpty /\ <<"manifest", t>> \in toEmpty
    BY <1>5, <2>1 DEF MidPurge, IInv, Emptied
  <2>3. t <= s /\ s <= t
    <3>1. t <= (<<"manifest", s>>)[2]
      BY <2>1, <2>2 DEF MidPurge
    <3>2. s <= (<<"manifest", t>>)[2]
      BY <1>5, <2>2 DEF MidPurge
    <3> QED
      BY <3>1, <3>2
  <2> QED
    BY <2>1, <2>3
<1> QED
  BY <1>1, <1>4, <1>5

\* So what is left alone tears one at most.
LEMMA LeavesOne ==
    ASSUME IInv, NEW S, LeftAlone(S), Snaps # {}
    PROVE  \E s \in Snaps : Exposed' \subseteq Exposed \cup {s}
<1> DEFINE Torn == {s \in (S \cap published) \ raced : ~Paired(s)}
<1>1. Exposed' = Exposed \cup Torn
  BY DEF LeftAlone, Exposed
<1>2. Torn \subseteq Snaps
  BY DEF IInv, Older
<1>3. CASE Torn \subseteq Exposed
  BY <1>1, <1>3
<1>4. CASE ~(Torn \subseteq Exposed)
  <2>1. PICK s \in Torn : s \notin Exposed
    BY <1>4
  <2>2. \A t \in Torn : t \in Exposed \/ t = s
    BY <1>2, <2>1, OneIsHalfDone
  <2> QED
    BY <1>1, <1>2, <2>1, <2>2
<1> QED
  BY <1>3, <1>4

\* Every step is a step in the life of one snapshot, or none.
LEMMA SimulationStep ==
    ASSUME Daemon, IInv, IInv', [Next]_vars
    PROVE  [Life!Next]_lives
<1> DEFINE place == [s \in Snaps |-> PlaceOf(s)]
<1>1. lives = place /\ lives' = place'
  <2>1. (IInv => lives = place)'
    BY LifeIsPlace, PTL
  <2> QED
    BY LifeIsPlace, <2>1
<1>2. UNCHANGED <<liveM, liveI, trashM, trashI, published, history>>
          => UNCHANGED place
  BY DEF PlaceOf, history, Exposed
<1>3. CASE CommitIndex
  <2>1. bid \notin published /\ liveI' = liveI \cup {bid}
    BY <1>3 DEF CommitIndex, IInv, Older
  <2> QED
    BY <1>1, <1>3, <2>1 DEF CommitIndex, PlaceOf, history, Exposed
<1>4. CASE CommitManifest
  <2>1. PICK x \in Snaps : x = bid
    BY <1>4 DEF CommitManifest, IInv, TypeOK
  <2>2. /\ x \notin published /\ x \in liveI
        /\ UNCHANGED <<trashM, trashI, history>>
    BY <1>4, <2>1 DEF CommitManifest, IInv, Older, Stored
  <2>3. CASE liveM' = liveM \cup {x} /\ published' = published \cup {x}
             /\ UNCHANGED liveI
    <3>1. \A s \in Snaps : s # x => PlaceOf(s)' = PlaceOf(s)
      BY <2>2, <2>3 DEF PlaceOf, history, Exposed
    <3>2. PlaceOf(x) = "none"
      BY <2>2 DEF PlaceOf
    <3>3. PlaceOf(x)' = IF x \in Exposed THEN "torn" ELSE "live"
      BY <2>2, <2>3 DEF PlaceOf, history, Exposed
    <3>4. Life!Tear(x) \/ Life!Publish(x)
      BY <3>1, <3>2, <3>3, OneChanges
      DEF Life!Tear, Life!Publish, Life!Move, lives
    <3> QED
      BY <3>4 DEF Life!Next
  <2>4. CASE liveI' = liveI \ {x} /\ UNCHANGED <<liveM, published>>
    BY <1>1, <2>2, <2>4 DEF PlaceOf, history, Exposed
  <2> QED
    BY <1>4, <2>1, <2>3, <2>4 DEF CommitManifest
<1>5. CASE MoveManifest
  <2>1. PICK x \in Snaps : x = mid
    BY <1>5 DEF MoveManifest, IInv, TypeOK
  <2>2. x \in published /\ UNCHANGED <<liveI, trashI, published, history>>
    BY <1>5, <2>1 DEF MoveManifest, IInv, Moved
  <2>3. \A s \in Snaps : s # x => PlaceOf(s)' = PlaceOf(s)
    BY <1>5, <2>1, <2>2 DEF MoveManifest, PlaceOf, history, Exposed
  <2>4. CASE x \in Exposed
    BY <1>1, <2>2, <2>3, <2>4 DEF PlaceOf, history, Exposed
  <2>5. CASE x \notin Exposed
    <3>1. Paired(x)
      BY <1>5, <2>1, <2>5
      DEF MoveManifest, IInv, Placed, Moved, MidMove, MidPurge, Exposed
    <3>2. CASE mop = "forget" /\ x \in liveM
      <4>1. PlaceOf(x) = "live" /\ PlaceOf(x)' = "trashed"
        BY <1>5, <2>1, <2>2, <2>5, <3>1, <3>2
        DEF MoveManifest, PlaceOf, Paired, history, Exposed
      <4>2. Life!Forget(x)
        BY <2>3, <4>1, OneChanges DEF Life!Forget, Life!Move, lives
      <4> QED
        BY <4>2 DEF Life!Next
    <3>3. CASE mop = "unforget" /\ x \in trashM
      <4>1. PlaceOf(x)' = PlaceOf(x)
        BY <1>5, <2>1, <2>2, <2>5, <3>1, <3>3
        DEF MoveManifest, PlaceOf, Paired, history, Exposed
      <4> QED
        BY <1>1, <2>3, <4>1
    <3>4. CASE UNCHANGED <<liveM, trashM>>
      BY <1>1, <1>2, <2>2, <3>4
    <3> QED
      BY <1>5, <2>1, <3>2, <3>3, <3>4 DEF MoveManifest
  <2> QED
    BY <2>4, <2>5
<1>6. CASE MoveIndex
  <2>1. PICK x \in Snaps : x = mid
    BY <1>6 DEF MoveIndex, IInv, TypeOK
  <2>2. x \in published /\ UNCHANGED <<liveM, trashM, published, history>>
    BY <1>6, <2>1 DEF MoveIndex, IInv, Moved
  <2>3. \A s \in Snaps : s # x => PlaceOf(s)' = PlaceOf(s)
    BY <1>6, <2>1, <2>2 DEF MoveIndex, PlaceOf, history, Exposed
  <2>4. CASE x \in Exposed
    BY <1>1, <2>2, <2>3, <2>4 DEF PlaceOf, history, Exposed
  <2>5. CASE x \notin Exposed
    <3>1. Paired(x) \/ MidForget(x) \/ MidUnforget(x)
      BY <1>6, <2>1, <2>5
      DEF MoveIndex, IInv, Placed, Moved, MidMove, MidPurge, Exposed
    <3>2. CASE MidForget(x)
      <4>1. PlaceOf(x)' = PlaceOf(x)
        BY <1>6, <2>1, <2>2, <2>5, <3>2
        DEF MoveIndex, MidForget, PlaceOf, history, Exposed
      <4> QED
        BY <1>1, <2>3, <4>1
    <3>3. CASE MidUnforget(x)
      <4>1. PlaceOf(x) = "trashed" /\ PlaceOf(x)' = "live"
        BY <1>6, <2>1, <2>2, <2>5, <3>3
        DEF MoveIndex, MidUnforget, PlaceOf, history, Exposed
      <4>2. Life!Unforget(x)
        BY <2>3, <4>1, OneChanges DEF Life!Unforget, Life!Move, lives
      <4> QED
        BY <4>2 DEF Life!Next
    <3>4. CASE Paired(x)
      <4>1. UNCHANGED <<liveI, trashI>>
        BY <1>6, <2>1, <2>5, <3>4
        DEF MoveIndex, IInv, Moved, Known, Paired
      <4> QED
        BY <1>1, <1>2, <2>2, <4>1
    <3> QED
      BY <3>1, <3>2, <3>3, <3>4
  <2> QED
    BY <2>4, <2>5
<1>7. ASSUME NEW kind \in {"manifest", "index"}, NEW s \in Snaps,
             RemoveTrash(kind, s)
      PROVE  [Life!Next]_lives
  <2>1. /\ trashM' = IF kind = "manifest" THEN trashM \ {s} ELSE trashM
        /\ trashI' = IF kind = "index" THEN trashI \ {s} ELSE trashI
        /\ UNCHANGED <<liveM, liveI, published, history>>
        /\ gpc = "empty" /\ emptying /\ <<kind, s>> \in toEmpty
    BY <1>7 DEF RemoveTrash, IInv, Emptied
  <2>2. \A t \in Snaps : t # s => PlaceOf(t)' = PlaceOf(t)
    BY <2>1 DEF PlaceOf, history, Exposed
  <2>3. CASE s \in Exposed
    BY <1>1, <2>1, <2>2, <2>3 DEF PlaceOf, history, Exposed
  <2>4. CASE s \notin Exposed
    <3>1. /\ s \in trashM <=> <<"manifest", s>> \in toEmpty
          /\ s \in trashI <=> <<"index", s>> \in toEmpty
          /\ Paired(s) \/ MidPurge(s)
      BY <2>1, <2>4
      DEF IInv, Emptied, Placed, Moved, MidMove, Exposed
    <3>2. /\ s \in trashM /\ s \in published /\ s \notin liveI
          /\ s \notin liveM
      BY <2>1, <3>1 DEF Paired, MidPurge, IInv, Older, Known
    <3>3. CASE kind = "index"
      <4>1. PlaceOf(s) = "trashed" /\ PlaceOf(s)' = "gone"
        BY <2>1, <2>4, <3>1, <3>2, <3>3
        DEF PlaceOf, history, Exposed
      <4>2. Life!Purge(s)
        BY <2>2, <4>1, OneChanges DEF Life!Purge, Life!Move, lives
      <4> QED
        BY <4>2 DEF Life!Next
    <3>4. CASE kind = "manifest"
      <4>1. s \notin trashI
        BY <1>7, <3>1, <3>4, SnapsAssumption DEF RemoveTrash
      <4>2. PlaceOf(s)' = PlaceOf(s)
        BY <2>1, <2>4, <3>2, <3>4, <4>1
        DEF PlaceOf, history, Exposed
      <4> QED
        BY <1>1, <2>2, <4>2
    <3> QED
      BY <3>3, <3>4
  <2> QED
    BY <2>3, <2>4
<1>8. CASE LoadParentIndex
  <2>1. UNCHANGED files /\ Exposed' \subseteq Exposed \cup {bid}
        /\ bid \in Snaps
    BY <1>8 DEF LoadParentIndex, Exposed, IInv, TypeOK
  <2> QED
    BY <2>1, TearStep, ExposedStays DEF files
<1>9. ASSUME NEW op \in {"forget", "unforget"}, NEW s \in Snaps,
             StartMove(op, s)
      PROVE  [Life!Next]_lives
  <2>1. UNCHANGED files /\ Exposed' \subseteq Exposed \cup {s}
    BY <1>9 DEF StartMove, Race, Exposed
  <2> QED
    BY <2>1, TearStep, ExposedStays DEF files
<1>10. CASE \E e \in BOOLEAN : StartPrune(e)
  <2>1. UNCHANGED files
        /\ Exposed' \subseteq Exposed \cup (IF mpc # "idle" THEN {mid} ELSE {})
    BY <1>10 DEF StartPrune, Race, Exposed
  <2>2. CASE mpc # "idle"
    BY <2>1, <2>2, TearStep, ExposedStays DEF files, IInv, TypeOK
  <2>3. CASE mpc = "idle"
    BY <1>1, <1>2, <1>10, <2>1, <2>3 DEF files, StartPrune, Race, history
  <2> QED
    BY <2>2, <2>3
<1>11. CASE MoveFails \/ PruneFails \/ Crash
  <2>1. UNCHANGED files /\ \E S : LeftAlone(S)
    BY <1>11 DEF MoveFails, PruneFails, Crash
  <2>2. CASE Snaps = {}
    BY <1>1, <2>2
  <2>3. CASE Snaps # {}
    <3>1. PICK s \in Snaps : Exposed' \subseteq Exposed \cup {s}
      BY <2>1, <2>3, LeavesOne
    <3> QED
      BY <2>1, <3>1, TearStep, ExposedStays DEF files
  <2> QED
    BY <2>2, <2>3
<1>12. ASSUME ~CommitIndex, ~CommitManifest, ~MoveManifest, ~MoveIndex,
              ~\E kind \in {"manifest", "index"}, s \in Snaps :
                    RemoveTrash(kind, s),
              ~LoadParentIndex, ~\E op \in {"forget", "unforget"},
                    s \in Snaps : StartMove(op, s),
              ~\E e \in BOOLEAN : StartPrune(e), ~MoveFails, ~PruneFails,
              ~Crash
       PROVE  UNCHANGED <<liveM, liveI, trashM, trashI, published, history>>
  BY <1>12
  DEF Next, BackupStep, PruneStep, vars, disk, files, history, StartBackup,
      PickParent, CarryForward, Put, BackupFails, ListLive, ListTrash,
      MarkLive, MarkTrashed, Sweep, Delete, FinishPrune, Age
<1> QED
  BY <1>1, <1>2, <1>3, <1>4, <1>5, <1>6, <1>7, <1>8, <1>9, <1>10, <1>11,
     <1>12

\* In one daemon the repository implements the life of a snapshot: nothing
\* but emptying the trash makes one unrestorable that was not exposed.
THEOREM Implements == Daemon => (Spec => LivesOn)
<1> SUFFICES ASSUME Daemon PROVE Spec => LivesOn
  OBVIOUS
<1>1. Init => Life!Init
  BY DEF Init, Life!Init, LifeOf
<1>2. IInv /\ IInv' /\ [Next]_vars
        => [Life!Next]_([s \in Snaps |-> LifeOf(s)])
  BY SimulationStep DEF lives
<1> QED
  BY <1>1, <1>2, Invariant, PTL DEF Spec, LivesOn, Life!Spec
==============================================================================
