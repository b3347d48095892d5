--------------------------- MODULE Quiesce_proofs ---------------------------
(***************************************************************************)
(* Proofs about Quiesce, for any set of runs and any set of faults: the    *)
(* safety properties its runs check, and that it implements SaveHold.      *)
(* One inductive invariant carries them all; its parts say who holds the   *)
(* duty to send save-on, and what is known of the game meanwhile.          *)
(***************************************************************************)
EXTENDS Quiesce, TLAPS

Before == {"idle", "cold", "status", "drain", "saveoff"}
Holding == {"flush", "wait", "hot"}

\* The slot: one run at a time.
OneActive == \A q, r \in Runs : Active(q) /\ Active(r) => q = r

\* No watchdog before save-off; a run that got as far as the hot phase has
\* no error to report yet.
Fresh(r) ==
    /\ pc[r] \in Before => wd[r] = "none"
    /\ pc[r] \in Before \cup Holding => report[r] = "none"
    /\ pc[r] \in Before \cup Holding => ~owes[r]

\* The duty to send save-on has at most one owner, and nobody sent it yet.
OneOwner(r) ==
    /\ held[r] => wd[r] = "armed" /\ ~owes[r] /\ saveOns[r] = 0
    /\ owes[r] => wd[r] \in {"armed", "off"} /\ saveOns[r] = 0
    /\ owes[r] => pc[r] \in {"stopwd", "saveon"}
    /\ wd[r] = "sending" => ~owes[r] /\ saveOns[r] = 0 /\ warned[r]
    /\ wd[r] = "none" => saveOns[r] = 0
    /\ wd[r] \in {"none", "armed"} => ~warned[r]

\* What Release established on its way out.
Released(r) ==
    /\ pc[r] \in {"stopwd", "saveon", "finish"} => ~held[r]
    /\ pc[r] = "saveon" => owes[r]
    /\ pc[r] \in {"saveon", "finish"} => wd[r] \in {"none", "off"}
    /\ pc[r] = "ended" =>
          \/ report[r] = "panic"
          \/ wd[r] \in {"none", "off"} /\ ~held[r]
    /\ pc[r] = "killed" => wd[r] \in {"none", "off"} /\ ~held[r]

\* A save-off in force is somebody's duty, or somebody was told.
Accounted(r) ==
    offBy = r => \/ held[r] \/ owes[r] \/ wd[r] = "sending"
                 \/ alarm[r] \/ report[r] # "none" \/ pc[r] = "killed"

\* What a run relies on while it holds the game.
Sheltered(r) ==
    /\ pc[r] \in {"drain", "saveoff"} => game = "ready" \/ Undone(r)
    /\ pc[r] \in Holding /\ ~skipped[r] => offBy = r \/ Undone(r)

Confirmed(r) ==
    /\ pc[r] \in {"saveoff", "flush", "wait"} /\ "fresh" \in console =>
          flushed \/ Undone(r)
    /\ pc[r] = "hot" /\ ~skipped[r] => flushed \/ sawStale[r] \/ Undone(r)

IInv ==
    /\ TypeOK
    /\ OneActive
    /\ flushed => offBy # NoRun
    /\ \A r \in Runs : /\ Fresh(r) /\ OneOwner(r) /\ Released(r)
                       /\ Accounted(r) /\ Sheltered(r) /\ Confirmed(r)

----------------------------------------------------------------------------
(* The steps.                                                              *)

\* Every action keeps the types; that nobody sends save-on a second time
\* needs OneOwner.
LEMMA TypeStep == IInv /\ [Next]_vars => TypeOK'
<1> SUFFICES ASSUME IInv, [Next]_vars PROVE TypeOK'
  OBVIOUS
<1> USE DEF IInv, TypeOK, OneOwner, Released, PCs, Reports, vars, gameVars,
        consoleVars, ghosts, Goto, Note
<1>1. ASSUME NEW r \in Runs, Start(r) PROVE TypeOK'
  BY <1>1 DEF Start
<1>2. ASSUME NEW r \in Runs, Cold(r) PROVE TypeOK'
  BY <1>2 DEF Cold
<1>3. ASSUME NEW r \in Runs, CheckState(r) PROVE TypeOK'
  <2>1. report' \in [Runs -> Reports]
    BY <1>3 DEF QuiesceFails, CheckState
  <2>2. skipped' \in [Runs -> BOOLEAN] /\ pc' \in [Runs -> PCs]
    BY <1>3 DEF QuiesceFails, CheckState
  <2> QED
    BY <1>3, <2>1, <2>2 DEF CheckState
<1>4. ASSUME NEW r \in Runs, Drain(r) PROVE TypeOK'
  <2>1. report' \in [Runs -> Reports] /\ pc' \in [Runs -> PCs]
    BY <1>4 DEF QuiesceFails, Drain
  <2>2. console' \subseteq {"stale", "fresh"}
    BY <1>4 DEF Drain
  <2> QED
    BY <1>4, <2>1, <2>2 DEF Drain
<1>5. ASSUME NEW r \in Runs, SaveOff(r) PROVE TypeOK'
  <2>1. PICK answer \in Answers(cancelled[r]) : SaveOff(r)!2!(answer)
    BY <1>5 DEF SaveOff
  <2>2. offBy' \in Runs \cup {NoRun} /\ flushed' \in BOOLEAN
    BY <2>1 DEF TurnSavingOff
  <2>3. report' \in [Runs -> Reports] /\ pc' \in [Runs -> PCs]
    BY <2>1 DEF QuiesceFails
  <2>4. /\ held' \in [Runs -> BOOLEAN]
        /\ wd' \in [Runs -> {"none", "armed", "sending", "off"}]
    BY <2>1 DEF QuiesceFails
  <2> QED
    BY <1>5, <2>2, <2>3, <2>4 DEF SaveOff
<1>6. ASSUME NEW r \in Runs, SaveFlush(r) PROVE TypeOK'
  BY <1>6 DEF Answers, QuiesceFails, SaveFlush
<1>7. ASSUME NEW r \in Runs, WaitForFlush(r) PROVE TypeOK'
  <2>1. report' \in [Runs -> Reports] /\ pc' \in [Runs -> PCs]
    BY <1>7 DEF QuiesceFails, WaitForFlush
  <2>2. console' \subseteq {"stale", "fresh"}
    BY <1>7 DEF WaitForFlush
  <2>3. sawStale' \in [Runs -> BOOLEAN]
    BY <1>7 DEF WaitForFlush
  <2> QED
    BY <1>7, <2>1, <2>2, <2>3 DEF WaitForFlush
<1>8. ASSUME NEW r \in Runs, Hot(r) PROVE TypeOK'
  BY <1>8 DEF Hot
<1>9. ASSUME NEW r \in Runs, Panic(r) PROVE TypeOK'
  BY <1>9 DEF Panic
<1>10. ASSUME NEW r \in Runs, Release(r) PROVE TypeOK'
  BY <1>10 DEF Release
<1>11. ASSUME NEW r \in Runs, StopWatchdog(r) PROVE TypeOK'
  BY <1>11 DEF StopWatchdog
<1>12. ASSUME NEW r \in Runs, SaveOn(r) PROVE TypeOK'
  <2>1. offBy' \in Runs \cup {NoRun} /\ flushed' \in BOOLEAN
    BY <1>12 DEF TurnSavingOn, SaveOn
  <2>2. report' \in [Runs -> Reports]
    BY <1>12 DEF SaveOn
  <2>3. saveOns[r] = 0
    BY <1>12 DEF SaveOn
  <2> QED
    BY <1>12, <2>1, <2>2, <2>3 DEF SaveOn
<1>13. ASSUME NEW r \in Runs, Finish(r) PROVE TypeOK'
  BY <1>13 DEF Finish
<1>14. ASSUME NEW r \in Runs, Cancel(r) PROVE TypeOK'
  BY <1>14 DEF Cancel
<1>15. ASSUME NEW r \in Runs, WatchdogFires(r) PROVE TypeOK'
  BY <1>15 DEF WatchdogFires
<1>16. ASSUME NEW r \in Runs, WatchdogSends(r) PROVE TypeOK'
  <2>1. offBy' \in Runs \cup {NoRun} /\ flushed' \in BOOLEAN
    BY <1>16 DEF TurnSavingOn, WatchdogSends
  <2>2. alarm' \in [Runs -> BOOLEAN]
    BY <1>16 DEF WatchdogSends
  <2>3. saveOns[r] = 0
    BY <1>16 DEF WatchdogSends
  <2> QED
    BY <1>16, <2>1, <2>2, <2>3 DEF WatchdogSends
<1>17. CASE Crash
  BY <1>17 DEF Crash
<1>18. CASE Restart
  BY <1>18 DEF Restart
<1>19. CASE Autosave
  BY <1>19 DEF Autosave
<1>20. CASE FlushCompletes
  BY <1>20 DEF FlushCompletes
<1>21. CASE GameLeavesReady
  BY <1>21 DEF GameLeavesReady
<1>22. CASE GameMoves
  BY <1>22 DEF GameMoves
<1>23. CASE UNCHANGED vars
  BY <1>23
<1> QED
  BY <1>1, <1>2, <1>3, <1>4, <1>5, <1>6, <1>7, <1>8, <1>9, <1>10, <1>11,
     <1>12, <1>13, <1>14, <1>15, <1>16, <1>17, <1>18, <1>19, <1>20, <1>21,
     <1>22, <1>23
  DEF Next, RunStep

\* The slot is handed out only when it is free.
LEMMA SlotStep ==
    IInv /\ [Next]_vars => OneActive'
<1> SUFFICES ASSUME IInv, [Next]_vars PROVE OneActive'
  OBVIOUS
<1> USE DEF IInv, TypeOK, vars, gameVars, consoleVars, ghosts, Goto,
           OneActive, Over, Active, Fresh
<1>1. ASSUME NEW r \in Runs, Start(r) PROVE OneActive'
  BY <1>1 DEF Start
<1>2. ASSUME NEW r \in Runs, Cold(r) PROVE OneActive'
  BY <1>2 DEF Cold
<1>3. ASSUME NEW r \in Runs, CheckState(r) PROVE OneActive'
  BY <1>3 DEF QuiesceFails, CheckState
<1>4. ASSUME NEW r \in Runs, Drain(r) PROVE OneActive'
  BY <1>4 DEF QuiesceFails, Drain
<1>5. ASSUME NEW r \in Runs, SaveOff(r) PROVE OneActive'
  BY <1>5 DEF TurnSavingOff, QuiesceFails, SaveOff
<1>6. ASSUME NEW r \in Runs, SaveFlush(r) PROVE OneActive'
  BY <1>6 DEF QuiesceFails, SaveFlush
<1>7. ASSUME NEW r \in Runs, WaitForFlush(r) PROVE OneActive'
  BY <1>7 DEF QuiesceFails, WaitForFlush
<1>8. ASSUME NEW r \in Runs, Hot(r) PROVE OneActive'
  BY <1>8 DEF Hot
<1>9. ASSUME NEW r \in Runs, Panic(r) PROVE OneActive'
  BY <1>9 DEF Panic
<1>10. ASSUME NEW r \in Runs, Release(r) PROVE OneActive'
  BY <1>10 DEF Release
<1>11. ASSUME NEW r \in Runs, StopWatchdog(r) PROVE OneActive'
  BY <1>11 DEF StopWatchdog
<1>12. ASSUME NEW r \in Runs, SaveOn(r) PROVE OneActive'
  BY <1>12 DEF TurnSavingOn, SaveOn
<1>13. ASSUME NEW r \in Runs, Finish(r) PROVE OneActive'
  BY <1>13 DEF Finish
<1>14. ASSUME NEW r \in Runs, Cancel(r) PROVE OneActive'
  BY <1>14 DEF Cancel
<1>15. ASSUME NEW r \in Runs, WatchdogFires(r) PROVE OneActive'
  BY <1>15 DEF WatchdogFires
<1>16. ASSUME NEW r \in Runs, WatchdogSends(r) PROVE OneActive'
  BY <1>16 DEF TurnSavingOn, WatchdogSends
<1>17. CASE Crash
  BY <1>17 DEF Crash
<1>18. CASE Restart
  BY <1>18 DEF Restart
<1>19. CASE Autosave
  BY <1>19 DEF Autosave
<1>20. CASE FlushCompletes
  BY <1>20 DEF FlushCompletes
<1>21. CASE GameLeavesReady
  BY <1>21 DEF GameLeavesReady
<1>22. CASE GameMoves
  BY <1>22 DEF GameMoves
<1>23. CASE UNCHANGED vars
  BY <1>23
<1> QED
  BY <1>1, <1>2, <1>3, <1>4, <1>5, <1>6, <1>7, <1>8, <1>9, <1>10, <1>11,
     <1>12, <1>13, <1>14, <1>15, <1>16, <1>17, <1>18, <1>19, <1>20,
     <1>21, <1>22, <1>23 DEF Next, RunStep

\* Up to the hot phase a run has no error and no save-on to send.
LEMMA FreshStep ==
    IInv /\ [Next]_vars => \A q \in Runs : Fresh(q)'
<1> SUFFICES ASSUME IInv, [Next]_vars, NEW q \in Runs PROVE Fresh(q)'
  OBVIOUS
<1> USE DEF IInv, TypeOK, vars, gameVars, consoleVars, ghosts, Goto, Fresh,
           OneOwner, Before, Holding, Note, OneActive, Active
<1>1. ASSUME NEW r \in Runs, Start(r) PROVE Fresh(q)'
  BY <1>1 DEF Start
<1>2. ASSUME NEW r \in Runs, Cold(r) PROVE Fresh(q)'
  BY <1>2 DEF Cold
<1>3. ASSUME NEW r \in Runs, CheckState(r) PROVE Fresh(q)'
  BY <1>3 DEF QuiesceFails, CheckState
<1>4. ASSUME NEW r \in Runs, Drain(r) PROVE Fresh(q)'
  BY <1>4 DEF QuiesceFails, Drain
<1>5. ASSUME NEW r \in Runs, SaveOff(r) PROVE Fresh(q)'
  BY <1>5 DEF TurnSavingOff, QuiesceFails, SaveOff
<1>6. ASSUME NEW r \in Runs, SaveFlush(r) PROVE Fresh(q)'
  BY <1>6 DEF QuiesceFails, SaveFlush
<1>7. ASSUME NEW r \in Runs, WaitForFlush(r) PROVE Fresh(q)'
  BY <1>7 DEF QuiesceFails, WaitForFlush
<1>8. ASSUME NEW r \in Runs, Hot(r) PROVE Fresh(q)'
  BY <1>8 DEF Hot
<1>9. ASSUME NEW r \in Runs, Panic(r) PROVE Fresh(q)'
  BY <1>9 DEF Panic
<1>10. ASSUME NEW r \in Runs, Release(r) PROVE Fresh(q)'
  BY <1>10 DEF Release
<1>11. ASSUME NEW r \in Runs, StopWatchdog(r) PROVE Fresh(q)'
  BY <1>11 DEF StopWatchdog
<1>12. ASSUME NEW r \in Runs, SaveOn(r) PROVE Fresh(q)'
  BY <1>12 DEF TurnSavingOn, SaveOn
<1>13. ASSUME NEW r \in Runs, Finish(r) PROVE Fresh(q)'
  BY <1>13 DEF Finish
<1>14. ASSUME NEW r \in Runs, Cancel(r) PROVE Fresh(q)'
  BY <1>14 DEF Cancel
<1>15. ASSUME NEW r \in Runs, WatchdogFires(r) PROVE Fresh(q)'
  BY <1>15 DEF WatchdogFires
<1>16. ASSUME NEW r \in Runs, WatchdogSends(r) PROVE Fresh(q)'
  BY <1>16 DEF TurnSavingOn, WatchdogSends
<1>17. CASE Crash
  BY <1>17 DEF Crash
<1>18. CASE Restart
  BY <1>18 DEF Restart
<1>19. CASE Autosave
  BY <1>19 DEF Autosave
<1>20. CASE FlushCompletes
  BY <1>20 DEF FlushCompletes
<1>21. CASE GameLeavesReady
  BY <1>21 DEF GameLeavesReady
<1>22. CASE GameMoves
  BY <1>22 DEF GameMoves
<1>23. CASE UNCHANGED vars
  BY <1>23
<1> QED
  BY <1>1, <1>2, <1>3, <1>4, <1>5, <1>6, <1>7, <1>8, <1>9, <1>10, <1>11,
     <1>12, <1>13, <1>14, <1>15, <1>16, <1>17, <1>18, <1>19, <1>20,
     <1>21, <1>22, <1>23 DEF Next, RunStep

\* The hold passes from the Console to Release or to the watchdog, never to
\* both.
LEMMA OwnerStep ==
    IInv /\ [Next]_vars => \A q \in Runs : OneOwner(q)'
<1> SUFFICES ASSUME IInv, [Next]_vars, NEW q \in Runs PROVE OneOwner(q)'
  OBVIOUS
<1> USE DEF IInv, TypeOK, vars, gameVars, consoleVars, ghosts, Goto, Fresh,
           OneOwner, Released, Before
<1>1. ASSUME NEW r \in Runs, Start(r) PROVE OneOwner(q)'
  BY <1>1 DEF Start
<1>2. ASSUME NEW r \in Runs, Cold(r) PROVE OneOwner(q)'
  BY <1>2 DEF Cold
<1>3. ASSUME NEW r \in Runs, CheckState(r) PROVE OneOwner(q)'
  BY <1>3 DEF QuiesceFails, CheckState
<1>4. ASSUME NEW r \in Runs, Drain(r) PROVE OneOwner(q)'
  BY <1>4 DEF QuiesceFails, Drain
<1>5. ASSUME NEW r \in Runs, SaveOff(r) PROVE OneOwner(q)'
  BY <1>5 DEF TurnSavingOff, QuiesceFails, SaveOff
<1>6. ASSUME NEW r \in Runs, SaveFlush(r) PROVE OneOwner(q)'
  BY <1>6 DEF QuiesceFails, SaveFlush
<1>7. ASSUME NEW r \in Runs, WaitForFlush(r) PROVE OneOwner(q)'
  BY <1>7 DEF QuiesceFails, WaitForFlush
<1>8. ASSUME NEW r \in Runs, Hot(r) PROVE OneOwner(q)'
  BY <1>8 DEF Hot
<1>9. ASSUME NEW r \in Runs, Panic(r) PROVE OneOwner(q)'
  BY <1>9 DEF Panic
<1>10. ASSUME NEW r \in Runs, Release(r) PROVE OneOwner(q)'
  BY <1>10 DEF Release
<1>11. ASSUME NEW r \in Runs, StopWatchdog(r) PROVE OneOwner(q)'
  BY <1>11 DEF StopWatchdog
<1>12. ASSUME NEW r \in Runs, SaveOn(r) PROVE OneOwner(q)'
  BY <1>12 DEF TurnSavingOn, SaveOn
<1>13. ASSUME NEW r \in Runs, Finish(r) PROVE OneOwner(q)'
  BY <1>13 DEF Finish
<1>14. ASSUME NEW r \in Runs, Cancel(r) PROVE OneOwner(q)'
  BY <1>14 DEF Cancel
<1>15. ASSUME NEW r \in Runs, WatchdogFires(r) PROVE OneOwner(q)'
  BY <1>15 DEF WatchdogFires
<1>16. ASSUME NEW r \in Runs, WatchdogSends(r) PROVE OneOwner(q)'
  BY <1>16 DEF TurnSavingOn, WatchdogSends
<1>17. CASE Crash
  BY <1>17 DEF Crash
<1>18. CASE Restart
  BY <1>18 DEF Restart
<1>19. CASE Autosave
  BY <1>19 DEF Autosave
<1>20. CASE FlushCompletes
  BY <1>20 DEF FlushCompletes
<1>21. CASE GameLeavesReady
  BY <1>21 DEF GameLeavesReady
<1>22. CASE GameMoves
  BY <1>22 DEF GameMoves
<1>23. CASE UNCHANGED vars
  BY <1>23
<1> QED
  BY <1>1, <1>2, <1>3, <1>4, <1>5, <1>6, <1>7, <1>8, <1>9, <1>10, <1>11,
     <1>12, <1>13, <1>14, <1>15, <1>16, <1>17, <1>18, <1>19, <1>20,
     <1>21, <1>22, <1>23 DEF Next, RunStep

\* Release clears the hold first and ends the watchdog before it goes on.
LEMMA ReleasedStep ==
    IInv /\ [Next]_vars => \A q \in Runs : Released(q)'
<1> SUFFICES ASSUME IInv, [Next]_vars, NEW q \in Runs PROVE Released(q)'
  OBVIOUS
<1> USE DEF IInv, TypeOK, vars, gameVars, consoleVars, ghosts, Goto, Fresh,
           OneOwner, Released, Before, Holding, Note, Over, Active
<1>1. ASSUME NEW r \in Runs, Start(r) PROVE Released(q)'
  BY <1>1 DEF Start
<1>2. ASSUME NEW r \in Runs, Cold(r) PROVE Released(q)'
  BY <1>2 DEF Cold
<1>3. ASSUME NEW r \in Runs, CheckState(r) PROVE Released(q)'
  BY <1>3 DEF QuiesceFails, CheckState
<1>4. ASSUME NEW r \in Runs, Drain(r) PROVE Released(q)'
  BY <1>4 DEF QuiesceFails, Drain
<1>5. ASSUME NEW r \in Runs, SaveOff(r) PROVE Released(q)'
  BY <1>5 DEF TurnSavingOff, QuiesceFails, SaveOff
<1>6. ASSUME NEW r \in Runs, SaveFlush(r) PROVE Released(q)'
  BY <1>6 DEF QuiesceFails, SaveFlush
<1>7. ASSUME NEW r \in Runs, WaitForFlush(r) PROVE Released(q)'
  BY <1>7 DEF QuiesceFails, WaitForFlush
<1>8. ASSUME NEW r \in Runs, Hot(r) PROVE Released(q)'
  BY <1>8 DEF Hot
<1>9. ASSUME NEW r \in Runs, Panic(r) PROVE Released(q)'
  BY <1>9 DEF Panic
<1>10. ASSUME NEW r \in Runs, Release(r) PROVE Released(q)'
  BY <1>10 DEF Release
<1>11. ASSUME NEW r \in Runs, StopWatchdog(r) PROVE Released(q)'
  BY <1>11 DEF StopWatchdog
<1>12. ASSUME NEW r \in Runs, SaveOn(r) PROVE Released(q)'
  BY <1>12 DEF TurnSavingOn, SaveOn
<1>13. ASSUME NEW r \in Runs, Finish(r) PROVE Released(q)'
  BY <1>13 DEF Finish
<1>14. ASSUME NEW r \in Runs, Cancel(r) PROVE Released(q)'
  BY <1>14 DEF Cancel
<1>15. ASSUME NEW r \in Runs, WatchdogFires(r) PROVE Released(q)'
  BY <1>15 DEF WatchdogFires
<1>16. ASSUME NEW r \in Runs, WatchdogSends(r) PROVE Released(q)'
  BY <1>16 DEF TurnSavingOn, WatchdogSends
<1>17. CASE Crash
  BY <1>17 DEF Crash
<1>18. CASE Restart
  BY <1>18 DEF Restart
<1>19. CASE Autosave
  BY <1>19 DEF Autosave
<1>20. CASE FlushCompletes
  BY <1>20 DEF FlushCompletes
<1>21. CASE GameLeavesReady
  BY <1>21 DEF GameLeavesReady
<1>22. CASE GameMoves
  BY <1>22 DEF GameMoves
<1>23. CASE UNCHANGED vars
  BY <1>23
<1> QED
  BY <1>1, <1>2, <1>3, <1>4, <1>5, <1>6, <1>7, <1>8, <1>9, <1>10, <1>11,
     <1>12, <1>13, <1>14, <1>15, <1>16, <1>17, <1>18, <1>19, <1>20,
     <1>21, <1>22, <1>23 DEF Next, RunStep

\* Whoever drops the duty to send save-on has sent it or reported an error.
LEMMA AccountedStep ==
    IInv /\ [Next]_vars => \A q \in Runs : Accounted(q)'
<1> SUFFICES ASSUME IInv, [Next]_vars, NEW q \in Runs PROVE Accounted(q)'
  OBVIOUS
<1> USE RunsAssumption DEF IInv, TypeOK, vars, gameVars, consoleVars,
           ghosts, Goto, Fresh, OneOwner, Released, Accounted, Before, Note,
           Over, Active
<1>1. ASSUME NEW r \in Runs, Start(r) PROVE Accounted(q)'
  BY <1>1 DEF Start
<1>2. ASSUME NEW r \in Runs, Cold(r) PROVE Accounted(q)'
  BY <1>2 DEF Cold
<1>3. ASSUME NEW r \in Runs, CheckState(r) PROVE Accounted(q)'
  BY <1>3 DEF QuiesceFails, CheckState
<1>4. ASSUME NEW r \in Runs, Drain(r) PROVE Accounted(q)'
  BY <1>4 DEF QuiesceFails, Drain
<1>5. ASSUME NEW r \in Runs, SaveOff(r) PROVE Accounted(q)'
  BY <1>5 DEF TurnSavingOff, QuiesceFails, SaveOff
<1>6. ASSUME NEW r \in Runs, SaveFlush(r) PROVE Accounted(q)'
  BY <1>6 DEF QuiesceFails, SaveFlush
<1>7. ASSUME NEW r \in Runs, WaitForFlush(r) PROVE Accounted(q)'
  BY <1>7 DEF QuiesceFails, WaitForFlush
<1>8. ASSUME NEW r \in Runs, Hot(r) PROVE Accounted(q)'
  BY <1>8 DEF Hot
<1>9. ASSUME NEW r \in Runs, Panic(r) PROVE Accounted(q)'
  BY <1>9 DEF Panic
<1>10. ASSUME NEW r \in Runs, Release(r) PROVE Accounted(q)'
  BY <1>10 DEF Release
<1>11. ASSUME NEW r \in Runs, StopWatchdog(r) PROVE Accounted(q)'
  BY <1>11 DEF StopWatchdog
<1>12. ASSUME NEW r \in Runs, SaveOn(r) PROVE Accounted(q)'
  BY <1>12 DEF TurnSavingOn, SaveOn
<1>13. ASSUME NEW r \in Runs, Finish(r) PROVE Accounted(q)'
  BY <1>13 DEF Finish
<1>14. ASSUME NEW r \in Runs, Cancel(r) PROVE Accounted(q)'
  BY <1>14 DEF Cancel
<1>15. ASSUME NEW r \in Runs, WatchdogFires(r) PROVE Accounted(q)'
  BY <1>15 DEF WatchdogFires
<1>16. ASSUME NEW r \in Runs, WatchdogSends(r) PROVE Accounted(q)'
  BY <1>16 DEF TurnSavingOn, WatchdogSends
<1>17. CASE Crash
  BY <1>17 DEF Crash
<1>18. CASE Restart
  BY <1>18 DEF Restart
<1>19. CASE Autosave
  BY <1>19 DEF Autosave
<1>20. CASE FlushCompletes
  BY <1>20 DEF FlushCompletes
<1>21. CASE GameLeavesReady
  BY <1>21 DEF GameLeavesReady
<1>22. CASE GameMoves
  BY <1>22 DEF GameMoves
<1>23. CASE UNCHANGED vars
  BY <1>23
<1> QED
  BY <1>1, <1>2, <1>3, <1>4, <1>5, <1>6, <1>7, <1>8, <1>9, <1>10, <1>11,
     <1>12, <1>13, <1>14, <1>15, <1>16, <1>17, <1>18, <1>19, <1>20,
     <1>21, <1>22, <1>23 DEF Next, RunStep

\* Only save-on and the game itself end a save-off, and while a run holds,
\* only its own watchdog or that of a panicked run sends save-on.
LEMMA ShelteredStep ==
    IInv /\ [Next]_vars => \A q \in Runs : Sheltered(q)'
<1> SUFFICES ASSUME IInv, [Next]_vars, NEW q \in Runs PROVE Sheltered(q)'
  OBVIOUS
<1> USE RunsAssumption DEF IInv, TypeOK, vars, gameVars, consoleVars,
           ghosts, Goto, Fresh, OneOwner, Released, Sheltered, Undone,
           Before, Holding, Note, Over, Active, OneActive
<1>1. ASSUME NEW r \in Runs, Start(r) PROVE Sheltered(q)'
  BY <1>1 DEF Start
<1>2. ASSUME NEW r \in Runs, Cold(r) PROVE Sheltered(q)'
  BY <1>2 DEF Cold
<1>3. ASSUME NEW r \in Runs, CheckState(r) PROVE Sheltered(q)'
  BY <1>3 DEF QuiesceFails, CheckState
<1>4. ASSUME NEW r \in Runs, Drain(r) PROVE Sheltered(q)'
  BY <1>4 DEF QuiesceFails, Drain
<1>5. ASSUME NEW r \in Runs, SaveOff(r) PROVE Sheltered(q)'
  BY <1>5 DEF TurnSavingOff, QuiesceFails, SaveOff
<1>6. ASSUME NEW r \in Runs, SaveFlush(r) PROVE Sheltered(q)'
  BY <1>6 DEF QuiesceFails, SaveFlush
<1>7. ASSUME NEW r \in Runs, WaitForFlush(r) PROVE Sheltered(q)'
  BY <1>7 DEF QuiesceFails, WaitForFlush
<1>8. ASSUME NEW r \in Runs, Hot(r) PROVE Sheltered(q)'
  BY <1>8 DEF Hot
<1>9. ASSUME NEW r \in Runs, Panic(r) PROVE Sheltered(q)'
  BY <1>9 DEF Panic
<1>10. ASSUME NEW r \in Runs, Release(r) PROVE Sheltered(q)'
  BY <1>10 DEF Release
<1>11. ASSUME NEW r \in Runs, StopWatchdog(r) PROVE Sheltered(q)'
  BY <1>11 DEF StopWatchdog
<1>12. ASSUME NEW r \in Runs, SaveOn(r) PROVE Sheltered(q)'
  BY <1>12 DEF TurnSavingOn, SaveOn
<1>13. ASSUME NEW r \in Runs, Finish(r) PROVE Sheltered(q)'
  BY <1>13 DEF Finish
<1>14. ASSUME NEW r \in Runs, Cancel(r) PROVE Sheltered(q)'
  BY <1>14 DEF Cancel
<1>15. ASSUME NEW r \in Runs, WatchdogFires(r) PROVE Sheltered(q)'
  BY <1>15 DEF WatchdogFires
<1>16. ASSUME NEW r \in Runs, WatchdogSends(r) PROVE Sheltered(q)'
  BY <1>16 DEF TurnSavingOn, WatchdogSends
<1>17. CASE Crash
  BY <1>17 DEF Crash
<1>18. CASE Restart
  BY <1>18 DEF Restart
<1>19. CASE Autosave
  BY <1>19 DEF Autosave
<1>20. CASE FlushCompletes
  BY <1>20 DEF FlushCompletes
<1>21. CASE GameLeavesReady
  BY <1>21 DEF GameLeavesReady
<1>22. CASE GameMoves
  BY <1>22 DEF GameMoves
<1>23. CASE UNCHANGED vars
  BY <1>23
<1> QED
  BY <1>1, <1>2, <1>3, <1>4, <1>5, <1>6, <1>7, <1>8, <1>9, <1>10, <1>11,
     <1>12, <1>13, <1>14, <1>15, <1>16, <1>17, <1>18, <1>19, <1>20,
     <1>21, <1>22, <1>23 DEF Next, RunStep

\* A fresh line appears only when a flush completes with saving off.
LEMMA ConfirmedStep ==
    IInv /\ [Next]_vars => \A q \in Runs : Confirmed(q)'
<1> SUFFICES ASSUME IInv, [Next]_vars, NEW q \in Runs PROVE Confirmed(q)'
  OBVIOUS
<1> USE RunsAssumption DEF IInv, TypeOK, vars, gameVars, consoleVars,
           ghosts, Goto, Fresh, OneOwner, Released, Confirmed, Undone,
           Before, Holding, Note, Over, Active, OneActive
<1>1. ASSUME NEW r \in Runs, Start(r) PROVE Confirmed(q)'
  BY <1>1 DEF Start
<1>2. ASSUME NEW r \in Runs, Cold(r) PROVE Confirmed(q)'
  BY <1>2 DEF Cold
<1>3. ASSUME NEW r \in Runs, CheckState(r) PROVE Confirmed(q)'
  BY <1>3 DEF QuiesceFails, CheckState
<1>4. ASSUME NEW r \in Runs, Drain(r) PROVE Confirmed(q)'
  BY <1>4 DEF QuiesceFails, Drain
<1>5. ASSUME NEW r \in Runs, SaveOff(r) PROVE Confirmed(q)'
  BY <1>5 DEF TurnSavingOff, QuiesceFails, SaveOff
<1>6. ASSUME NEW r \in Runs, SaveFlush(r) PROVE Confirmed(q)'
  BY <1>6 DEF QuiesceFails, SaveFlush
<1>7. ASSUME NEW r \in Runs, WaitForFlush(r) PROVE Confirmed(q)'
  <2>1. CASE q # r
    BY <1>7, <2>1 DEF QuiesceFails, WaitForFlush
  <2>2. CASE q = r /\ "fresh" \in console
    BY <1>7, <2>2 DEF QuiesceFails, WaitForFlush
  <2>3. CASE q = r /\ "fresh" \notin console
    <3>1. CASE pc' = [pc EXCEPT ![r] = "hot"]
               /\ sawStale' = [sawStale EXCEPT ![r] = TRUE]
      <4>1. pc'[q] = "hot" /\ sawStale'[q]
        BY <2>3, <3>1
      <4> QED
        BY <4>1
    <3>2. CASE pc' = [pc EXCEPT ![r] = "release"]
      <4>1. pc'[q] = "release"
        BY <2>3, <3>2
      <4> QED
        BY <4>1
    <3>3. \/ /\ pc' = [pc EXCEPT ![r] = "hot"]
             /\ sawStale' = [sawStale EXCEPT ![r] = "fresh" \notin console]
          \/ pc' = [pc EXCEPT ![r] = "release"]
      BY <1>7 DEF QuiesceFails, WaitForFlush
    <3> QED
      BY <2>3, <3>1, <3>2, <3>3
  <2> QED
    BY <2>1, <2>2, <2>3
<1>8. ASSUME NEW r \in Runs, Hot(r) PROVE Confirmed(q)'
  BY <1>8 DEF Hot
<1>9. ASSUME NEW r \in Runs, Panic(r) PROVE Confirmed(q)'
  BY <1>9 DEF Panic
<1>10. ASSUME NEW r \in Runs, Release(r) PROVE Confirmed(q)'
  BY <1>10 DEF Release
<1>11. ASSUME NEW r \in Runs, StopWatchdog(r) PROVE Confirmed(q)'
  BY <1>11 DEF StopWatchdog
<1>12. ASSUME NEW r \in Runs, SaveOn(r) PROVE Confirmed(q)'
  BY <1>12 DEF TurnSavingOn, SaveOn
<1>13. ASSUME NEW r \in Runs, Finish(r) PROVE Confirmed(q)'
  BY <1>13 DEF Finish
<1>14. ASSUME NEW r \in Runs, Cancel(r) PROVE Confirmed(q)'
  BY <1>14 DEF Cancel
<1>15. ASSUME NEW r \in Runs, WatchdogFires(r) PROVE Confirmed(q)'
  BY <1>15 DEF WatchdogFires
<1>16. ASSUME NEW r \in Runs, WatchdogSends(r) PROVE Confirmed(q)'
  BY <1>16 DEF TurnSavingOn, WatchdogSends
<1>17. CASE Crash
  BY <1>17 DEF Crash
<1>18. CASE Restart
  BY <1>18 DEF Restart
<1>19. CASE Autosave
  BY <1>19 DEF Autosave
<1>20. CASE FlushCompletes
  <2>1. CASE offBy = NoRun
    BY <1>20, <2>1 DEF FlushCompletes
  <2>2. CASE offBy # NoRun
    BY <1>20, <2>2 DEF FlushCompletes
  <2> QED
    BY <2>1, <2>2
<1>21. CASE GameLeavesReady
  BY <1>21 DEF GameLeavesReady
<1>22. CASE GameMoves
  BY <1>22 DEF GameMoves
<1>23. CASE UNCHANGED vars
  BY <1>23
<1> QED
  BY <1>1, <1>2, <1>3, <1>4, <1>5, <1>6, <1>7, <1>8, <1>9, <1>10, <1>11,
     <1>12, <1>13, <1>14, <1>15, <1>16, <1>17, <1>18, <1>19, <1>20,
     <1>21, <1>22, <1>23 DEF Next, RunStep

\* Whatever turns saving back on makes the world writable again.
LEMMA FlushedStep ==
    IInv /\ [Next]_vars => (flushed => offBy # NoRun)'
<1> SUFFICES ASSUME IInv, [Next]_vars PROVE (flushed => offBy # NoRun)'
  OBVIOUS
<1> USE RunsAssumption DEF IInv, TypeOK, vars, gameVars, consoleVars,
           ghosts, Goto
<1>1. ASSUME NEW r \in Runs, Start(r) PROVE (flushed => offBy # NoRun)'
  BY <1>1 DEF Start
<1>2. ASSUME NEW r \in Runs, Cold(r) PROVE (flushed => offBy # NoRun)'
  BY <1>2 DEF Cold
<1>3. ASSUME NEW r \in Runs, CheckState(r) PROVE (flushed => offBy # NoRun)'
  BY <1>3 DEF QuiesceFails, CheckState
<1>4. ASSUME NEW r \in Runs, Drain(r) PROVE (flushed => offBy # NoRun)'
  BY <1>4 DEF QuiesceFails, Drain
<1>5. ASSUME NEW r \in Runs, SaveOff(r) PROVE (flushed => offBy # NoRun)'
  BY <1>5 DEF TurnSavingOff, QuiesceFails, SaveOff
<1>6. ASSUME NEW r \in Runs, SaveFlush(r) PROVE (flushed => offBy # NoRun)'
  BY <1>6 DEF QuiesceFails, SaveFlush
<1>7. ASSUME NEW r \in Runs, WaitForFlush(r) PROVE (flushed => offBy # NoRun)'
  BY <1>7 DEF QuiesceFails, WaitForFlush
<1>8. ASSUME NEW r \in Runs, Hot(r) PROVE (flushed => offBy # NoRun)'
  BY <1>8 DEF Hot
<1>9. ASSUME NEW r \in Runs, Panic(r) PROVE (flushed => offBy # NoRun)'
  BY <1>9 DEF Panic
<1>10. ASSUME NEW r \in Runs, Release(r) PROVE (flushed => offBy # NoRun)'
  BY <1>10 DEF Release
<1>11. ASSUME NEW r \in Runs, StopWatchdog(r)
       PROVE  (flushed => offBy # NoRun)'
  BY <1>11 DEF StopWatchdog
<1>12. ASSUME NEW r \in Runs, SaveOn(r) PROVE (flushed => offBy # NoRun)'
  BY <1>12 DEF TurnSavingOn, SaveOn
<1>13. ASSUME NEW r \in Runs, Finish(r) PROVE (flushed => offBy # NoRun)'
  BY <1>13 DEF Finish
<1>14. ASSUME NEW r \in Runs, Cancel(r) PROVE (flushed => offBy # NoRun)'
  BY <1>14 DEF Cancel
<1>15. ASSUME NEW r \in Runs, WatchdogFires(r)
       PROVE  (flushed => offBy # NoRun)'
  BY <1>15 DEF WatchdogFires
<1>16. ASSUME NEW r \in Runs, WatchdogSends(r)
       PROVE  (flushed => offBy # NoRun)'
  BY <1>16 DEF TurnSavingOn, WatchdogSends
<1>17. CASE Crash
  BY <1>17 DEF Crash
<1>18. CASE Restart
  BY <1>18 DEF Restart
<1>19. CASE Autosave
  BY <1>19 DEF Autosave
<1>20. CASE FlushCompletes
  BY <1>20 DEF FlushCompletes
<1>21. CASE GameLeavesReady
  BY <1>21 DEF GameLeavesReady
<1>22. CASE GameMoves
  BY <1>22 DEF GameMoves
<1>23. CASE UNCHANGED vars
  BY <1>23
<1> QED
  BY <1>1, <1>2, <1>3, <1>4, <1>5, <1>6, <1>7, <1>8, <1>9, <1>10, <1>11,
     <1>12, <1>13, <1>14, <1>15, <1>16, <1>17, <1>18, <1>19, <1>20,
     <1>21, <1>22, <1>23 DEF Next, RunStep

\* The inductive invariant.
LEMMA Invariant == Spec => []IInv
<1>1. Init => IInv
  <2> SUFFICES ASSUME Init PROVE IInv
    OBVIOUS
  <2>1. TypeOK
    <3>1. saveOns \in [Runs -> 0..1] /\ report \in [Runs -> Reports]
      BY DEF Init, Reports
    <3>2. pc \in [Runs -> PCs] /\ console \subseteq {"stale", "fresh"}
      BY DEF Init, PCs
    <3>3. /\ cancelled \in [Runs -> BOOLEAN] /\ held \in [Runs -> BOOLEAN]
          /\ skipped \in [Runs -> BOOLEAN] /\ owes \in [Runs -> BOOLEAN]
          /\ warned \in [Runs -> BOOLEAN] /\ alarm \in [Runs -> BOOLEAN]
          /\ bounced \in [Runs -> BOOLEAN] /\ sawStale \in [Runs -> BOOLEAN]
      BY DEF Init
    <3> QED
      BY <3>1, <3>2, <3>3 DEF Init, TypeOK
  <2>2. OneActive /\ ~flushed
    BY DEF Init, OneActive, Active
  <2>3. \A r \in Runs : Fresh(r) /\ OneOwner(r) /\ Released(r)
    BY DEF Init, Fresh, OneOwner, Released, Before, Holding
  <2>4. \A r \in Runs : Accounted(r) /\ Sheltered(r) /\ Confirmed(r)
    BY RunsAssumption DEF Init, Accounted, Sheltered, Confirmed, Holding
  <2> QED
    BY <2>1, <2>2, <2>3, <2>4 DEF IInv
<1>2. IInv /\ [Next]_vars => IInv'
  <2> SUFFICES ASSUME IInv, [Next]_vars PROVE IInv'
    OBVIOUS
  <2>1. /\ TypeOK'
        /\ OneActive'
        /\ (flushed => offBy # NoRun)'
    BY TypeStep, SlotStep, FlushedStep
  <2>2. \A q \in Runs : Fresh(q)' /\ OneOwner(q)' /\ Released(q)'
    BY FreshStep, OwnerStep, ReleasedStep
  <2>3. \A q \in Runs : Accounted(q)' /\ Sheltered(q)' /\ Confirmed(q)'
    BY AccountedStep, ShelteredStep, ConfirmedStep
  <2> QED
    BY <2>1, <2>2, <2>3 DEF IInv
<1> QED
  BY <1>1, <1>2, PTL DEF Spec

----------------------------------------------------------------------------
(* The theorems.                                                           *)

\* Type correctness; in particular no quiescer sends save-on twice.
THEOREM Typed == Spec => []TypeOK
<1>1. IInv => TypeOK
  BY DEF IInv
<1> QED
  BY <1>1, Invariant, PTL

\* While hot files are read, save-off is in force or the log says why not.
THEOREM Shelter == Spec => []HotSheltered
<1>1. IInv => HotSheltered
  BY DEF IInv, Sheltered, Holding, HotSheltered
<1> QED
  BY <1>1, Invariant, PTL

\* The hot phase starts only with the world flushed, up to the stale line.
THEOREM Flush == Spec => []HotFlushed
<1>1. IInv => HotFlushed
  BY DEF IInv, Confirmed, HotFlushed
<1> QED
  BY <1>1, Invariant, PTL

\* No run leaves saving off and keeps quiet about it.
THEOREM Loud == Spec => []NeverSilent
<1>1. IInv => NeverSilent
  BY DEF IInv, TypeOK, Accounted, OneOwner, Released, NeverSilent
<1> QED
  BY <1>1, Invariant, PTL

\* A watchdog outlives its run only if the run panicked.
THEOREM TimerEnds == Spec => []NoStrayTimer
<1>1. IInv => NoStrayTimer
  BY DEF IInv, Released, NoStrayTimer
<1> QED
  BY <1>1, Invariant, PTL

----------------------------------------------------------------------------
(* The refinement.                                                         *)

holds == [r \in Runs |-> HoldOf(r)]

\* The abstract state reads held, owes, wd and saveOns only.
LEMMA Unseen ==
    UNCHANGED <<held, owes, wd, saveOns>> => UNCHANGED <<holds, saveOns>>
  BY DEF holds, HoldOf

\* What is known about one run, unfolded once.
LEMMA KnownOf ==
    ASSUME IInv, NEW r \in Runs
    PROVE  /\ held[r] => wd[r] = "armed" /\ ~owes[r]
           /\ owes[r] => wd[r] \in {"armed", "off"}
           /\ owes[r] => pc[r] \in {"stopwd", "saveon"}
           /\ wd[r] = "sending" => ~owes[r]
           /\ pc[r] \in {"stopwd", "saveon"} => ~held[r]
           /\ pc[r] = "saveon" => owes[r] /\ wd[r] = "off"
           /\ pc[r] = "saveoff" => wd[r] = "none" /\ ~held[r] /\ ~owes[r]
           /\ wd[r] \in {"none", "armed", "sending", "off"}
  BY DEF IInv, TypeOK, Fresh, OneOwner, Released, Before

LEMMA TypedParts ==
    IInv => /\ held \in [Runs -> BOOLEAN]
            /\ owes \in [Runs -> BOOLEAN]
            /\ wd \in [Runs -> {"none", "armed", "sending", "off"}]
            /\ saveOns \in [Runs -> 0..1]
  BY DEF IInv, TypeOK

LEMMA SimulationStep ==
    IInv /\ [Next]_vars => [Hold!Next]_<<holds, saveOns>>
<1> SUFFICES ASSUME IInv, [Next]_vars PROVE [Hold!Next]_<<holds, saveOns>>
  OBVIOUS
<1> USE TypedParts
<1>1. ASSUME NEW r \in Runs, SaveOff(r)
      PROVE  Hold!Acquire(r) \/ UNCHANGED <<holds, saveOns>>
  BY <1>1, KnownOf DEF SaveOff, ghosts, holds, HoldOf, Hold!Acquire
<1>2. ASSUME NEW r \in Runs, Release(r)
      PROVE  Hold!Claim(r) \/ UNCHANGED <<holds, saveOns>>
  BY <1>2, KnownOf DEF Release, ghosts, holds, HoldOf, Hold!Claim
<1>3. ASSUME NEW r \in Runs, StopWatchdog(r)
      PROVE  UNCHANGED <<holds, saveOns>>
  BY <1>3, KnownOf DEF StopWatchdog, ghosts, holds, HoldOf
<1>4. ASSUME NEW r \in Runs, SaveOn(r) PROVE Hold!Settle(r)
  BY <1>4, KnownOf DEF SaveOn, holds, HoldOf, Hold!Settle
<1>5. ASSUME NEW r \in Runs, WatchdogFires(r)
      PROVE  Hold!Claim(r) \/ UNCHANGED <<holds, saveOns>>
  BY <1>5, KnownOf DEF WatchdogFires, holds, HoldOf, Hold!Claim
<1>6. ASSUME NEW r \in Runs, WatchdogSends(r) PROVE Hold!Settle(r)
  BY <1>6, KnownOf DEF WatchdogSends, holds, HoldOf, Hold!Settle
<1>7. CASE Crash
  <2>1. Hold!Die
    BY <1>7, KnownOf DEF Crash, ghosts, holds, HoldOf, Hold!Die
  <2> QED
    BY <2>1 DEF Hold!Next
<1>8. ASSUME NEW r \in Runs,
             \/ Start(r) \/ Cold(r) \/ CheckState(r) \/ Drain(r)
             \/ SaveFlush(r) \/ WaitForFlush(r) \/ Hot(r) \/ Panic(r)
             \/ Finish(r) \/ Cancel(r)
      PROVE  UNCHANGED <<held, owes, wd, saveOns>>
  BY <1>8 DEF Start, Cold, CheckState, Drain, SaveFlush, WaitForFlush, Hot,
              Panic, Finish, Cancel, consoleVars, ghosts
<1>9. \/ Restart \/ Autosave \/ FlushCompletes \/ GameLeavesReady
      \/ GameMoves \/ UNCHANGED vars
      => UNCHANGED <<held, owes, wd, saveOns>>
  BY DEF Restart, Autosave, FlushCompletes, GameLeavesReady, GameMoves,
         consoleVars, ghosts, vars
<1> QED
  BY <1>1, <1>2, <1>3, <1>4, <1>5, <1>6, <1>7, <1>8, <1>9, Unseen
  DEF Next, RunStep, Hold!Next

\* Each hold is claimed once and settled by one save-on: the Console and its
\* watchdog implement SaveHold.
THEOREM Implements == Spec => ClaimedOnce
<1>1. Init => Hold!Init
  BY DEF Init, Hold!Init, HoldOf
<1>2. IInv /\ [Next]_vars
        => [Hold!Next]_<<[r \in Runs |-> HoldOf(r)], saveOns>>
  BY SimulationStep DEF holds
<1> QED
  BY <1>1, <1>2, Invariant, PTL DEF Spec, ClaimedOnce, Hold!Spec
=============================================================================
