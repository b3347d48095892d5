------------------------------ MODULE Quiesce ------------------------------
(***************************************************************************)
(* The quiesced part of a backup: backup.Run from its cold phase to its    *)
(* commit, the console quiescer it drives (save-off, save-all flush, wait  *)
(* for the confirmation line, save-on), the watchdog goroutine of every    *)
(* quiescer, the operator's cancel, panics, a crash of the process, and    *)
(* the game server on the other side of the AMP API.                       *)
(*                                                                         *)
(* A run is one backup job.  ops.Backup builds a fresh Console per run, so *)
(* the quiescer's fields are functions of the run; runs are taken one at a *)
(* time (jobs.Runner.Submit), but the watchdog of an earlier run may       *)
(* outlive it.  Every AMP call either succeeds, is lost on the way, or is  *)
(* carried out although its reply is lost.                                 *)
(***************************************************************************)
EXTENDS Naturals

CONSTANTS
    Runs,       \* backup jobs by their number, each submitted at most once
    NoRun,      \* not a run
    Faults      \* what the environment may do wrong

FaultKinds == {"lost", "replyLost", "cancel", "panic", "crash", "bounce"}

ASSUME NumbersAssumption == Runs \subseteq Nat
ASSUME RunsAssumption == NoRun \notin Runs
ASSUME FaultsAssumption == Faults \subseteq FaultKinds

VARIABLES
    \* The game server, behind the AMP API.
    game,       \* "ready", "stopped", or "moving" (starting, stopping, ...)
    offBy,      \* the run whose save-off is in force; NoRun while saving is on
    flushing,   \* save-all flush was accepted and is being carried out
    flushed,    \* every chunk is on disk and nothing writes to it
    console,    \* unread "Saved the game" lines: stale if saving was on
    \* The process.
    up,         \* the process that runs the jobs is alive
    pc,         \* where each run is
    cancelled,  \* the run's context was cancelled
    report,     \* the first error of the run, the one its caller sees
    held,       \* Console.held
    skipped,    \* Console.skipped
    owes,       \* Release's local `held': it took the hold, save-on is due
    wd,         \* the watchdog goroutine
    \* What an observer remembers.
    warned,     \* the watchdog logged its WARNING and took the hold
    alarm,      \* the watchdog logged its ERROR: save-on failed
    bounced,    \* the game left "ready" during the run
    sawStale,   \* the run took a stale line for its confirmation
    saveOns     \* how many save-on messages the run's quiescer sent

gameVars == <<game, offBy, flushing, flushed, console>>
consoleVars == <<held, skipped, owes, wd>>
ghosts == <<warned, alarm, bounced, sawStale, saveOns>>
vars == <<gameVars, up, pc, cancelled, report, consoleVars, ghosts>>

PCs == {"idle", "cold", "status", "drain", "saveoff", "flush", "wait", "hot",
        "release", "stopwd", "saveon", "finish", "ended", "killed"}
Reports == {"none", "cold", "quiesce", "hot", "release", "commit", "panic"}
Over == {"ended", "killed"}

TypeOK ==
    /\ game \in {"ready", "stopped", "moving"}
    /\ offBy \in Runs \cup {NoRun}
    /\ flushing \in BOOLEAN
    /\ flushed \in BOOLEAN
    /\ console \subseteq {"stale", "fresh"}
    /\ up \in BOOLEAN
    /\ pc \in [Runs -> PCs]
    /\ cancelled \in [Runs -> BOOLEAN]
    /\ report \in [Runs -> Reports]
    /\ held \in [Runs -> BOOLEAN]
    /\ skipped \in [Runs -> BOOLEAN]
    /\ owes \in [Runs -> BOOLEAN]
    /\ wd \in [Runs -> {"none", "armed", "sending", "off"}]
    /\ warned \in [Runs -> BOOLEAN]
    /\ alarm \in [Runs -> BOOLEAN]
    /\ bounced \in [Runs -> BOOLEAN]
    /\ sawStale \in [Runs -> BOOLEAN]
    /\ saveOns \in [Runs -> 0..1]

Init ==
    /\ game \in {"ready", "stopped", "moving"}
    /\ offBy = NoRun
    /\ flushing = FALSE
    /\ flushed = FALSE
    /\ console = {}
    /\ up = TRUE
    /\ pc = [r \in Runs |-> "idle"]
    /\ cancelled = [r \in Runs |-> FALSE]
    /\ report = [r \in Runs |-> "none"]
    /\ held = [r \in Runs |-> FALSE]
    /\ skipped = [r \in Runs |-> FALSE]
    /\ owes = [r \in Runs |-> FALSE]
    /\ wd = [r \in Runs |-> "none"]
    /\ warned = [r \in Runs |-> FALSE]
    /\ alarm = [r \in Runs |-> FALSE]
    /\ bounced = [r \in Runs |-> FALSE]
    /\ sawStale = [r \in Runs |-> FALSE]
    /\ saveOns = [r \in Runs |-> 0]

----------------------------------------------------------------------------
(* Helpers.                                                                *)

Active(r) == pc[r] \notin {"idle"} \cup Over

Goto(r, next) == pc' = [pc EXCEPT ![r] = next]

\* How an AMP call may end when its context is already done, and when not.
Answers(done) == IF done THEN {"lost"}
                 ELSE {"ok"} \cup (Faults \cap {"lost", "replyLost"})

\* The caller sees the first error: backup.Run returns hotErr before
\* releaseErr, and releaseQuietly discards what Release returns.
Note(r, e) == IF report[r] = "none" THEN [report EXCEPT ![r] = e] ELSE report

\* What save-off and save-on do to the game, when they reach it.
TurnSavingOff(r, answer) ==
    IF answer # "lost" /\ game = "ready"
      THEN /\ offBy' = r
           /\ flushed' = (flushed /\ offBy # NoRun)
      ELSE UNCHANGED <<offBy, flushed>>
TurnSavingOn(answer) ==
    IF answer # "lost"
      THEN offBy' = NoRun /\ flushed' = FALSE
      ELSE UNCHANGED <<offBy, flushed>>

----------------------------------------------------------------------------
(* The backup run.                                                         *)

\* jobs.Runner.Submit hands out one slot, and numbers in order; backup.Run
\* starts scanning.
Start(r) ==
    /\ up
    /\ pc[r] = "idle"
    /\ \A q \in Runs : ~Active(q) /\ (q < r => pc[q] \in Over)
    /\ Goto(r, "cold")
    /\ UNCHANGED <<gameVars, up, cancelled, report, consoleVars, ghosts>>

\* Scan, parent, space check and cold files; an error ends the run here,
\* before the server has been touched.
Cold(r) ==
    /\ pc[r] = "cold"
    /\ \/ /\ ~cancelled[r]
          /\ Goto(r, "status")
          /\ UNCHANGED report
       \/ /\ Goto(r, "ended")
          /\ report' = Note(r, "cold")
    /\ UNCHANGED <<gameVars, up, cancelled, consoleVars, ghosts>>

\* Any error inside Quiesce sends backup.Run to releaseQuietly.
QuiesceFails(r) ==
    /\ Goto(r, "release")
    /\ report' = Note(r, "quiesce")

\* SkipIfStopped: anything but Ready counts as stopped.
CheckState(r) ==
    /\ pc[r] = "status"
    /\ \/ /\ ~cancelled[r] /\ game = "ready"
          /\ Goto(r, "drain")
          /\ UNCHANGED <<report, skipped>>
       \/ /\ ~cancelled[r] /\ game # "ready"
          /\ skipped' = [skipped EXCEPT ![r] = TRUE]
          /\ Goto(r, "hot")
          /\ UNCHANGED report
       \/ /\ cancelled[r] \/ "lost" \in Faults
          /\ QuiesceFails(r)
          /\ UNCHANGED skipped
    /\ UNCHANGED <<gameVars, up, cancelled, held, owes, wd, ghosts>>

\* GetUpdates throws away what the console printed so far.
Drain(r) ==
    /\ pc[r] = "drain"
    /\ \/ /\ ~cancelled[r]
          /\ console' = {}
          /\ Goto(r, "saveoff")
          /\ UNCHANGED report
       \/ /\ cancelled[r] \/ "lost" \in Faults
          /\ QuiesceFails(r)
          /\ UNCHANGED console
    /\ UNCHANGED <<game, offBy, flushing, flushed, up, cancelled, consoleVars,
                   ghosts>>

\* Variants of SaveOff: the error of the call is ignored; no watchdog.
SaveOffUnacknowledged(r) ==
    /\ pc[r] = "saveoff"
    /\ \E answer \in Answers(cancelled[r]) : TurnSavingOff(r, answer)
    /\ held' = [held EXCEPT ![r] = TRUE]
    /\ wd' = [wd EXCEPT ![r] = "armed"]
    /\ Goto(r, "flush")
    /\ UNCHANGED <<game, flushing, console, up, cancelled, report, skipped,
                   owes, ghosts>>
SaveOffUnwatched(r) ==
    /\ pc[r] = "saveoff"
    /\ ~cancelled[r]
    /\ TurnSavingOff(r, "ok")
    /\ held' = [held EXCEPT ![r] = TRUE]
    /\ Goto(r, "flush")
    /\ UNCHANGED <<game, flushing, console, up, cancelled, report, skipped,
                   owes, wd, ghosts>>

\* Only a reply makes the Console hold and arms the watchdog.
SaveOff(r) ==
    /\ pc[r] = "saveoff"
    /\ \E answer \in Answers(cancelled[r]) :
        /\ TurnSavingOff(r, answer)
        /\ IF answer = "ok"
             THEN /\ held' = [held EXCEPT ![r] = TRUE]
                  /\ wd' = [wd EXCEPT ![r] = "armed"]
                  /\ Goto(r, "flush")
                  /\ UNCHANGED report
             ELSE QuiesceFails(r) /\ UNCHANGED <<held, wd>>
    /\ UNCHANGED <<game, flushing, console, up, cancelled, skipped, owes,
                   ghosts>>

SaveFlush(r) ==
    /\ pc[r] = "flush"
    /\ \E answer \in Answers(cancelled[r]) :
        /\ flushing' = (flushing \/ (answer # "lost" /\ game = "ready"))
        /\ IF answer = "ok"
             THEN Goto(r, "wait") /\ UNCHANGED report
             ELSE QuiesceFails(r)
    /\ UNCHANGED <<game, offBy, flushed, console, up, cancelled, consoleVars,
                   ghosts>>

\* A variant of WaitForFlush: the deadline counts as a confirmation.
WaitAndHope(r) ==
    /\ pc[r] = "wait"
    /\ Goto(r, "hot")
    /\ UNCHANGED <<gameVars, up, cancelled, report, consoleVars, ghosts>>

\* waitForFlush: any matching line confirms; a poll error, the deadline or
\* the context ends the wait.
WaitForFlush(r) ==
    /\ pc[r] = "wait"
    /\ \/ /\ ~cancelled[r]
          /\ console # {}
          /\ console' = {}
          /\ sawStale' = [sawStale EXCEPT ![r] = "fresh" \notin console]
          /\ Goto(r, "hot")
          /\ UNCHANGED report
       \/ /\ QuiesceFails(r)
          /\ UNCHANGED <<console, sawStale>>
    /\ UNCHANGED <<game, offBy, flushing, flushed, up, cancelled, consoleVars,
                   warned, alarm, bounced, saveOns>>

\* The hot files are read; process checks the context before every file.
Hot(r) ==
    /\ pc[r] = "hot"
    /\ Goto(r, "release")
    /\ report' \in {report, Note(r, "hot")}
    /\ UNCHANGED <<gameVars, up, cancelled, consoleVars, ghosts>>

\* A panic in the job is recovered by jobs.run: nothing calls Release.
Panic(r) ==
    /\ "panic" \in Faults
    /\ pc[r] = "hot"
    /\ Goto(r, "ended")
    /\ report' = Note(r, "panic")
    /\ UNCHANGED <<gameVars, up, cancelled, consoleVars, ghosts>>

\* A variant of Release: it reads held and leaves it set.
ReleaseLeavesHeld(r) ==
    /\ pc[r] = "release"
    /\ owes' = [owes EXCEPT ![r] = held[r]]
    /\ skipped' = [skipped EXCEPT ![r] = FALSE]
    /\ Goto(r, "stopwd")
    /\ UNCHANGED <<gameVars, up, cancelled, report, held, wd, ghosts>>

\* Release, under its mutex: take the hold and the watchdog's handle.
Release(r) ==
    /\ pc[r] = "release"
    /\ owes' = [owes EXCEPT ![r] = held[r]]
    /\ held' = [held EXCEPT ![r] = FALSE]
    /\ skipped' = [skipped EXCEPT ![r] = FALSE]
    /\ Goto(r, "stopwd")
    /\ UNCHANGED <<gameVars, up, cancelled, report, wd, ghosts>>

\* A variant of StopWatchdog: the goroutine is neither stopped nor awaited.
ForgetWatchdog(r) ==
    /\ pc[r] = "stopwd"
    /\ Goto(r, IF owes[r] THEN "saveon" ELSE "finish")
    /\ UNCHANGED <<gameVars, up, cancelled, report, consoleVars, ghosts>>

\* stop(); <-done.  A watchdog that is already sending is waited for.
StopWatchdog(r) ==
    /\ pc[r] = "stopwd"
    /\ wd[r] # "sending"
    /\ wd' = [wd EXCEPT ![r] = IF @ = "armed" THEN "off" ELSE @]
    /\ Goto(r, IF owes[r] THEN "saveon" ELSE "finish")
    /\ UNCHANGED <<gameVars, up, cancelled, report, held, skipped, owes,
                   ghosts>>

\* After a failed Quiesce the context is a fresh one; otherwise it is the
\* job's own.
ReleaseContextDone(r) == cancelled[r] /\ report[r] # "quiesce"

\* A variant of SaveOn: its error is dropped.
SaveOnUnchecked(r) ==
    /\ pc[r] = "saveon"
    /\ \E answer \in Answers(ReleaseContextDone(r)) : TurnSavingOn(answer)
    /\ owes' = [owes EXCEPT ![r] = FALSE]
    /\ saveOns' = [saveOns EXCEPT ![r] = @ + 1]
    /\ Goto(r, "finish")
    /\ UNCHANGED <<game, flushing, console, up, cancelled, report, held,
                   skipped, wd, warned, alarm, bounced, sawStale>>

SaveOn(r) ==
    /\ pc[r] = "saveon"
    /\ \E answer \in Answers(ReleaseContextDone(r)) :
        /\ TurnSavingOn(answer)
        /\ report' = IF answer = "ok" THEN report ELSE Note(r, "release")
    /\ owes' = [owes EXCEPT ![r] = FALSE]
    /\ saveOns' = [saveOns EXCEPT ![r] = @ + 1]
    /\ Goto(r, "finish")
    /\ UNCHANGED <<game, flushing, console, up, cancelled, held, skipped, wd,
                   warned, alarm, bounced, sawStale>>

\* Return the error, or write and commit the snapshot.
Finish(r) ==
    /\ pc[r] = "finish"
    /\ Goto(r, "ended")
    /\ report' \in {report, Note(r, "commit")}
    /\ UNCHANGED <<gameVars, up, cancelled, consoleVars, ghosts>>

\* jobs.Cancel, jobs.Shutdown, or ^C on the command line.
Cancel(r) ==
    /\ "cancel" \in Faults
    /\ up /\ Active(r) /\ ~cancelled[r]
    /\ cancelled' = [cancelled EXCEPT ![r] = TRUE]
    /\ UNCHANGED <<gameVars, up, pc, report, consoleVars, ghosts>>

RunStep(r) ==
    \/ Cold(r) \/ CheckState(r) \/ Drain(r) \/ SaveOff(r) \/ SaveFlush(r)
    \/ WaitForFlush(r) \/ Hot(r) \/ Panic(r) \/ Release(r) \/ StopWatchdog(r)
    \/ SaveOn(r) \/ Finish(r)

----------------------------------------------------------------------------
(* The watchdog goroutine of a run's Console.                              *)

WatchdogFires(r) ==
    /\ wd[r] = "armed"
    /\ held' = [held EXCEPT ![r] = FALSE]
    /\ wd' = [wd EXCEPT ![r] = IF held[r] THEN "sending" ELSE "off"]
    /\ warned' = [warned EXCEPT ![r] = held[r]]
    /\ UNCHANGED <<gameVars, up, pc, cancelled, report, skipped, owes, alarm,
                   bounced, sawStale, saveOns>>

WatchdogSends(r) ==
    /\ wd[r] = "sending"
    /\ \E answer \in Answers(FALSE) :
        /\ TurnSavingOn(answer)
        /\ alarm' = [alarm EXCEPT ![r] = answer # "ok"]
    /\ wd' = [wd EXCEPT ![r] = "off"]
    /\ saveOns' = [saveOns EXCEPT ![r] = @ + 1]
    /\ UNCHANGED <<game, flushing, console, up, pc, cancelled, report, held,
                   skipped, owes, warned, bounced, sawStale>>

----------------------------------------------------------------------------
(* The process and the game.                                               *)

\* SIGKILL, power, out of memory: goroutines and their state are gone, and
\* nobody is left to report anything.
Crash ==
    /\ "crash" \in Faults
    /\ up
    /\ up' = FALSE
    /\ pc' = [r \in Runs |-> IF Active(r) THEN "killed" ELSE pc[r]]
    /\ report' = [r \in Runs |-> IF Active(r) THEN "none" ELSE report[r]]
    /\ held' = [r \in Runs |-> FALSE]
    /\ owes' = [r \in Runs |-> FALSE]
    /\ skipped' = [r \in Runs |-> FALSE]
    /\ wd' = [r \in Runs |-> IF wd[r] = "none" THEN "none" ELSE "off"]
    /\ UNCHANGED <<gameVars, cancelled, ghosts>>

\* `amp-bb serve' starts.  EnsureSaveOn has no caller, so nothing is sent.
Restart ==
    /\ ~up
    /\ up' = TRUE
    /\ UNCHANGED <<gameVars, pc, cancelled, report, consoleVars, ghosts>>

\* The game's own autosave prints the line the confirmation looks for.
Autosave ==
    /\ game = "ready" /\ offBy = NoRun
    /\ console' = console \cup {"stale"}
    /\ UNCHANGED <<game, offBy, flushing, flushed, up, pc, cancelled, report,
                   consoleVars, ghosts>>

FlushCompletes ==
    /\ flushing
    /\ flushing' = FALSE
    /\ flushed' = (offBy # NoRun)
    /\ console' = console \cup {IF offBy = NoRun THEN "stale" ELSE "fresh"}
    /\ UNCHANGED <<game, offBy, up, pc, cancelled, report, consoleVars,
                   ghosts>>

\* Leaving "ready" forgets save-off: it is not a setting the game persists.
GameLeavesReady ==
    /\ "bounce" \in Faults
    /\ game = "ready"
    /\ game' = "moving"
    /\ offBy' = NoRun
    /\ flushing' = FALSE
    /\ flushed' = FALSE
    /\ bounced' = [r \in Runs |-> bounced[r] \/ Active(r)]
    /\ UNCHANGED <<console, up, pc, cancelled, report, consoleVars, warned,
                   alarm, sawStale, saveOns>>

GameMoves ==
    /\ \/ game = "moving" /\ game' \in {"stopped", "ready"}
       \/ game = "stopped" /\ game' = "moving"
    /\ UNCHANGED <<offBy, flushing, flushed, console, up, pc, cancelled,
                   report, consoleVars, ghosts>>

----------------------------------------------------------------------------

Next ==
    \/ \E r \in Runs : Start(r) \/ RunStep(r) \/ Cancel(r)
                       \/ WatchdogFires(r) \/ WatchdogSends(r)
    \/ Crash \/ Restart
    \/ Autosave \/ FlushCompletes \/ GameLeavesReady \/ GameMoves

Spec == Init /\ [][Next]_vars

\* What the code guarantees to be scheduled while the process lives: the
\* watchdog's timer and its send (its own goroutine, 30 s bound), and the
\* tail of Release, whose calls are bounded by the client's timeout.  The
\* backup's own steps get no fairness: a wedged run is what the watchdog is
\* for.
Fairness ==
    \A r \in Runs : /\ WF_vars(WatchdogFires(r))
                    /\ WF_vars(WatchdogSends(r))
                    /\ WF_vars(StopWatchdog(r))
                    /\ WF_vars(SaveOn(r))

FairSpec == Spec /\ Fairness

----------------------------------------------------------------------------
(* What is checked.                                                        *)

\* Why a hold may be gone before its run let it go: the game left Ready, or
\* a watchdog put saving back, the run's own or that of a run that panicked.
Undone(r) ==
    bounced[r] \/ \E q \in Runs : warned[q] /\ (q = r \/ report[q] = "panic")

\* No torn hot files without a trace: while a run that took the hold reads
\* its hot files, its save-off is in force, unless it was undone from outside
\* and the daemon's log says so (console.go WARNING).
HotSheltered ==
    \A r \in Runs :
        (pc[r] = "hot" /\ ~skipped[r]) => offBy = r \/ Undone(r)

\* The hot phase starts only after a flush: then the world is whole on disk,
\* with the same exceptions, and the one that a line printed before save-off
\* was taken for the confirmation (waitForFlush matches any such line).
HotFlushed ==
    \A r \in Runs :
        (pc[r] = "hot" /\ ~skipped[r]) => flushed \/ sawStale[r] \/ Undone(r)

\* A run that comes to its end never leaves its save-off in force without
\* saying so: the caller got an error, or the watchdog logged "run save-on by
\* hand".  (That the error names the hold is refuted below, and so is that a
\* run the process died over is made up for by the next one.)
NeverSilent ==
    \A r \in Runs :
        (pc[r] = "ended" /\ offBy = r) => report[r] # "none" \/ alarm[r]

\* Release waits for the watchdog goroutine (<-done): no timer outlives its
\* run into the next run's hot phase, unless the run panicked past Release.
NoStrayTimer ==
    \A r \in Runs :
        (pc[r] = "ended" /\ report[r] # "panic") => wd[r] \in {"none", "off"}

\* Where a run's hold is, as the abstract specification sees it.
HoldOf(r) ==
    IF held[r] THEN "held"
    ELSE IF owes[r] \/ wd[r] = "sending" THEN "claimed"
    ELSE IF wd[r] = "none" THEN "free" ELSE "over"

Hold == INSTANCE SaveHold WITH hold <- [r \in Runs |-> HoldOf(r)],
                               asked <- saveOns

\* The Console and its watchdog implement the promise of SaveHold: each hold
\* is claimed once and settled by one save-on (console.go: held is cleared
\* under the mutex by whoever is going to send).
ClaimedOnce == Hold!Spec

\* Even a backup that never takes another step, or panicked, does not keep
\* the server from saving, as long as the process lives: the hold ends, or
\* somebody is told that it could not be ended.
Rescued ==
    \A r \in Runs :
        (held[r] /\ offBy = r)
            ~> \/ offBy # r \/ alarm[r] \/ ~up
               \/ report[r] \notin {"none", "panic"}

----------------------------------------------------------------------------
(* What the documentation says and the code does not keep.                 *)

\* serve.go:217 "a quiesced backup unwinding is a backup sending save-on";
\* backup/quiesce.go:8 "always lets it go again".
UnwindRestoresSaving ==
    \A r \in Runs : (pc[r] = "ended" /\ cancelled[r]) => offBy # r

\* README.md:50-53: save-on "is sent again on daemon startup, in case a
\* previous process died holding a quiesce": by the time the restarted process
\* begins its next backup, the save-off of the one it died over is gone.
StartRestoresSaving ==
    \A q, r \in Runs : pc[r] = "killed" /\ Active(q) => offBy # r
=============================================================================
