------------------------------ MODULE Schedule ------------------------------
(***************************************************************************)
(* The daemon's own clock: schedule.Scheduler over the settings, the state *)
(* file and the snapshot list, with the job slot it submits to, the web    *)
(* handler that saves settings, and restarts of the process.               *)
(*                                                                         *)
(* Time is counted in units of which a day has `Day'; 0 is Go's zero time. *)
(* The daemon's own steps take no time: the clock advances only while its  *)
(* loop sleeps or waits out a jitter delay.  Jobs take any time.           *)
(***************************************************************************)
EXTENDS Naturals, FiniteSetsExt

CONSTANTS
    MaxTime,    \* bound: the last instant
    Day,        \* units of a day
    HouseAt,    \* schedule.housekeeping.at
    Grace,      \* schedule.startup_grace
    MaxSleep,   \* untilNext's maxSleep
    Settings    \* the [enabled, every, window, house] somebody may save

\* What settings.Validate lets pass.
ASSUME SettingsAssumption ==
    /\ Settings \subseteq [enabled : BOOLEAN, every : Nat \ {0}, window : Nat,
                           house : BOOLEAN]
    /\ \A s \in Settings : s.window < s.every
ASSUME TimeAssumption == MaxTime \in Nat \ {0}
ASSUME DayAssumption == Day \in Nat \ {0} /\ HouseAt \in 0..(Day - 1)
ASSUME SleepAssumption == MaxSleep \in Nat \ {0} /\ Grace \in Nat

VARIABLES
    clock,
    \* On disk.
    cfg,        \* the settings
    lastBackup, \* state.json: LastBackup.StartedAt
    newest,     \* LastSnapshotAt: the newest committed snapshot's StartedAt
    \* The scheduler.
    pc,         \* "down", "starting", "asleep", "backup", "house", "settle"
    started, fired, nextBackup, nextHousekeeping,
    dueHouse,   \* fireDue's local
    until,      \* when fire stops waiting out the jitter
    wake,       \* when the timer fires
    updates,    \* the settings channel holds a notification
    saving,     \* handlePutSettings is between Update and the end of Refresh
    \* The job slot.
    job,        \* [kind, start]; kind "none" while it is free
    committed,  \* the running backup has committed its snapshot
    \* What an observer remembers.
    owed,       \* the last housekeeping time came while the loop was "asleep"
                \* and is yet to be answered, or it was lost: the loop was
                \* waiting out a jitter delay ("delayed"), or the times were
                \* worked out anew before the timer was looked at ("moved")
    unseen,     \* a backup was filed since the last recompute
    raced       \* the timer was set from a next time being rewritten

disk == <<cfg, lastBackup, newest>>
slot == <<job, committed>>
vars == <<clock, disk, pc, started, fired, nextBackup, nextHousekeeping,
          dueHouse, until, wake, updates, saving, slot, owed, unseen, raced>>

Times == 0..MaxTime
JobKinds == {"none", "scheduled", "manual", "housekeeping", "other"}

\* Due times may lie beyond the last instant.
TypeOK ==
    /\ clock \in Times \ {0}
    /\ cfg \in Settings
    /\ lastBackup \in Times
    /\ newest \in Times
    /\ pc \in {"down", "starting", "asleep", "backup", "house", "settle"}
    /\ started \in Times
    /\ fired \in Times
    /\ nextBackup \in Nat
    /\ nextHousekeeping \in Nat
    /\ dueHouse \in BOOLEAN
    /\ until \in Nat
    /\ wake \in Nat
    /\ updates \in BOOLEAN
    /\ saving \in BOOLEAN
    /\ job \in [kind : JobKinds, start : Times]
    /\ committed \in BOOLEAN
    /\ committed => job.kind \in {"scheduled", "manual"}
    /\ owed \in {"no", "asleep", "delayed", "moved"}
    /\ unseen \in BOOLEAN
    /\ raced \in BOOLEAN

Free == [kind |-> "none", start |-> 0]

Init ==
    /\ clock = 1
    /\ cfg \in Settings
    /\ lastBackup = 0 /\ newest = 0
    /\ pc = "down"
    /\ started = 0 /\ fired = 0 /\ nextBackup = 0 /\ nextHousekeeping = 0
    /\ dueHouse = FALSE /\ until = 0 /\ wake = 0
    /\ updates = FALSE /\ saving = FALSE
    /\ job = Free /\ committed = FALSE
    /\ owed = "no" /\ unseen = FALSE /\ raced = FALSE

----------------------------------------------------------------------------
(* recompute and untilNext.                                                *)

\* A variant of Base: what this process fired but nobody has filed yet does
\* not count.
BaseOfState(start) == IF Max({lastBackup, newest}) = 0 THEN start
                      ELSE Max({lastBackup, newest})

\* The last run, whichever source knows about it; else the daemon's start.
Base(start) == IF Max({lastBackup, newest, fired}) = 0 THEN start
               ELSE Max({lastBackup, newest, fired})

\* When the backup is due; the grace period is a floor.
DueBackup(start) == Max({Base(start) + cfg.every, start + Grace})

\* nextHousekeeping: the next time of day, strictly after now.
DueHousekeeping ==
    CHOOSE t \in (clock + 1)..(clock + Day) : t % Day = HouseAt

Recompute(start) ==
    /\ nextBackup' = IF cfg.enabled THEN Max({DueBackup(start), clock}) ELSE 0
    /\ nextHousekeeping' = IF cfg.house THEN DueHousekeeping ELSE 0
    /\ unseen' = FALSE

\* Whoever works out the times while a pass is due moves it a day ahead.
Moved == owed' = IF pc = "asleep" /\ owed = "asleep" THEN "moved" ELSE owed

\* untilNext: to the sooner of the two times that are set, bounded.
WakeFor(b, h) == Min({clock + MaxSleep} \cup {Max({t, clock}) :
                                                 t \in {b, h} \ {0}})

\* A variant of SetTimer: the timer is set for the backup alone.
SetTimerForBackup ==
    /\ wake' = Min({clock + MaxSleep + Day} \cup ({nextBackup'} \ {0}))
    /\ raced' = FALSE

\* untilNext reads s.next without the lock, and a Refresh on its way clears
\* each of the two times before it sets it again.
SetTimer ==
    \E b \in {nextBackup'} \cup (IF saving THEN {0} ELSE {}),
       h \in {nextHousekeeping'} \cup (IF saving THEN {0} ELSE {}) :
        /\ wake' = WakeFor(b, h)
        /\ raced' = (b # nextBackup' \/ h # nextHousekeeping')

----------------------------------------------------------------------------
(* The scheduler's loop.                                                   *)

\* schedule.New
Boot ==
    /\ pc = "down"
    /\ started' = clock
    /\ Recompute(clock)
    /\ pc' = "starting"
    /\ UNCHANGED <<clock, disk, fired, dueHouse, until, wake, updates, saving,
                   slot, owed, raced>>

\* Run: subscribe, recompute, set the timer.
RunStarts ==
    /\ pc = "starting"
    /\ Recompute(started) /\ SetTimer
    /\ pc' = "asleep"
    /\ UNCHANGED <<clock, disk, started, fired, dueHouse, until, updates,
                   saving, slot, owed>>

\* A variant of Notified: the timer is left as it was.
NotifiedKeepsTimer ==
    /\ pc = "asleep" /\ updates
    /\ updates' = FALSE
    /\ Recompute(started) /\ Moved
    /\ UNCHANGED <<clock, disk, pc, started, fired, dueHouse, until, wake,
                   saving, slot, raced>>

\* case <-updates
Notified ==
    /\ pc = "asleep" /\ updates
    /\ updates' = FALSE
    /\ Recompute(started) /\ Moved /\ SetTimer
    /\ UNCHANGED <<clock, disk, pc, started, fired, dueHouse, until, saving,
                   slot>>

Due(t) == t # 0 /\ t <= clock

\* case <-timer.C: fireDue decides what is due, and fire how long to wait.
Wake ==
    /\ pc = "asleep" /\ wake <= clock
    /\ dueHouse' = Due(nextHousekeeping)
    /\ IF Due(nextBackup)
         THEN /\ fired' = clock
              /\ pc' = "backup"
              /\ \E delay \in 0..Max({cfg.window - 1, 0}) :
                    until' = clock + delay
         ELSE /\ pc' = IF dueHouse' THEN "house" ELSE "settle"
              /\ UNCHANGED <<fired, until>>
    /\ UNCHANGED <<clock, disk, started, nextBackup, nextHousekeeping, wake,
                   updates, saving, slot, owed, unseen, raced>>

\* The slot is taken, or the skip is recorded (Submit, RecordSkip).
SubmitOrSkip(kind) ==
    job' = IF job.kind = "none" THEN [kind |-> kind, start |-> clock] ELSE job

SubmitBackup ==
    /\ pc = "backup" /\ until <= clock
    /\ SubmitOrSkip("scheduled")
    /\ pc' = IF dueHouse THEN "house" ELSE "settle"
    /\ until' = 0
    /\ UNCHANGED <<clock, disk, started, fired, nextBackup, nextHousekeeping,
                   dueHouse, wake, updates, saving, committed, owed, unseen,
                   raced>>

SubmitHousekeeping ==
    /\ pc = "house"
    /\ SubmitOrSkip("housekeeping")
    /\ owed' = "no"
    /\ pc' = "settle"
    /\ dueHouse' = FALSE
    /\ UNCHANGED <<clock, disk, started, fired, nextBackup, nextHousekeeping,
                   until, wake, updates, saving, committed, unseen, raced>>

Settle ==
    /\ pc = "settle"
    /\ Recompute(started) /\ SetTimer
    /\ pc' = "asleep"
    /\ UNCHANGED <<clock, disk, started, fired, dueHouse, until, updates,
                   saving, slot, owed>>

----------------------------------------------------------------------------
(* The rest of the daemon.                                                 *)

\* handlePutSettings: Update writes the file and notifies whoever subscribed.
SaveSettings ==
    /\ pc # "down" /\ ~saving
    /\ \E s \in Settings \ {cfg} : cfg' = s
    /\ updates' = (pc # "starting")
    /\ saving' = TRUE
    /\ UNCHANGED <<clock, lastBackup, newest, pc, started, fired, nextBackup,
                   nextHousekeeping, dueHouse, until, wake, slot, owed, unseen,
                   raced>>

Refresh ==
    /\ saving
    /\ Recompute(started) /\ Moved
    /\ saving' = FALSE
    /\ UNCHANGED <<clock, disk, pc, started, fired, dueHouse, until, wake,
                   updates, slot, raced>>

\* A web handler submits a job.
StartJob(kind) ==
    /\ pc # "down" /\ job.kind = "none"
    /\ job' = [kind |-> kind, start |-> clock]
    /\ UNCHANGED <<clock, disk, pc, started, fired, nextBackup,
                   nextHousekeeping, dueHouse, until, wake, updates, saving,
                   committed, owed, unseen, raced>>

IsBackup == job.kind \in {"scheduled", "manual"}

\* A backup's snapshot appears in the list.
Commit ==
    /\ IsBackup /\ ~committed
    /\ committed' = TRUE
    /\ newest' = Max({newest, job.start})
    /\ unseen' = TRUE
    /\ UNCHANGED <<clock, cfg, lastBackup, pc, started, fired, nextBackup,
                   nextHousekeeping, dueHouse, until, wake, updates, saving,
                   job, owed, raced>>

\* record, whether it succeeded or not, and the slot is free.
JobEnds ==
    /\ job.kind # "none"
    /\ lastBackup' = IF IsBackup THEN job.start ELSE lastBackup
    /\ unseen' = (unseen \/ IsBackup)
    /\ job' = Free /\ committed' = FALSE
    /\ UNCHANGED <<clock, cfg, newest, pc, started, fired, nextBackup,
                   nextHousekeeping, dueHouse, until, wake, updates, saving,
                   owed, raced>>

\* The process ends, in whatever it was doing.
Crash ==
    /\ pc # "down"
    /\ pc' = "down"
    /\ started' = 0 /\ fired' = 0 /\ nextBackup' = 0 /\ nextHousekeeping' = 0
    /\ dueHouse' = FALSE /\ until' = 0 /\ wake' = 0
    /\ updates' = FALSE /\ saving' = FALSE
    /\ job' = Free /\ committed' = FALSE
    /\ owed' = "no" /\ unseen' = FALSE /\ raced' = FALSE
    /\ UNCHANGED <<clock, disk>>

\* Time passes while the loop has nothing to do.
Tick ==
    /\ clock < MaxTime
    /\ ~saving
    /\ \/ pc = "down"
       \/ pc = "asleep" /\ clock < wake /\ ~updates
       \/ pc = "backup" /\ clock < until
    /\ clock' = clock + 1
    /\ owed' = IF cfg.house /\ clock' % Day = HouseAt /\ owed # "asleep"
                 THEN CASE pc = "asleep" -> "asleep"
                        [] pc = "backup" -> "delayed"
                        [] OTHER -> "no"
                 ELSE owed
    /\ UNCHANGED <<disk, pc, started, fired, nextBackup, nextHousekeeping,
                   dueHouse, until, wake, updates, saving, slot, unseen,
                   raced>>

----------------------------------------------------------------------------

Next ==
    \/ Boot \/ RunStarts \/ Notified \/ Wake
    \/ SubmitBackup \/ SubmitHousekeeping \/ Settle
    \/ SaveSettings \/ Refresh
    \/ \E kind \in {"manual", "other"} : StartJob(kind)
    \/ Commit \/ JobEnds
    \/ Crash \/ Tick

Spec == Init /\ [][Next]_vars

----------------------------------------------------------------------------
(* What is checked.                                                        *)

\* A scheduled backup is due no sooner than an interval after the one this
\* process fired last, and after every backup that was on disk when the times
\* were last worked out, and not within the grace period of a start
\* (schedule.go:43-48, state.go:6-9).  A backup whose process died before it
\* was listed or filed is on no disk and does not count: of restarts that kill
\* each backup this says that the grace period is between them, no more.
Spaced ==
    [][(fired' > fired /\ ~saving) =>
          /\ fired # 0 => fired' >= fired + cfg.every
          /\ fired' >= started + Grace
          /\ Max({lastBackup, newest}) # 0 /\ ~unseen =>
                fired' >= Max({lastBackup, newest}) + cfg.every]_vars

\* The loop sleeps with nothing left to do; the timer is sound.
Settled == pc = "asleep" /\ clock < wake /\ ~updates /\ ~raced

\* A backup that is due is not slept over, after a restart, a change of the
\* interval or another backup as little as in the steady state.
Prompt == (Settled /\ cfg.enabled /\ ~saving) => clock < DueBackup(started)

\* A housekeeping time that comes while the loop is asleep is answered by a
\* submitted pass or a recorded skip, unless somebody worked the times out anew
\* between that time and the timer's case (a save, for its Refresh or its
\* notification).  Such a pass is moved to the next day, and one whose time
\* comes in the jitter of a backup is lost too, with no skip recorded for
\* either; but it is the one pass: whenever the loop is asleep it waits for
\* the next time of day there is.
Accounted ==
    Settled => /\ owed # "asleep"
               /\ cfg.house => nextHousekeeping = DueHousekeeping

=============================================================================
