---------------------------- MODULE SettingsStore ----------------------------
(***************************************************************************)
(* settings.Store and the file it owns: Update under its lock, down to the *)
(* system calls of atomicfile.Write, the subscriber it notifies without    *)
(* waiting (the scheduler's loop), rejected and failing changes, the death *)
(* of the process and the loss of power between any two steps.             *)
(*                                                                         *)
(* A version of the settings is named by the Update that made it.  What it *)
(* says is left open, except that Validate may reject it.  The section     *)
(* about the instance, which the command line imposes, is left aside.      *)
(***************************************************************************)
CONSTANTS
    Updates,    \* calls of Update, each once
    Seed,       \* the version that Open wrote first
    Torn        \* what is not readable as settings

VersionsAssumption ==
    Seed \notin Updates /\ Torn \notin Updates /\ Seed # Torn

VARIABLES
    \* The disk.
    file,       \* the version that the path names
    synced,     \* the versions whose contents are on the platter
    mayFind,    \* the versions that the path may name after a loss of power
    \* The store.
    up,
    lock,       \* the Update that holds the lock; Seed if none does
    upc,        \* where each Update is
    cur,
    \* Who watches it.
    spc,        \* Scheduler.Run: "down", "starting", "asleep", "looking",
                \* "left" when the daemon is shutting down
    note,       \* there is something in its channel
    looked      \* the version it went by last

disk == <<file, synced, mayFind>>
watcher == <<spc, note, looked>>
vars == <<disk, up, lock, upc, cur, watcher>>

Versions == Updates \cup {Seed}

TypeOK ==
    /\ file \in Versions \cup {Torn}
    /\ synced \subseteq Versions
    /\ mayFind \subseteq Versions
    /\ up \in BOOLEAN
    /\ lock \in Versions
    /\ upc \in [Updates -> {"new", "locked", "written", "synced", "renamed",
                            "published", "saved", "panicked", "rejected",
                            "dead"}]
    /\ cur \in Versions
    /\ spc \in {"down", "starting", "asleep", "looking", "left"}
    /\ note \in BOOLEAN
    /\ looked \in Versions

Init ==
    /\ file = Seed /\ synced = {Seed} /\ mayFind = {Seed}
    /\ up = TRUE /\ lock = Seed
    /\ upc = [u \in Updates |-> "new"]
    /\ cur = Seed
    /\ spc = "starting" /\ note = FALSE /\ looked = Seed

----------------------------------------------------------------------------
(* Update.                                                                 *)

Goto(u, next) == upc' = [upc EXCEPT ![u] = next]

Begin(u) ==
    /\ up /\ upc[u] = "new" /\ lock = Seed
    /\ lock' = u
    /\ Goto(u, "locked")
    /\ UNCHANGED <<disk, up, cur, watcher>>

\* fn or Validate says no, or a step of atomicfile.Write fails; the deferred
\* removal of the temporary file leaves nothing behind.
Reject(u) ==
    /\ upc[u] \in {"locked", "written", "synced"}
    /\ lock' = Seed
    /\ Goto(u, "rejected")
    /\ UNCHANGED <<disk, up, cur, watcher>>

WriteTemp(u) ==
    /\ upc[u] = "locked"
    /\ Goto(u, "written")
    /\ UNCHANGED <<disk, up, lock, cur, watcher>>

\* A variant of Sync: it is left to the kernel.
SyncLater(u) ==
    /\ upc[u] = "written"
    /\ Goto(u, "synced")
    /\ UNCHANGED <<disk, up, lock, cur, watcher>>

Sync(u) ==
    /\ upc[u] = "written"
    /\ synced' = synced \cup {u}
    /\ Goto(u, "synced")
    /\ UNCHANGED <<file, mayFind, up, lock, cur, watcher>>

\* The directory itself is not synced.
Rename(u) ==
    /\ upc[u] = "synced"
    /\ file' = u
    /\ mayFind' = mayFind \cup {u}
    /\ Goto(u, "renamed")
    /\ UNCHANGED <<synced, up, lock, cur, watcher>>

\* s.cur = next; who is to be told is settled; Unlock.
Publish(u) ==
    /\ upc[u] = "renamed"
    /\ cur' = u
    /\ lock' = Seed
    /\ Goto(u, IF spc \in {"asleep", "looking"} THEN "published" ELSE "saved")
    /\ UNCHANGED <<disk, up, watcher>>

\* A channel of one slot; nobody waits for it to be drained.  One that its
\* subscriber has closed meanwhile makes the caller panic, with the change
\* made.
Notify(u) ==
    /\ upc[u] = "published"
    /\ IF spc = "left"
         THEN Goto(u, "panicked") /\ UNCHANGED note
         ELSE Goto(u, "saved") /\ note' = TRUE
    /\ UNCHANGED <<disk, up, lock, cur, spc, looked>>

UpdateStep(u) ==
    \/ Reject(u) \/ WriteTemp(u) \/ Sync(u) \/ Rename(u) \/ Publish(u)
    \/ Notify(u)

----------------------------------------------------------------------------
(* The scheduler's loop, as a subscriber.                                  *)

\* A variant of RunStarts: what New worked out still holds, surely.
RunTrusting ==
    /\ spc = "starting" /\ lock = Seed
    /\ spc' = "asleep"
    /\ note' = FALSE
    /\ UNCHANGED <<disk, up, lock, upc, cur, looked>>

\* Run subscribes, and then looks at what it may have missed since New.
RunStarts ==
    /\ spc = "starting" /\ lock = Seed
    /\ spc' = "looking"
    /\ note' = FALSE
    /\ UNCHANGED <<disk, up, lock, upc, cur, looked>>

\* case <-updates: what is in the channel does not matter.  Or the timer.
WakeUp ==
    /\ spc = "asleep"
    /\ note' \in {FALSE, note}
    /\ spc' = "looking"
    /\ UNCHANGED <<disk, up, lock, upc, cur, looked>>

\* Get
Look ==
    /\ spc = "looking" /\ lock = Seed
    /\ looked' = cur
    /\ spc' = "asleep"
    /\ UNCHANGED <<disk, up, lock, upc, cur, note>>

\* ctx.Done: the daemon shuts down.  Handlers go on for a while.
Leave ==
    /\ spc = "asleep" /\ lock = Seed
    /\ spc' = "left" /\ note' = FALSE
    /\ UNCHANGED <<disk, up, lock, upc, cur, looked>>

----------------------------------------------------------------------------
(* The process and the machine.                                            *)

Stop ==
    /\ up
    /\ up' = FALSE
    /\ lock' = Seed
    /\ upc' = [u \in Updates |->
                  IF upc[u] \in {"new", "saved", "panicked", "rejected"}
                    THEN upc[u] ELSE "dead"]
    /\ spc' = "down" /\ note' = FALSE
    /\ UNCHANGED <<cur, looked>>

Crash == Stop /\ UNCHANGED disk

\* What was renamed may or may not have reached the directory; what was not
\* synced is not there.
PowerLoss ==
    /\ Stop
    /\ \E v \in mayFind :
        /\ file' = IF v \in synced THEN v ELSE Torn
        /\ mayFind' = {v}
    /\ UNCHANGED synced

\* Open: a file that cannot be read keeps the daemon from starting.
Open ==
    /\ ~up /\ file # Torn
    /\ up' = TRUE
    /\ cur' = file
    /\ spc' = "starting" /\ looked' = file
    /\ UNCHANGED <<disk, lock, upc, note>>

\* The kernel writes the directory back.
WriteBack ==
    /\ file # Torn
    /\ mayFind' = {file}
    /\ UNCHANGED <<file, synced, up, lock, upc, cur, watcher>>

Next ==
    \/ \E u \in Updates : Begin(u) \/ UpdateStep(u)
    \/ RunStarts \/ WakeUp \/ Look \/ Leave
    \/ Crash \/ PowerLoss \/ Open \/ WriteBack

Spec == Init /\ [][Next]_vars

----------------------------------------------------------------------------

\* An update holds the lock while its change is made, and Get waits for it.
Served == IF up /\ lock = Seed THEN cur ELSE Torn

OutcomeOf(pc) ==
    CASE pc \in {"new", "locked", "written", "synced"} -> "open"
      [] pc \in {"renamed", "published", "saved", "panicked"} -> "made"
      [] pc = "rejected" -> "refused"
      [] pc = "dead" -> "unknown"

Promise == INSTANCE Register WITH
    value <- file, since <- mayFind, served <- Served,
    outcome <- [u \in Updates |-> OutcomeOf(upc[u])], Nothing <- Torn

\* The file is a register (Register): whole even after a loss of power,
\* changed by the rename and by nothing else, and outside the store's lock
\* what the daemon goes by: "A rejected change leaves both the file and the
\* running daemon exactly as they were" (settings.go:382).
Atomic == Promise!Spec

\* What that comes to for the file and who goes by it.
Whole ==
    /\ file # Torn
    /\ up /\ lock = Seed => file = cur
    /\ \A u \in Updates : upc[u] = "rejected" => u \notin {file, cur}

\* No change is lost on its way to the scheduler: as long as it goes by other
\* settings than the store's, it is about to look, or there is something in
\* its channel, or somebody is about to put it there.
Heard ==
    looked # cur =>
        \/ ~up \/ note \/ spc \in {"starting", "looking", "left"}
        \/ \E u \in Updates : upc[u] = "published"
=============================================================================
