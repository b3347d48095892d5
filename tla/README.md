# Verification of better-amp-backup

TLA+ models of the backup daemon for AMP game servers, model-checked with TLC,
and theorems about them proved with TLAPS. Paths below are relative to the
repository; `internal/` is left out where it is obvious (`backup/backup.go` is
`internal/backup/backup.go`).

Contents: [the system](#the-system-and-its-parts),
[what is hard](#what-is-hard-about-it),
[plan](#plan), [modules](#modules), [runs](#runs),
[findings](#findings), [observations](#observations), [proofs](#proofs),
[what is not modelled](#what-is-not-modelled).

## The system and its parts

One daemon (`amp-bb serve`) backs up one AMP instance, a directory that a
Minecraft server writes to, into a content-addressed repository. It is driven
by a scheduler and by a page inside the AMP panel; the same operations exist on
the command line, as processes of their own.

| Part | State | Operations | Talks to |
|---|---|---|---|
| backup (`backup`) | one run: its context, the entries read so far | `Run`: scan, cold files, quiesce, hot files, release, commit | quiesce, repo, scan, exclude |
| quiesce (`quiesce`) | `Console`: `held`, `skipped`, the watchdog | `Quiesce`, `Release`, watchdog fires | AMP client, the game server |
| repository (`repo`) | `objects/`, `snapshots/`, `.trash/`, two lock files | put, commit, abort, forget, unforget, prune, check, retention | backup, ops, web, the command line |
| jobs (`jobs`) | the slot, history, event ring, watchers | submit, cancel, shutdown, publish, subscribe | web, schedule, ops |
| event stream (`web/events.go`, `assets/Plugin.js`) | a connection, the page's last id and job | connect, receive, reconnect, poll | jobs |
| schedule, state (`schedule`, `state`) | next fires, last fire, last runs on disk | fire, recompute, refresh, record | settings, jobs, repo |
| settings (`settings`, `atomicfile`) | the settings file, the current version, subscribers | open, update, subscribe | web, schedule, ops |
| ops (`ops`), restore (`restore`) | one operation | backup, restore with safety snapshot, housekeeping, previews | all of the above |
| scan, exclude | the rules | walk, match | backup, ops |
| snapshot trees (`snaptree`) | the cache of trees, one build per entry | get, build, invalidate, evict | web, repo |
| totals (`web.statsCache`) | a value, its age, whether a walk is under way | get, refresh, invalidate | web, repo |
| auth (`auth`, `web.guard`) | sessions in memory, the browser's cookie and tokens | exchange, look up, revoke, expire | web, AMP |
| hash, compress, format | none | pure functions | backup, restore |
| AMP client (`amp`) | one session, shared by all callers | call, log in again, drop a refused session | quiesce, ops, web |
| command line, deployment (`cli`, `deploy`) | none | serve, backup, restore, prune ... | everything |

How they interact. A web handler or the scheduler *submits* a body to
`jobs.Runner`; the body runs in its own goroutine, holds the single slot and
reports by events, which a page receives over a stream, with polling beside
it. The body is one of ops' operations. A backup asks the console to hold the
game, reads, lets go, and publishes a snapshot by renaming two files. A restore
asks AMP whether the game is stopped, takes a snapshot, and writes into the
instance. Housekeeping checks, moves snapshots to the trash by a policy and
prunes. Forget and unforget are done by the handlers themselves, outside the
slot. Settings are saved by a handler, which notifies the scheduler through a
channel of capacity one. Everything on disk is replaced by rename; locks are
`flock`s and die with the process.

## What is hard about it

* **quiesce**: the duty to send `save-on` passes between the run and a
  watchdog goroutine; every console call may be lost or answered too late; the
  game may restart on its own; the process may die; the context may be done
  already when the duty falls due. Right means: while hot files are read saving
  is off, it was flushed, and afterwards saving is on again, or somebody is
  told.
* **repository**: a snapshot is two files and many objects, and nothing but
  order keeps them together. Backup, forget, unforget and prune interleave or
  die between any two renames. Right means: what is listed is whole, what is in
  the trash can come back, garbage goes away.
* **jobs and page**: cancel, completion, panic and shutdown race for one slot;
  the ring and the channels are finite and the connection drops. Right means:
  a cancel that was accepted decides the outcome, shutdown leaves nothing
  running, and the page shows what is true.
* **schedule**: next times are derived from disk, clock and settings, and
  these change while the loop sleeps, jitters, or is down. Right means: no
  backup loops, no backup slept over, housekeeping done or accounted for.
* **capture**: files change between the walk and the read, and during the
  read. Right means: a complete snapshot has what was really there.
* **ops**: long operations rely on answers that were true a while ago, and
  each undoes parts of the others: retention deletes what a restore relies on.
  Right means: whatever a restore replaced can be had back.
* **AMP client**: one session for goroutines that renew, drop and use it at the
  same time, and a second try after a refusal. Right means: no call is carried
  out twice, and a caller does not see that a session went stale.
* **trees, totals**: answers that are expensive and therefore shared and kept,
  while requests are given up and the repository changes. Right means: a failure
  is not kept, the sums are right, a page does not go back in time and gets to
  what is true.
* **settings, auth**: a file that has to survive a crash and a loss of power, a
  scheduler that is told without waiting for it, a browser with one cookie and
  several tabs. Right means: the file is whole and is what the daemon goes by,
  nobody misses a change, and it is filed under the right name.
* **selection, exclusion, retention**: pure decisions, with the order of the
  paths, the order of the rules and the boundaries of the buckets as traps.

`PROJECT.json` lists each hazard at its line with the properties that would
notice it going wrong.

## Plan

In order of importance; all of it is done, and every safety property is proved.
What only TLC checks is liveness.

1. `Quiesce`, implementing `SaveHold`; a run under every fault; all safety
   properties and the refinement proved.
2. `Repository`, implementing `SnapshotLife`; one daemon with its handlers, then what
   may overlap besides; safety and refinement proved.
3. `JobRunner` and `EventStream`, composed by `Panel`; the refinement of the
   runner, the order of what the page is shown and the log on it proved.
4. `Schedule`, with `state` and the settings' notification; all of it proved.
5. `Capture`: the reads of a backup; proved.
6. `Selection`, `Exclude`, `Retention`: what paths and snapshots are chosen.
7. `Ops`, which composes 6 with the operations and their order; proved, with the
   loops of 6.
8. `AmpSession`, the client that the calls of 1 and 7 go through, implementing
   `AmpCall`; proved.
9. `SettingsStore` under `Editor`: the file that 4 goes by, with the loss of power,
   implementing `Register`, and who may change it; proved.
10. `Trees`, `TreeShape`, `Totals`: what the page is shown of a repository;
    proved but for liveness. `Web` has 8 to 10 side by side.

What could follow: restoring modes, times and links, and `Verify`; the jobs that
stop and start the instance as jobs of their own.

## Modules

Every action is one step that nothing can come between: what the code does
under a mutex, one rename, one call with its answer. Each module names the
bounds it needs as constants. An operator called a *variant* ("A variant of
...") is no part of a specification: it is the same operation with a plausible
mistake in it, and the property that would notice is named in `PROJECT.json`.

| Module | Models | State and actions |
|---|---|---|
| `SaveHold` | promise of a quiescer | a hold is free, held, claimed, over; one `save-on` per hold, or death |
| `Quiesce` | `quiesce/console.go`, the phases of `backup.Run` around it | `pc[r]` is where run `r` is between `Start` and `Finish`; `held`, `skipped`, `wd` are Console's fields, `owes` a `Release` that has claimed the hold and not sent yet; `game`, `offBy`, `flushing`, `flushed`, `console` are the game's; `Faults` selects what may go wrong |
| `SnapshotLife` | promise of a repository | a snapshot is none, live, trashed, gone; or torn, and stays so |
| `Repository` | `repo`: put, commit, forget, unforget, prune, locks | `liveM`, `liveI`, `trashM`, `trashI` are the four kinds of files, `objects` and `young` the store and its grace period; `bpc`, `gpc`, `mpc` where a backup, a prune and a move are; one rename, remove or listing per action, `Crash` and failures between any two; `Overlap` selects what may run beside the daemon's slot; `torn` and `raced` remember which snapshots a death left in two places and which moved while a prune listed |
| `JobRunner` | `jobs.Runner` | `current`, `history`, `byID`, `closed` are the runner's fields, `body[j]` the goroutine of job `j`; `Submit`, `File` (the end of `run`), `Cancel`, `BeginShutdown` are what it does under its mutex |
| `EventStream` | `publishLocked`, `Subscribe`, `web/events.go`, the page | `published` is the ring (its last `EventBuffer` events), `chan` the watcher's channel, `lastId`, `view`, `replied` and `appended` the page's (what state it shows, and which lines, from a reply or from the stream); overflow drops the watcher; `poll` is a `refresh()` under way, in four steps: it looks at the page, gets the list, gets the job with its log, and shows them whenever they come |
| `Panel` | both together | every publication is in the step that changes the job; the page connects, loses the connection and polls meanwhile |
| `Schedule` | `schedule.go`, `state.go`, save and notify of settings | `pc` is the loop: asleep, in the jitter before a backup, recomputing; `lastBackup`, `newest`, `cfg` are on disk; `owed` remembers the housekeeping time that came, and whether it was then moved or met the jitter |
| `Capture` | `backup.Run`, `storeFile`, `scan.Walk`, `scan.Unchanged` | a file has a content, size, time and inode; `Stat` walks one file, `Open`, `Put`, `Settled`, `Retry` read one in two halves; `Write`, `Place`, `Remove` are everybody else's |
| `Selection` | `restore/paths.go` | operators, over paths with the order Go sorts them in |
| `Exclude` | `exclude`, `ops.excludeSet`, the pruning of `scan.Walk`, `PreviewExclusions` | operators, over rules as sets of paths |
| `Retention` | `repo/retention.go` | operators: each rule of `Policy.Apply`, and what the rules mean (`ShouldKeep`) |
| `Ops` | `ops`, `restore.Run`, `repo.Check`, handlers | `pc` is the job in the slot; `live` the instance, `snaps` and `trash` the repository, `bad` the state of each content's object; ghosts remember what was taken, replaced and lost |
| `AmpCall` | promise of the AMP client | a call is carried out at most once, its result says whether |
| `AmpSession` | `amp/client.go`, AMP as `amp/fake` has it | `session` is the client's, `pc[c]` and `mine[c]` where call `c` is and what session it uses; `Read` to `Reread` are `sessionOrLogin`, `Post`, `Receive`, `Clear` the two tries of `Call`; `Handle` and `Expire` are AMP's. `blamed` and `spoilt` remember whom to blame |
| `Register` | promise of the settings' store | a change is open, made, refused, or unknown once its maker died; a reader waits or gets what is on disk |
| `SettingsStore` | `settings.Store`, `atomicfile.Write`, `Scheduler.Run`'s subscription | `file`, `synced`, `mayFind` are the disk, `upc[u]` where the `Update` `u` is, `note` the channel; `Crash`, `PowerLoss`, `WriteBack` |
| `Editor` | `auth.Store`, `web.guard`, exchange and `handlePutSettings`, the tabs of a browser | `alive` are the sessions, `cookie` the browser's, `csrf[t]` a tab's token, `request[u]` a PUT under way; extends `SettingsStore` |
| `Trees` | `snaptree.Cache` | `cache` has the entries, named by who created them, `once` and `built` each entry's build; `Get`, `Enter`, `Build`, `Return`, `Invalidate` are the stages of a request |
| `TreeShape` | `snaptree.Build` | `byPath` and `children` are the tree's, read entry by entry (`add`, with the one parent that `ensureDir` invents) and summed (`rollUp`) |
| `Totals` | `web.statsCache` | `value`, `at`, `loading` are its fields; a walk is paid for by a poll (`Pay`, `Paid`) or done in a goroutine (`Refreshed`); a poll is given totals (`given`, `reply`) and arrives on the page later, or never |
| `Web` | the parts of `web.Deps` with a state of their own | the five above side by side; one `part` moves per behaviour, since they share nothing |
| `MC...` | instances for TLC | values of the constants |
| `..._proofs` | theorems | |

Composition: `Panel` = `JobRunner` + `EventStream`; `Ops` uses `Retention`,
`Selection` and `Exclude`, and takes from `JobRunner` that jobs come one at a
time, from `Repository` that what is listed is there, from `Capture` that a
backup is a snapshot of one moment, whole or partial. `Web` is five instances
that share no variable: a behaviour exercises one of them, for any interleaving
of theirs, seen from one part, is that part's behaviour with stuttering. What
they share with other modules is said there: the calls of `Quiesce` are `AmpCall`'s,
the settings' channel is in `SettingsStore` (down to the disk) and in `Schedule`
(down to the timer). `Quiesce` and `Capture` are two views of one `backup.Run`:
in `Quiesce` the reads are one step, in `Capture` the hold is.

Abstractions common to all: file contents, paths and snapshot ids are values or
small numbers; hashing and compression are left out (an object either is what
its name says or is not); time is a counter, calendar buckets are spans of fixed
length; replacing a file by rename is one step, except in `SettingsStore`, where
it is taken apart.

## Runs

"States" are distinct states found.

| Run | Asks | Instance and bounds | Result |
|---|---|---|---|
| `Quiesce_faults` | What may a run rely on under every fault, does Console keep SaveHold's promise, and does a wedged run keep the server from saving for ever? | two runs, one after the other; lost calls, lost replies, cancel, panic, crash and restart, a restarting game; fairness | passes, 2.0 million states |
| `Quiesce_cancel` | Does a cancelled run turn saving on again? | one run, only cancel | violated, see below |
| `Quiesce_restart` | Does a restarted process turn saving on that a dead one left off? | two runs, only crash | violated |
| `Repository_daemon` | Is what is listed, and what is in the trash, always whole; does garbage go? | one object, two snapshots, crashes and failures between any two renames, jobs longer than the grace period, handlers beside a prune | passes, 1.05 million states |
| `Repository_handlers` | Does the trash count as reachable for a prune that lists while a handler moves a snapshot? | one object, two snapshots | violated |
| `Panel_jobs` | Do cancel, shutdown, history and the page keep what they promise? | two jobs, history of one, ring of three, channel of two, five events, one poll at a time | passes, 634 thousand states |
| `Schedule_clock` | Do scheduled backups keep their distance and come in time; is housekeeping accounted for? | seven ticks, a day of four, three settings, restarts anywhere | passes |
| `Capture_live` | Does a complete snapshot hold what was really there? | one cold and one hot file, two runs, three writes, two attempts per file | passes |
| `Ops_jobs` | Can one get back what a restore replaced; does a restore do what was asked, and only that; does retention keep what it should? | a directory with a file and a sibling that sorts between them, four snapshots, two mishaps, one restore, two policies | passes, 2.7 million states |
| `Web_parts` | Do the parts of the web server keep what they promise? | three requests, two snapshots and two trees; four files, with directories the index may leave out; one page with two polls, three versions; three calls, two sessions; two changes, two tabs, two sign-ins | passes, 471 thousand states |
| `Ops_selection` | Does a restore that reports success put back what was ticked? | one snapshot, one restore | violated |
| `Ops_exclusion` | Does a backup hold what a later rule keeps? | two snapshots | violated |

### What the properties say

* **Quiesce.** `HotSheltered`: while hot files are read the run's own save-off is in
  force. `HotFlushed`: a flush came first. `NeverSilent`: a run that comes to its end
  does not leave its save-off in force with nobody told. Of a run the process died over
  it says nothing: nobody is left to tell, and that the next start makes up for it is
  `StartRestoresSaving`, which is refuted (`Quiesce_restart`). `NoStrayTimer`: a
  watchdog does not outlive its run. `ClaimedOnce`: refinement of `SaveHold`, so
  `save-on` is sent once. `Rescued` (liveness): a hold ends or is complained of. The
  exceptions in `Undone` and `sawStale` are the code's own: the game may restart, a
  watchdog may fire, and a line printed before may be taken for the confirmation of the
  flush.
* **Repository.** `NoDangling`: what is listed is all there. `TrashIsRecoverable`:
  so is what is in the trash. `DeletesOnlyGarbage`: a prune deletes nothing that a
  listed snapshot names. `LivesOn`: refinement of `SnapshotLife`. `Collected`
  (liveness): garbage goes. The exceptions are the code's own, and named: `torn` are
  the snapshots whose two files a death or a failed rename left in two places (a
  later prune may find such a one in neither of its lists), with those a backup built
  on them; `raced` those that a handler moved while a prune listed. The properties
  say that no other snapshot pays for it; `DeletesOnlyGarbage` that even a torn one is
  spared while it is listed. A handler beside the mark or the sweep needs no
  exception. What the exceptions cost is `SparesReachable`, which is refuted
  (`Repository_handlers`).
* **Panel.** `CancelHonoured`, `Findable`, `QuietAfterShutdown`; `Seamless` on what
  the stream brings: nothing twice, nothing out of order, and nothing left out that
  was still in the ring; `LinesKept` on the log on screen, which the stream adds to and
  a reply of `refresh()` replaces: of the job that runs, no line that the page has come
  past is missing, unless the ring lost it, a reset skipped it or a reply took it off
  (`missing`); `CancelUnwinds`, `ShutdownReturns`, `PageCatchesUp` (liveness; `misled`
  is a page that had a reset, or a reply older than what the stream had shown).
* **Schedule.** `Spaced` (an action property: when a backup may fire), `Prompt`
  (a due backup is not slept over), `Accounted` (housekeeping that fell due
  while the loop slept is submitted or its skip recorded, unless somebody saved the
  settings or otherwise had the times worked out anew before the timer was served; and
  whenever the loop sleeps it waits for the next time of day there is, so that a pass
  that is lost is one pass).
* **Capture.** `Faithful`, `AsFlushed`, `NothingLeftOut`, `ReserveKept`.
* **Ops.** `Recoverable`, `NothingElse`, `Restored`,
  `DecidesRight` (every rule of the policy against its meaning), `Covered`
  (over all passes: a snapshot in every recent bucket).
* **Web.** `CallKept`: refinement of `AmpCall`. `Unseen`: a permitted call is
  refused only if two sessions were lost under it. `Atomic`: refinement of
  `Register`: a change of the settings is made in one step or not at all, and
  never after it was refused; the file is a whole version even after a loss of
  power; what a reader gets outside the store's lock is what is on disk. `Heard`:
  the scheduler gets to know. `Authored`: a change bears the name of who made it.
  `FailureLeaves`: a failed build does not stay in the cache. `AddsUp`: every node
  is listed where it belongs, and a directory costs what is shown in it, unless the
  index names neither a directory nor the one above it (`NoneInARow`).
  `NeverBackwards`: neither the cache nor what one request after the other is given
  goes back; what a page shows may, for a moment, since the replies overtake each
  other. `Settles` (liveness): in the end it shows what is true.

Each module has one type invariant beside these. It is proved for every value of
the constants (`Typed` in each module of proofs) and so is in no run. `PROJECT.json`
names for each property a mistake in the code that breaks it; TLC finds every
one.

### Bounds, and why they are enough

* Two runs of `Quiesce`: what one leaves behind (a timer, a save-off, a line in
  the console) meets the next one; a third would meet nothing new. The proofs
  hold for any set of runs.
* Two snapshots of `Repository`: a parent and a child. One object is enough, because
  no step looks at an object to decide what to do next but with the others
  (listing, marking, sweeping, deleting go object by object, and `doomed` is empty when
  each is done): what a run does to one of many is a run with that one, in which a
  snapshot names it or not. The proofs hold for any number of both.
* `Panel`: the ring and the channel are smaller than what is published, so that
  events fall out, watchers overflow and ids are too old; a history of one makes
  two jobs push each other out. One poll is late over any stretch of the stream; two
  polls can do no more to the page than the last of them to show.
* `Schedule`: the horizon is almost two days of four ticks, so housekeeping
  comes twice; the longest interval fires twice. The longest sleep is as long as an
  interval (in the code it is far shorter), so the timer itself has to be right.
* `Capture`: three writes are a content before the first run, one between the
  walk and the read, and one in the middle of the read; two ticks tell a fresh
  time from a stale one.
* `Ops`: three paths are the smallest case where sorting separates a directory
  from its content. Four snapshots fill and overflow buckets of two and three.
  Two mishaps are, say, a change of a file and a forgotten or broken snapshot.
  The policy does not change within a behaviour.
* `Web`: three requests are the one that builds, one that waits for it, and one
  that comes after; two snapshots (one too large) fill a cache of two. The files
  have parents the index names, or not, two levels deep, in every combination. Two polls
  of a page overtake each other. Three versions are a walk
  overtaken by a change and by an invalidate. Two sessions and three calls (one
  permitted, one not, one on a borrowed session) let one call drop the session of
  another; two sign-ins overwrite the cookie.

Bounds that are no bound of the code are constants named `Max...`; the proofs hold
for every value of them.

Deadlock is checked where the system never stops (`Quiesce_faults`, `Quiesce_restart`,
`Repository_daemon`, `Repository_handlers`); elsewhere the clock or the number of jobs
runs out by a bound.

### Fairness

* `Quiesce` (`FairSpec`): the watchdog's timer and its send are in a goroutine
  of their own with a bound of 30 s, and the tail of `Release` consists of calls
  the AMP client bounds. The run itself gets none: a wedged run is the point.
* `Repository` (`FairSpec`): jobs run to an end, prunes are started again (the
  daily housekeeping), time passes. Strong fairness for starting a prune, since
  moves may compete for the lock for ever. `Collected` assumes in addition that
  prunes stop failing.
* `Panel` (`PanelSpec`): a body returns once its context is done, which every long loop
  of it checks; goroutines are scheduled; `EventSource` reconnects; what is in the
  channel is delivered (strong, since a connection may be lost in between); the page
  polls, and not all of its requests fail (strong, of the reply). A body that is not
  cancelled need not return, and nobody need press a button.
* `Web` (`Fairness`, for `Settles` only): an open overview polls, and its replies do
  not all get lost (strong); a walk ends, if
  only by its timeout (weak), and does not end in an error every time (strong, of
  the successful end); a minute passes; a job goes on from its change to its
  `invalidate`.

## Findings

Behaviours of the code that a comment or document of the repository rules out.
Each has a run in which TLC shows it.

1. **A cancelled backup leaves saving off** (`Quiesce_cancel`).
   `backup.Run` calls `Release` with the job's own context (`backup.go:171`);
   after a cancel or at a shutdown that is done, and `Release` passes it to the
   `save-on` message (`console.go:225`), which is not sent. The watchdog is stood
   down by the same `Release`. `cli/serve.go:217` expects the opposite.
2. **A restart leaves saving off** (`Quiesce_restart`). `README.md:50-53` says of
   `save-on` that it "is sent again on daemon startup", and so does `console.go:277-279`.
   `EnsureSaveOn` (`console.go:280`) has no caller outside its test.
3. **A prune can miss a snapshot that is being moved** (`Repository_handlers`).
   Forget and Unforget run in a web handler (`web/api.go:635-653`), outside the slot and
   without a lock, and rename the manifest first. A prune that lists manifests in
   `snapshots/` and indexes in `.trash/` (`gc.go:147-155`) between the two renames finds the
   snapshot in neither, and deletes what it needs; `gc.go:153-154` counts the trash as
   reachable "so that Unforget stays possible".
4. **A restore can leave out what was ticked** (`Ops_selection`). With
   `mods` and `mods-old` ticked, `keep` (`paths.go:105`) finds `mods-old` for
   everything in `mods/`, since `-` sorts before `/`, and drops it; the restore
   reports success. The same neighbour defeats the prefix-free pass in
   `newSelection`.
5. **"Exclude a directory but keep one file inside it" keeps nothing**
   (`Ops_exclusion`). The walk does not enter an excluded directory
   (`scan.go:161-168`), so the rule that keeps a file is not asked; the preview, which
   asks entry by entry, says the file is kept.

## Observations

Met while modelling; the models contain them, or name them as exceptions, but no
run of its own shows them.

* Quiesce: a reply to `save-off` that is lost makes `Quiesce` fail
  with the command in force (the error then is the only sign). A watchdog's failing
  `save-on` is logged, and the run may still succeed. `waitForFlush` accepts a
  line printed before the flush was asked for. `SkipIfStopped` skips in every
  state but Ready.
* Repository: `amp-bb prune` in a process of its own beside the daemon (`Overlap =
  {"processes"}`) breaks `NoDangling`. A death or a failure between the two files of a
  snapshot (`gc.go:39-47`, `59-69`, `256-271`) leaves it torn: with the manifest in the
  trash and the index in `snapshots/` it is in neither of a prune's lists, so the prune
  takes its objects and Unforget then lists a snapshot without them; with the manifest
  listed and the index in the trash every prune fails until somebody repeats the
  Unforget, or the trash is emptied and the index goes; with only the manifest left in
  the trash, Unforget succeeds and lists a snapshot without an index. `gc.go:22-23`
  promises that what was forgotten can be put back until the next prune. An index
  without a manifest is never removed, although `snapshotwriter.go:76-78` says it "gets
  cleaned up".
* Jobs and page: a page further behind than the ring is not told to start over
  (`docs/web.md:192-194`), it gets what is left; a reset is sent on overflow only,
  and `Plugin.js` ignores it. `refresh()` looks at the page, awaits two replies and shows
  them over whatever the stream has brought since (`Plugin.js:945-950`): a late reply can
  put a job that has ended back to running, until the next job's first event, and a
  line that it holds can be appended a second time by the stream's replay from 0. A
  connection refused with 401 after the session expired, or after a restart of the
  daemon, is not opened again.
* Schedule: a housekeeping time that comes during the jitter before a backup (`owed =
  "delayed"`), or whose times are worked out anew before the timer is served, as every
  save does (`"moved"`), is moved to the next day without a pass or a recorded skip,
  although a skip is what `state.go:57-60` is there to record. A daemon that dies in a
  backup before it is recorded has it due again a grace period after every start.
  Housekeeping that fell due while the daemon was down is not caught up.
* Capture: whether a hot file has changed is judged by the stat of the walk, taken
  before the game was told to flush (`backup.go:292`, and `backup.go:6-8` says so). A file
  the flush is the first to write is carried over from the parent, beside others as
  flushed. Two writes within one tick of the file system's clock that leave the
  size alone cannot be told apart (`blurred`); the second stat of a file does
  not compare the inode; a file that only the flush creates is not in the
  snapshot.
* Exclude: the package comment (`glob.go:3-7`) puts the operator's rules last,
  `excludeSet` puts AMP's (`ops.go:148-168`); the preview leaves AMP's out. A line of
  the root's `.backupExclude` that begins with `!` is passed on as it is
  (`ampexclude.go:59-60`) and becomes a rule that keeps (`glob.go:66-68`), over the
  operator's rules. A name in the root's `.backupExclude` matches at any depth, and a
  directory's name is put before its rules unquoted, so brackets in it become a class.
* Restore: a directory is made with its mode or'ed with 0700 and masked by the umask,
  and left as it is if it was there; nothing sets its mode later, so `Verify` may
  report a difference right after a restore that succeeded. A file where the snapshot
  has a directory, or the reverse, ends a restore into the instance half-way.
* Ops: a restore takes no lock of the repository and does not remove files the
  snapshot lacks. Files the rules exclude are overwritten by a restore of an older
  snapshot and are not in the one taken before (`docs/web.md:162-164`); the game may be
  started from the panel after the check. Retention counts partial snapshots like
  complete ones and mixes all instances of a repository.
* Trees: the cache makes room before it looks up, so at its limit a hit may evict
  the wanted tree, or one that is being built, and the tree is built again: two
  tabs opening the same snapshot may scan twice (`snaptree.go:302-303` says they must
  not), and `MaxTrees` holds one tree less for those who come back. `Invalidate` goes
  by name and may drop a newer entry. Who waits for a tree inherits the cancelled
  context of who asked first. The tree of a forgotten snapshot is served until it
  is idle.
* Tree shape: `ensureDir` invents the missing parent of an entry; appending that to its own
  parent's list makes the list, so that the loop ends there (`snaptree.go:209`, `217`). Of
  an index that names `a/b/c` alone, `a` is in no listing and has no node. The
  comment (`snaptree.go:202-206`) speaks of such indexes, and today's walk writes none.
* Totals: a first walk that fails is reported with an age of zero
  (`web/api.go:786`), and a page that asks during the first walk gets an age counted
  from the zero time. Changes by the scheduler's jobs, forget and unforget do not
  invalidate; they are seen a minute later.
* Settings: a PUT replaces whole sections, so of two pages that save the same one
  the later wins without a word; `Update` compares no version. A daemon that dies while it
  writes leaves a temporary file that nobody removes. A PUT that has saved while the
  scheduler unsubscribes sends on a channel that is closed by then
  (`settings.go:410-436`) and panics: `"panicked"` in the model, where the change counts.
* Sessions: a second sign-in in the browser makes the first tab's changes fail
  with 403 until it is loaded anew. A late 401 takes the cookie of the newer session
  with it. `Sweep` has no caller, so sessions that expired stay until somebody
  presents them.
* AMP client: a request that its caller has given up on may still be carried out
  (`AmpSession`); `Quiesce` takes a call to be over at AMP when its answer is lost.
  A call of a method that the account may not use throws away a session that
  everybody else could use.

## Proofs

`tlapm` checks all of them. They hold for every value of the constants that
satisfies the named assumptions of the modules, and no others are made.

**`Quiesce_proofs`** (any set of runs, any faults): `Typed`, `Shelter`,
`Flush`, `Loud`, `TimerEnds`, and `Implements` (Console keeps SaveHold's
promise). The properties are not inductive: that hot files are sheltered, for
one, says nothing of the steps that lead to the hot phase. The invariant that
is, `IInv`, adds

* `OneActive`: the slot, one run at a time;
* `OneOwner`: the duty to send `save-on` has one owner, `held` (nobody has
  claimed it), `owes` (a `Release`) or a watchdog that is sending, and until then
  nothing was sent;
* `Fresh` and `Released`: what a run has not done yet, and what `Release` leaves
  behind it;
* `Accounted`: a save-off in force has an owner, an alarm or an error;
* `Sheltered` and `Confirmed`: what each phase knows of the game, from the
  status check on.

Each part has a lemma with a step for every action. `Implements` maps the fields
of Console to the state of the hold (`HoldOf`); every step of `Quiesce` is a
step of `SaveHold` or leaves the hold alone.

**`Repository_proofs`** (any objects, any snapshot ids, any deaths and failures):
`Typed` whatever overlaps; `OnlyGarbage` (`DeletesOnlyGarbage`), `NothingMissing`
(`NoDangling`), `Indexed` (`ManifestHasIndex`, in no run), `Recoverable`
(`TrashIsRecoverable`) and `Implements` (refinement of `SnapshotLife`) in one
daemon. That (`Daemon`) is the only hypothesis, no process of its own beside it: handlers beside a prune, jobs longer than
the grace period and a death between any two renames are all in. What they do break is
excepted by name in the properties, snapshot by snapshot (`torn`, `raced`; `Exposed` in
the model), so what the theorems say is that nothing else is broken with it. `IInv`:
`PruneAlone` (no backup beside a prune), `Older` (what is known was published before
what is being written), `Moved` (a move that meets a prune's lists is accounted for),
`LiveCovered` and `TrashCovered` (what a prune has marked or still has to mark covers
what is listed, and what is in the trash unless that was emptied), `Emptied` (what of
the trash is still to go), `Placed` (both files of a snapshot are in one place, or
between two with the move or the emptying that has them under way: `MidMove`,
`MidPurge`), `Stored` (nothing named is missing, the running backup's own entries
included). That a death tears at most one snapshot is part of the refinement:
`OneIsHalfDone` (at most one is between its two places) and `LeavesOne`, so that what
`Crash` does is one `Tear` of `SnapshotLife`.

**`Panel_proofs`** (any number of jobs, any length of the history, any ring and
channel): `Bystander`, the runner with its stream and page implements the runner
alone; and from the runner's invariant `Honoured` (`CancelHonoured`), `Found`
(`Findable`) and `Quiet` (`QuietAfterShutdown`). The invariant: `Slot` (ids are given
out in order and the job in the slot is the last), `Cancelled` (an accepted cancel
has reached the context, so that the outcome cannot be another), `Closed`,
`Gapless` (the history is the last jobs that were filed, one id after the other;
`Findable` needs it to know that a recent job is in it), `Known`. `RememberedOf` is
the lemma about cutting a sequence. For the stream, `Typed` (`PanelTypeOK`) and
`InOrder` (`Seamless`), from an invariant `Flow`: the numbers in the channel go up by
one except after a reset, begin with the one the page expects and end with the
last one published (`Numbered`), and the page is never ahead of them (`Progress`).
From it and `Kept` (`Truthful`: what is in the channel is what was published;
`Accounted`: what the page has come past is on screen or in `missing`) follows
`LogOnScreen` (`LinesKept`), with polls that may look, ask and answer at any time.
`Replay` is written in closed form, so that `ReplayIs` can say what a page that
connects is given without induction.

**`Schedule_proofs`** (any length of the day, any settings, any horizon): `Typed`,
`NotSleptOver` (`Prompt`), `NotForgotten` (`Accounted`), `Apart` (`Spaced`). About a
third of it is arithmetic: what `Recompute` and the timer come to, with `%` reduced to
"two times of the same day of phase are a day apart" (`DayApart`). The invariant:
`Order` (jobs are filed in the order in which they began), `BackupTimer` and
`HouseTimer` (an undisturbed loop sleeps no longer than until the next of each kind),
`OnItsWay` (where a housekeeping that fell due while the loop slept can be, as long as
nobody had the times worked out anew: `Accounted` excepts no other), `Distance` (a time
for a backup keeps its distance from all that is known).

**`Capture_proofs`** (any files, sizes, number of attempts): `Typed`, `FlushedIsListed`
(`AsFlushed`), `NoneMissing` (`NothingLeftOut`), `ListedIsReal` (`Faithful`),
`ReserveIsKept` (`ReserveKept`). The first invariant, `IInv`: `Reading` (the file that is
open is one the phase has to do), `HotLater` (no hot file is listed before the hot
phase), `Still` (while the game is held its files, and what has been read of the open
one, are as they were when that began), `Flushed` (so are the entries), `There`,
`Found` and `Listed` (a file that was there all the time is in the walk's list, then
in the entries, or there is a warning).

`Faithful` is about entries that may have been carried over from run to run, so what
has to be invariant is what an old entry is still good for. `JInv` adds `Clock` (no
stat is ahead of the clock, and while a file keeps its inode its time does not go
back), `Told` (where inode and time of an entry or a parent's entry still agree with
the file, its content does as well, unless a write in `blurred` hides there), `Vouch`
(so an entry that the stat difference will accept is good for a content the file had
during this run), `Half` (the same of the two halves read so far), `SoFar` (`Faithful`
of the list as it grows), and `Same` for the reserve (a file nobody wrote to since
the walk is as the walk saw it). `ReserveKept` follows from an invariant `Room` of the
plan: what is stored, what is still to come and the reserve fit on the disk.

**`Ops_proofs`** (any paths, rules, policies, any number of events): `Typed`,
`NothingIsLost` (`Recoverable`), from `IInv`: `Halted`,
`Past` (snapshots are in the past, each at its own time), `Knows`, `Saved` (what a
restore has yet to replace is in the snapshot taken before it), `Noted` (so is what
it has replaced), `Stay` (retention keeps such snapshots).

`JInv` adds `Alone` (no two snapshots of one time), `Doing` (what a restore has still
to write belongs to its selection, and the rest of that has landed), `NothingElse` and
`Covered` themselves, which are inductive with these. From it `NothingElseHappens`
(`NothingElse`), `SuccessIsComplete` (`Restored`), `RetentionDecidesRight`
(`DecidesRight`) and `RetentionCovers` (`Covered`). These rest on what loops compute:

* The selection: `LastKeptIs` says what the loop over the sorted paths has kept after
  i of them, `SelectedIs` that this is what is selected,
  `KeptIsMeant` and `MeantIsKept` that what is kept is what was meant. The second
  needs that nothing is `Muddled`; the run `Ops_selection` is the counterexample
  without.
* The policy: `HeadsAre` (a bucket's newest, of the latest n buckets), `RescuedAre` (what
  the floor adds), `WantedAre` and `ApplyIs` (`Apply` is `ShouldKeep`), `KeepsAgain` (a
  second pass at the same time lets nothing go). Both loops are instances of one, which
  `Gathers` describes: it gathers keys until there are enough. `LatestIsKept`,
  `FloorIsKept` and `LatestShrinks` carry `Covered` over a pass.
* The rules: `PreviewIsLeftOut` (what the preview counts as left out, no backup with
  these rules stores, provided no line of AMP's lists begins with `!`) and
  `PreviewIsExact` (it is all that is left out, if no rule keeps and AMP has no lists;
  `Ops_exclusion` is the counterexample with a rule that keeps). Both are about the
  operators, and in no run.

**Loops.** `Ops`' and `Capture`'s loops are written as recursive functions of the index
or, when only the total matters, as the number of things counted (a sum of sizes is a
number of bytes). What such a function comes to is proved by the least index at which
it would be something else (`Least`, `Rounds`, `LoopIs` in `Ops_proofs`), since the
library's induction theorems cannot be used here. `Parts` in `Web_proofs` adds up what
is in the parts of a finite set by one bijection, with no induction.

**`Settings_proofs`** (any number of changes, tabs, sessions): `Typed`,
`StoreIsARegister` (`Atomic`), `ChangeIsHeard` (`Heard`), `ChangeIsAuthored`
(`Authored`), and `FileIsWhole` (that there never is a torn or a refused version to be
found, which is in no run). For `Register`, the value is `file`, what a loss of power
may go back to is `mayFind`, a reader is served `cur` unless the lock is held
(`Served`), and the outcome of a change is read off its `upc` (`OutcomeOf`): it is made
when the rename is, so the steps before and after it are a stutter or a `Take` and a
`Give`. The invariant of the store: `Safe` (what may be found after a loss of power was
synced), `LockHeld`, `Ready`, `InForce` (file and daemon differ between rename and
publish only), `Unmade` (a change that was not made is nowhere), `Watching`. Of the
tabs: `OwnToken`, a tab holds and sends the token of a session that is its own, whatever
the cookie is.

**`Web_proofs`** (any pages, requests, snapshots, indexes, calls, sessions): `Typed`;
`TotalsGoOn` (`NeverBackwards`), since there is one walk at a time (`OneWalk`) and it
began no earlier than what is there (`Ordered`); `FailureIsDropped` (`FailureLeaves`) and
`CacheIsBounded` (the cache keeps its limit and has one tree per snapshot, which is in
no run); `TreeAddsUp` (`AddsUp`); `ClientKeepsAmpCall` (`CallKept`), from `Answered`;
`StaleIsUnseen` (`Unseen`).

For `AddsUp` the invariant is `ShapeInv`: `Listed` (the directories are the root and the
nodes that are directories, each is there before what is in it and lists that once),
`Waiting` (what is still in the index is not in the tree: this is why an entry is never
hung a second time after it was invented as a parent) and `Rolled`. The totals of a
directory are those of all files below it, wherever they are; that they are also the
sums over its own nodes takes `FirstStep` (the way down to a file begins with one of
them), `OneWay` (with one only) and `Parts`. Below are lemmas on paths as sequences
(`AboveIs`, `ParentIs`, `Chain`, `ParentIsLast`).

`StaleIsUnseen` is the longest: `BlamedInv` says what a call has failed by at each of its
steps, `SessionsInv` that a session that was given and not stored is nobody's yet
and that the one dropped last is not in use, and each of the client's steps has a
lemma that it leaves `BlamedInv` true of the call that moves, and one
(`StandingStill`) of the others.

The assumptions are those the modules name: finite sets of ids, files and requests,
bounds that are natural numbers, files that are not empty (`Capture`); of paths, that an
ancestor is a prefix and so sorts first (`Ops`), and that there is nothing in a file
(`TreeShape`); of policies, that Validate has accepted them and that their numbers are
integers. TLC evaluates each in a run.

**Only model-checked.** Everything temporal beyond safety (`Rescued`, `Collected`,
`CancelUnwinds`, `ShutdownReturns`, `PageCatchesUp`, `Settles`): liveness under fairness
is out of the prover's reach. What the five runs with a violation show is a
counterexample, and needs no proof.

## What is not modelled

* Paging and searching in a finished tree (`List`, `Stat`, `Search`): they change
  nothing.
* `auth`: which capabilities a session gets, how a name is made harmless. `Sweep`.
* The AMP client's methods beyond the two tries they share: which parameters
  they send and how an answer is decoded. A caller that cancels is the lost answer.
* Settings: what `Validate` accepts (a choice between yes and no in the model), and
  the section about the instance, which the command line imposes.
* The jobs that stop and start the instance (`controlInstance`): they keep no state
  of the program. To the runner they are jobs like any other (`JobRunner`), their
  calls are those of a borrowed client (`AmpSession`), and what comes of them is the
  game that starts and stops by itself in `Ops` and `Quiesce`. `web/ampschedule.go`
  reads AMP's own schedule for a banner.
* `Check` with `ReadData`, and the report of a check: they change nothing.
* The log of a job beyond its lines' order: that only the last 2000 are kept
  (`jobs.go:102`).
* A login that AMP refuses with the HTTP status 401 or 403. The client takes it for a
  session that has expired (`client.go:169-171`, `287-288`); by the comment there
  (`client.go:152-153`) AMP reports a failed login in the answer, by leaving the session
  out, and not by the status.
* How a glob becomes an expression, how paths are cleaned and compared: a rule
  is the set of paths it matches, and the order of paths is given.
* Restoring modes, times and symbolic links, and `Verify`: one pass after the other
  over a sorted list, with nothing between them. What a failure half-way leaves is in
  `Ops` (`JobEnds` may come at any step).
* The encodings of index and manifest, hashing, compression: pure. What a loss of
  power leaves of the repository's files (only the settings' file is taken down to
  the system calls).
* Calendar arithmetic: days, weeks, months and time zones; buckets have one
  length, a day is a number of ticks.
* The command line beyond what it starts, `doctor`, installation and nginx.
* The page beyond its job view: trees, dialogs, formatting.
