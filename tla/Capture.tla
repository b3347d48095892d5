------------------------------ MODULE Capture ------------------------------
(***************************************************************************)
(* How a backup gets a file's bytes: backup.Run with the walk, the stat    *)
(* difference against the last complete snapshot, the space check, and     *)
(* storeFile with its re-reads, over a directory that a running game, and  *)
(* anybody else with a shell, writes to meanwhile.                         *)
(*                                                                         *)
(* A content is a number, fresh for every write.  A file is read in two    *)
(* halves, so what was read is a pair, and whole if both halves agree.     *)
(* The clock that stamps modification times is coarse: two writes may bear *)
(* the same time.  How the hold on the game comes about is Quiesce's; here *)
(* it is there or not, and while it is there no hot file changes.          *)
(***************************************************************************)
EXTENDS Naturals, FiniteSets

CONSTANTS
    Cold, Hot,      \* the files, by tier
    NoFile,         \* not there
    Sizes,          \* sizes a file may have
    Disk,           \* room for objects
    Reserve,        \* backup.Options.ReserveBytes
    MaxRereads,     \* backup.maxRereads
    MaxWrites,      \* bound on the writes of the environment
    MaxTime,        \* bound on the clock
    MaxRuns         \* bound on the backups

Files == Cold \cup Hot

ASSUME TiersAssumption ==
    Cold \cap Hot = {} /\ NoFile \notin Files /\ IsFiniteSet(Files)
ASSUME BoundsAssumption ==
    /\ Sizes \subseteq Nat \ {0}
    /\ {Disk, Reserve, MaxWrites, MaxTime, MaxRuns} \subseteq Nat
    /\ MaxRereads \in Nat \ {0}

VARIABLES
    \* The directory.
    disk,       \* for each file its content and stat, or NoFile
    now,        \* the clock
    written,    \* contents written so far
    \* The repository.
    store,      \* objects: what was read, and its size
    base,       \* entries of the last complete snapshot
    runs,       \* backups begun
    \* The run.
    pc,         \* "idle", "walk", "plan", "cold", "quiesce", "hot", "commit"
    paranoid,   \* Options.Paranoid
    quiet,      \* the quiescer holds the game, as against NoQuiesce
    held,       \* the game is held
    items,      \* what the walk found
    todo,       \* files the walk or the phase has not come to
    cur,        \* the file storeFile is reading, or NoFile
    attempt,    \* its attempt
    fd,         \* the open file: content now, and what was read
    entries,    \* what the snapshot will list
    warned,     \* the run has a warning
    \* What an observer remembers.
    seen,       \* contents of each file since the run began; 0: not there
    blurred,    \* contents whose time is that of the one before
    atHold      \* the directory when the hold began

dir == <<disk, now, written>>
repository == <<store, base, runs>>
reading == <<cur, attempt, fd>>
run == <<pc, paranoid, quiet, held, items, todo, reading, entries, warned>>
ghosts == <<seen, blurred, atHold>>
vars == <<dir, repository, run, ghosts>>

None == [f \in {} |-> NoFile]
Nowhere == [f \in Files |-> NoFile]
NothingSeen == [f \in Files |-> {}]
NoFd == [data |-> 0, first |-> 0, size |-> 0, put |-> FALSE]
Stats == [data : 1..MaxWrites, size : Sizes, mtime : 0..MaxTime,
          inode : 1..MaxWrites]
ASSUME NoFileAssumption == NoFile \notin Stats
Entries == [data : (1..MaxWrites) \X (1..MaxWrites), size : Sizes,
            mtime : 0..MaxTime, inode : 1..MaxWrites, read : BOOLEAN]

TypeOK ==
    /\ disk \in [Files -> Stats \cup {NoFile}]
    /\ now \in 0..MaxTime
    /\ written \in 0..MaxWrites
    /\ \A o \in store : o \in [parts : (1..MaxWrites) \X (1..MaxWrites),
                               size : Sizes]
    /\ DOMAIN base \subseteq Files
    /\ \A f \in DOMAIN base : base[f] \in Entries
    /\ runs \in 0..MaxRuns
    /\ pc \in {"idle", "walk", "plan", "cold", "quiesce", "hot", "commit"}
    /\ {paranoid, quiet, held, warned} \subseteq BOOLEAN
    /\ DOMAIN items \subseteq Files
    /\ \A f \in DOMAIN items : items[f] \in Stats
    /\ todo \subseteq Files
    /\ cur \in Files \cup {NoFile}
    /\ attempt \in 0..MaxRereads - 1
    /\ fd \in [data : 0..MaxWrites, first : 0..MaxWrites,
               size : Sizes \cup {0}, put : BOOLEAN]
    /\ DOMAIN entries \subseteq DOMAIN items
    /\ \A f \in DOMAIN entries : entries[f] \in Entries
    /\ seen \in [Files -> SUBSET (0..MaxWrites)]
    /\ blurred \subseteq 1..MaxWrites
    /\ atHold \in [Files -> Stats \cup {NoFile}]

Init ==
    /\ disk = Nowhere
    /\ now = 0
    /\ written = 0
    /\ store = {}
    /\ base = None
    /\ runs = 0
    /\ pc = "idle"
    /\ paranoid = FALSE
    /\ quiet = FALSE
    /\ held = FALSE
    /\ items = None
    /\ todo = {}
    /\ cur = NoFile
    /\ attempt = 0
    /\ fd = NoFd
    /\ entries = None
    /\ warned = FALSE
    /\ seen = NothingSeen
    /\ blurred = {}
    /\ atHold = Nowhere

----------------------------------------------------------------------------
(* Helpers.                                                                *)

Plus(g, f, v) == [x \in DOMAIN g \cup {f} |-> IF x = f THEN v ELSE g[x]]

\* The bytes of the things in S, of the given sizes, counted one by one.
Bytes(S, size) == UNION {{x} \X (1..size[x]) : x \in S}
SumOf(S, size) == Cardinality(Bytes(S, size))

\* A variant of Unchanged: without the inode.
UnchangedWithoutInode(prev, it) ==
    prev.size = it.size /\ prev.mtime = it.mtime

\* scan.Unchanged; every entry of a file has a hash, a type and a mode.
Unchanged(prev, it) ==
    /\ prev.size = it.size
    /\ prev.mtime = it.mtime
    /\ prev.inode = it.inode

\* The previous snapshot vouches for the file, which is never opened then.
Vouched(f) ==
    ~paranoid /\ f \in DOMAIN base /\ Unchanged(base[f], items[f])

\* What the run may have to read, and what is left for it.
Needed == SumOf({f \in DOMAIN items : ~Vouched(f)},
                [f \in DOMAIN items |-> items[f].size])
Free == Disk - SumOf(store, [o \in store |-> o.size])

NextPhase(from, next, files) == pc = from /\ pc' = next /\ todo' = files

----------------------------------------------------------------------------
(* The backup.                                                             *)

\* A job takes the slot and the write lock, and begins to walk.
Begin ==
    /\ pc = "idle"
    /\ runs < MaxRuns
    /\ runs' = runs + 1
    /\ pc' = "walk"
    /\ \E p \in BOOLEAN : paranoid' = p
    /\ \E q \in BOOLEAN : quiet' = q
    /\ todo' = Files
    /\ seen' = [f \in Files |-> IF disk[f] = NoFile THEN {0}
                                ELSE {disk[f].data}]
    /\ UNCHANGED <<dir, store, base, held, items, reading, entries, warned,
                   blurred, atHold>>

\* A variant of Stat: what cannot be looked at is passed over.
StatInSilence(f) ==
    /\ pc = "walk" /\ f \in todo
    /\ todo' = todo \ {f}
    /\ \/ UNCHANGED items
       \/ disk[f] # NoFile /\ items' = Plus(items, f, disk[f])
    /\ UNCHANGED <<dir, repository, pc, paranoid, quiet, held, reading,
                   entries, warned, ghosts>>

\* The walk comes to a file: not there, no way to look at it, or an item.
Stat(f) ==
    /\ pc = "walk" /\ f \in todo
    /\ todo' = todo \ {f}
    /\ \/ disk[f] = NoFile /\ UNCHANGED <<items, warned>>
       \/ warned' = TRUE /\ UNCHANGED items
       \/ /\ disk[f] # NoFile
          /\ items' = Plus(items, f, disk[f])
          /\ UNCHANGED warned
    /\ UNCHANGED <<dir, repository, pc, paranoid, quiet, held, reading,
                   entries, ghosts>>

Walked ==
    /\ todo = {}
    /\ NextPhase("walk", "plan", {})
    /\ UNCHANGED <<dir, repository, paranoid, quiet, held, items, reading,
                   entries, warned, ghosts>>

\* Variants of Plan: no look at the space; no look at the tier.
PlanUnchecked ==
    /\ NextPhase("plan", "cold", DOMAIN items \cap Cold)
    /\ UNCHANGED <<dir, repository, paranoid, quiet, held, items, reading,
                   entries, warned, ghosts>>
PlanUnsplit ==
    /\ Needed + Reserve <= Free
    /\ NextPhase("plan", "cold", DOMAIN items)
    /\ UNCHANGED <<dir, repository, paranoid, quiet, held, items, reading,
                   entries, warned, ghosts>>

\* The last complete snapshot is the base, and the space has to suffice.
Plan ==
    /\ Needed + Reserve <= Free
    /\ NextPhase("plan", "cold", DOMAIN items \cap Cold)
    /\ UNCHANGED <<dir, repository, paranoid, quiet, held, items, reading,
                   entries, warned, ghosts>>

\* Carried over from the base, as the walk saw the file.
Carry(f) ==
    /\ pc \in {"cold", "hot"} /\ f \in todo /\ cur = NoFile
    /\ Vouched(f)
    /\ entries' = Plus(entries, f, [data |-> base[f].data,
                                    size |-> items[f].size,
                                    mtime |-> items[f].mtime,
                                    inode |-> items[f].inode,
                                    read |-> FALSE])
    /\ todo' = todo \ {f}
    /\ UNCHANGED <<dir, repository, pc, paranoid, quiet, held, items, reading,
                   warned, ghosts>>

\* storeFile opens the file and has read half of it.
Open(f) ==
    /\ pc \in {"cold", "hot"} /\ f \in todo
    /\ \/ cur = NoFile /\ ~Vouched(f)
       \/ cur = f /\ fd = NoFd
    /\ disk[f] # NoFile
    /\ cur' = f
    /\ fd' = [data |-> disk[f].data, first |-> disk[f].data,
              size |-> disk[f].size, put |-> FALSE]
    /\ UNCHANGED <<dir, repository, pc, paranoid, quiet, held, items, todo,
                   attempt, entries, warned, ghosts>>

\* Objects().Put has the rest: the object is in the store.
Put ==
    /\ fd # NoFd /\ ~fd.put
    /\ store' = store \cup {[parts |-> <<fd.first, fd.data>>,
                             size |-> fd.size]}
    /\ fd' = [fd EXCEPT !.put = TRUE]
    /\ UNCHANGED <<dir, base, runs, pc, paranoid, quiet, held, items, todo,
                   cur, attempt, entries, warned, ghosts>>

Stable ==
    disk[cur].size = items[cur].size /\ disk[cur].mtime = items[cur].mtime

\* The second stat: the file did not move, or moves too often to wait.
Settled ==
    /\ cur # NoFile /\ fd.put
    /\ disk[cur] # NoFile
    /\ Stable \/ attempt >= MaxRereads - 1
    /\ entries' = Plus(entries, cur, [data |-> <<fd.first, fd.data>>,
                                      size |-> fd.size,
                                      mtime |-> items[cur].mtime,
                                      inode |-> items[cur].inode,
                                      read |-> TRUE])
    /\ warned' = (warned \/ ~Stable)
    /\ todo' = todo \ {cur}
    /\ cur' = NoFile /\ attempt' = 0 /\ fd' = NoFd
    /\ UNCHANGED <<dir, repository, pc, paranoid, quiet, held, items, ghosts>>

\* It moved: once more, against its new state.
Retry ==
    /\ cur # NoFile /\ fd.put
    /\ disk[cur] # NoFile
    /\ ~Stable /\ attempt < MaxRereads - 1
    /\ items' = [items EXCEPT ![cur].size = disk[cur].size,
                              ![cur].mtime = disk[cur].mtime]
    /\ attempt' = attempt + 1 /\ fd' = NoFd
    /\ UNCHANGED <<dir, repository, pc, paranoid, quiet, held, todo, cur,
                   entries, warned, ghosts>>

\* Opening or looking again finds it gone, or not ours to read.
Vanished(f) ==
    /\ pc \in {"cold", "hot"} /\ f \in todo
    /\ \/ cur = NoFile /\ ~Vouched(f)
       \/ cur = f /\ (fd = NoFd \/ (fd.put /\ disk[f] = NoFile))
    /\ warned' = TRUE
    /\ todo' = todo \ {f}
    /\ cur' = NoFile /\ attempt' = 0 /\ fd' = NoFd
    /\ UNCHANGED <<dir, repository, pc, paranoid, quiet, held, items, entries,
                   ghosts>>

ColdDone ==
    /\ todo = {}
    /\ NextPhase("cold", "quiesce", {})
    /\ UNCHANGED <<dir, repository, paranoid, quiet, held, items, reading,
                   entries, warned, ghosts>>

\* Quiesce returns: flushed and silent, or nothing was asked for.
Quiesce ==
    /\ NextPhase("quiesce", "hot", DOMAIN items \cap Hot)
    /\ held' = quiet
    /\ atHold' = disk
    /\ UNCHANGED <<dir, repository, paranoid, quiet, items, reading, entries,
                   warned, seen, blurred>>

Release ==
    /\ todo = {}
    /\ NextPhase("hot", "commit", {})
    /\ held' = FALSE
    /\ UNCHANGED <<dir, repository, paranoid, quiet, items, reading, entries,
                   warned, ghosts>>

\* What the run had in memory is gone, and the game is let go.
Over ==
    /\ pc' = "idle" /\ paranoid' = FALSE /\ quiet' = FALSE /\ held' = FALSE
    /\ items' = None /\ todo' = {} /\ entries' = None /\ warned' = FALSE
    /\ cur' = NoFile /\ attempt' = 0 /\ fd' = NoFd
    /\ seen' = NothingSeen /\ atHold' = Nowhere

\* A snapshot with a warning is partial and no base for the next.
Commit ==
    /\ pc = "commit"
    /\ base' = IF warned THEN base ELSE entries
    /\ Over
    /\ UNCHANGED <<dir, store, runs, blurred>>

\* Any error that is not a warning, a cancel, a refusal: no snapshot.
Fail ==
    /\ pc # "idle"
    /\ Over
    /\ UNCHANGED <<dir, repository, blurred>>

----------------------------------------------------------------------------
(* Everybody else.                                                         *)

\* The hold keeps the game off the hot files.
MayWrite(f) == written < MaxWrites /\ (f \in Hot => ~held)

\* What the observer notes of a new content: its time may be no news.
Note(f, noNews) ==
    /\ seen' = IF pc = "idle" THEN seen
               ELSE [seen EXCEPT ![f] = @ \cup {written + 1}]
    /\ blurred' = IF noNews THEN blurred \cup {written + 1} ELSE blurred
AsWalked(f, t) == f \in DOMAIN items /\ items[f].mtime = t

\* A file is written in place; an open descriptor sees it.
Write(f) ==
    /\ MayWrite(f) /\ disk[f] # NoFile
    /\ \E s \in Sizes :
         /\ disk' = [disk EXCEPT ![f].data = written + 1, ![f].size = s,
                                 ![f].mtime = now]
         /\ fd' = IF cur = f /\ fd # NoFd /\ ~fd.put /\ fd.data = disk[f].data
                    THEN [fd EXCEPT !.data = written + 1, !.size = s]
                    ELSE fd
    /\ written' = written + 1
    /\ Note(f, disk[f].mtime = now \/ AsWalked(f, now))
    /\ UNCHANGED <<now, repository, pc, paranoid, quiet, held, items, todo,
                   cur, attempt, entries, warned, atHold>>

\* A file appears or is renamed over another, with the time it brings.
Place(f) ==
    /\ MayWrite(f)
    /\ \E s \in Sizes, t \in {0, now} :
         /\ disk' = [disk EXCEPT ![f] = [data |-> written + 1, size |-> s,
                                        mtime |-> t, inode |-> written + 1]]
         /\ Note(f, AsWalked(f, t))
    /\ written' = written + 1
    /\ UNCHANGED <<now, repository, run, atHold>>

Remove(f) ==
    /\ disk[f] # NoFile
    /\ f \in Hot => ~held
    /\ disk' = [disk EXCEPT ![f] = NoFile]
    /\ seen' = IF pc = "idle" THEN seen ELSE [seen EXCEPT ![f] = @ \cup {0}]
    /\ UNCHANGED <<now, written, repository, run, blurred, atHold>>

Tick ==
    /\ now < MaxTime
    /\ now' = now + 1
    /\ UNCHANGED <<disk, written, repository, run, ghosts>>

Next ==
    \/ Begin \/ Walked \/ Plan \/ Put \/ Settled \/ Retry \/ ColdDone
    \/ Quiesce \/ Release \/ Commit \/ Fail \/ Tick
    \/ \E f \in Files :
         \/ Stat(f) \/ Carry(f) \/ Open(f) \/ Vanished(f)
         \/ Write(f) \/ Place(f) \/ Remove(f)

Spec == Init /\ [][Next]_vars

----------------------------------------------------------------------------
(* What is claimed.                                                        *)

Whole(e) == e.data[1] = e.data[2]
Blurred(e) == {e.data[1], e.data[2]} \cap blurred # {}

\* A complete snapshot lists of every file one content that the file really
\* had while the run lasted: no mixture of two (the second stat), nothing
\* older (the stat difference).  The code cannot see a write that leaves
\* size and time as they are within one tick of the clock.
Faithful ==
    pc = "commit" /\ ~warned =>
        \A f \in DOMAIN entries :
            LET e == entries[f]
            IN  \/ Whole(e) /\ e.data[1] \in seen[f]
                \/ Blurred(e) \/ seen[f] \cap blurred # {}

\* A hot file that was read under the hold is listed as the flush left it,
\* whatever the walk, minutes earlier, had seen of it.
AsFlushed ==
    pc = "commit" /\ quiet =>
        \A f \in DOMAIN entries \cap Hot :
            entries[f].read =>
                /\ atHold[f] # NoFile
                /\ entries[f].data = <<atHold[f].data, atHold[f].data>>

\* A file that was there all the time is in every complete snapshot: what
\* the walk or the read had to leave out makes the snapshot partial.
NothingLeftOut ==
    pc = "commit" /\ ~warned =>
        \A f \in Files : 0 \notin seen[f] => f \in DOMAIN entries

\* The space check over-estimates: unless somebody wrote to the files after
\* the walk, a run does not eat into the reserve.
ReserveKept ==
    /\ pc \in {"cold", "quiesce", "hot", "commit"}
    /\ \A f \in DOMAIN items : seen[f] = {items[f].data}
    => Free >= Reserve
=============================================================================
