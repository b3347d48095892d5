--------------------------- MODULE Capture_proofs ---------------------------
(***************************************************************************)
(* Proofs about Capture, for any files, sizes, number of re-reads and      *)
(* behaviour of the environment: its types, that hot files are listed as   *)
(* the flush left them, that nothing is left out in silence, that what is  *)
(* listed was really there, and that the reserve is kept.                  *)
(***************************************************************************)
EXTENDS Capture, FiniteSetTheorems, FunctionTheorems, TLAPS

Reads == {"cold", "hot"}
Tier == IF pc = "cold" THEN Cold ELSE Hot

\* What is being read is on the list of the phase, and was really opened.
Reading ==
    /\ pc \in Reads => todo \subseteq DOMAIN items \cap Tier
    /\ pc \notin Reads => cur = NoFile /\ attempt = 0 /\ fd = NoFd
    /\ cur # NoFile => cur \in todo
    /\ cur = NoFile => fd = NoFd /\ attempt = 0
    /\ fd # NoFd => /\ {fd.data, fd.first} \subseteq 1..MaxWrites
                    /\ fd.size \in Sizes

\* No hot file is listed before the hot phase.
HotLater ==
    pc \notin {"hot", "commit"} => DOMAIN entries \cap Hot = {}

\* As long as the game is held its files are as they were when that began.
Still ==
    pc = "hot" /\ quiet =>
        /\ held
        /\ \A f \in Hot : disk[f] = atHold[f]
        /\ fd # NoFd => /\ disk[cur] # NoFile
                        /\ fd.first = disk[cur].data
                        /\ fd.data = disk[cur].data

Flushed ==
    pc \in {"hot", "commit"} /\ quiet =>
        \A f \in DOMAIN entries \cap Hot : entries[f].read =>
            /\ atHold[f] # NoFile
            /\ entries[f].data = <<atHold[f].data, atHold[f].data>>

\* What was there all the time is there.
There == pc # "idle" => \A f \in Files : 0 \notin seen[f] => disk[f] # NoFile

\* Every file that was found is listed, or it will be, or there is a warning.
Found ==
    pc # "idle" /\ ~warned =>
        \A f \in Files : 0 \notin seen[f] =>
            \/ pc = "walk" /\ f \in todo
            \/ f \in DOMAIN items
Listed ==
    ~warned =>
        /\ pc \in {"quiesce", "hot", "commit"} =>
              DOMAIN items \cap Cold \subseteq DOMAIN entries
        /\ pc \in Reads =>
              DOMAIN items \cap Tier \subseteq DOMAIN entries \cup todo
        /\ pc = "commit" => DOMAIN items \cap Hot \subseteq DOMAIN entries

IInv ==
    /\ TypeOK /\ Reading /\ HotLater /\ Still /\ Flushed /\ There /\ Found
    /\ Listed

----------------------------------------------------------------------------
(* The helpers.                                                            *)

LEMMA NoneIs == DOMAIN None = {}
BY DEF None

LEMMA InitInv == Init => IInv
<1> SUFFICES ASSUME Init PROVE IInv
  OBVIOUS
<1> USE BoundsAssumption, TiersAssumption, NoneIs DEF Init
<1>1. fd \in [data : 0..MaxWrites, first : 0..MaxWrites, size : Sizes \cup {0},
              put : BOOLEAN]
  BY DEF NoFd
<1>2. /\ disk \in [Files -> Stats \cup {NoFile}]
      /\ atHold \in [Files -> Stats \cup {NoFile}]
      /\ seen \in [Files -> SUBSET (0..MaxWrites)]
  BY DEF Nowhere, NothingSeen
<1>3. /\ now \in 0..MaxTime /\ written \in 0..MaxWrites /\ runs \in 0..MaxRuns
      /\ attempt \in 0..(MaxRereads - 1)
  OBVIOUS
<1>5. /\ \A o \in store : o \in [parts : (1..MaxWrites) \X (1..MaxWrites),
                                size : Sizes]
      /\ DOMAIN base \subseteq Files /\ DOMAIN items \subseteq Files
      /\ DOMAIN entries \subseteq DOMAIN items
      /\ \A f \in DOMAIN base : base[f] \in Entries
      /\ \A f \in DOMAIN items : items[f] \in Stats
      /\ \A f \in DOMAIN entries : entries[f] \in Entries
  OBVIOUS
<1>6. /\ pc \in {"idle", "walk", "plan", "cold", "quiesce", "hot", "commit"}
      /\ {paranoid, quiet, held, warned} \subseteq BOOLEAN
      /\ todo \subseteq Files /\ cur \in Files \cup {NoFile}
      /\ blurred \subseteq 1..MaxWrites
  OBVIOUS
<1>7. TypeOK
  BY ONLY <1>1, <1>2, <1>3, <1>5, <1>6 DEF TypeOK
<1>4. Reading /\ HotLater /\ Still /\ Flushed /\ There /\ Found /\ Listed
  BY DEF Reading, Reads, HotLater, Still, Flushed, There, Found, Listed, Tier
<1> QED
  BY <1>7, <1>4 DEF IInv

\* A file that is there has a stat.
LEMMA StatIs ==
    ASSUME TypeOK, NEW f \in Files, disk[f] # NoFile
    PROVE  /\ disk[f] \in Stats
           /\ disk[f].data \in 1..MaxWrites /\ disk[f].size \in Sizes
           /\ disk[f].mtime \in 0..MaxTime /\ disk[f].inode \in 1..MaxWrites
<1>1. disk[f] \in Stats
  BY DEF TypeOK
<1> QED
  BY <1>1 DEF Stats

----------------------------------------------------------------------------
(* The types.                                                              *)

LEMMA TypeStep == TypeOK /\ Reading /\ Next => TypeOK'
<1> SUFFICES ASSUME TypeOK, Reading, Next PROVE TypeOK'
  OBVIOUS
<1> USE BoundsAssumption, TiersAssumption DEF TypeOK, dir, repository, reading,
        ghosts
<1>1. CASE Begin
  <2>1. seen' \in [Files -> SUBSET (0..MaxWrites)]
    <3>1. \A f \in Files : disk[f] # NoFile => disk[f].data \in 0..MaxWrites
      BY StatIs
    <3> QED
      BY <1>1, <3>1 DEF Begin
  <2>2. runs' \in 0..MaxRuns
    BY <1>1 DEF Begin
  <2> QED
    BY <1>1, <2>1, <2>2 DEF Begin
<1>2. ASSUME NEW f \in Files, Stat(f) PROVE TypeOK'
  <2>1. CASE UNCHANGED items
    BY <1>2, <2>1 DEF Stat
  <2>2. CASE disk[f] # NoFile /\ items' = Plus(items, f, disk[f])
    <3>1. disk[f] \in Stats
      BY <2>2, StatIs
    <3>2. /\ DOMAIN items' = DOMAIN items \cup {f}
          /\ \A x \in DOMAIN items \cup {f} :
                items'[x] = IF x = f THEN disk[f] ELSE items[x]
      BY ONLY <2>2 DEF Plus
    <3>4. \A x \in DOMAIN items' : items'[x] \in Stats
      BY <3>1, <3>2
    <3>3. warned' \in BOOLEAN
      BY <1>2 DEF Stat
    <3> QED
      BY <1>2, <3>2, <3>3, <3>4 DEF Stat
  <2> QED
    BY <1>2, <2>1, <2>2 DEF Stat
<1>3. CASE Walked \/ Plan \/ ColdDone \/ Quiesce \/ Release
  BY <1>3 DEF Walked, Plan, ColdDone, Quiesce, Release, NextPhase
<1>4. CASE Put
  <2>1. {fd.first, fd.data} \subseteq 1..MaxWrites /\ fd.size \in Sizes
    BY <1>4 DEF Put, Reading
  <2>2. \A o \in store' : o \in [parts : (1..MaxWrites) \X (1..MaxWrites),
                                 size : Sizes]
    BY <1>4, <2>1 DEF Put
  <2> QED
    BY <1>4, <2>2 DEF Put
<1>5. ASSUME NEW f \in Files, Carry(f) PROVE TypeOK'
  <2>1. f \in DOMAIN base /\ base[f] \in Entries
    BY <1>5 DEF Carry, Vouched
  <2>2. f \in DOMAIN items /\ items[f] \in Stats
    BY <1>5 DEF Carry, Reading, Reads
  <2> DEFINE e == [data |-> base[f].data, size |-> items[f].size,
                   mtime |-> items[f].mtime, inode |-> items[f].inode,
                   read |-> FALSE]
  <2>3. e \in Entries
    BY <2>1, <2>2 DEF Entries, Stats
  <2>4. entries' = Plus(entries, f, e)
    BY <1>5 DEF Carry
  <2> HIDE DEF e
  <2>6. /\ DOMAIN entries' = DOMAIN entries \cup {f}
        /\ \A x \in DOMAIN entries \cup {f} :
              entries'[x] = IF x = f THEN e ELSE entries[x]
    BY ONLY <2>4 DEF Plus
  <2>5. DOMAIN entries' \subseteq DOMAIN items
        /\ \A x \in DOMAIN entries' : entries'[x] \in Entries
    BY <2>2, <2>3, <2>6
  <2> QED
    BY <1>5, <2>5 DEF Carry
<1>6. ASSUME NEW f \in Files, Open(f) PROVE TypeOK'
  <2>1. disk[f].data \in 0..MaxWrites /\ disk[f].size \in Sizes
    BY <1>6, StatIs DEF Open
  <2> QED
    BY <1>6, <2>1 DEF Open
<1>7. CASE Settled
  <2>1. cur \in DOMAIN items /\ cur \in Files /\ items[cur] \in Stats
    BY <1>7 DEF Settled, Reading, Reads
  <2>2. fd # NoFd
    BY <1>7 DEF Settled, NoFd
  <2>3. {fd.first, fd.data} \subseteq 1..MaxWrites /\ fd.size \in Sizes
    BY <2>2 DEF Reading
  <2> DEFINE e == [data |-> <<fd.first, fd.data>>, size |-> fd.size,
                   mtime |-> items[cur].mtime, inode |-> items[cur].inode,
                   read |-> TRUE]
  <2>4. e \in Entries
    BY <2>1, <2>3 DEF Entries, Stats
  <2>5. entries' = Plus(entries, cur, e)
    BY <1>7 DEF Settled
  <2> HIDE DEF e
  <2>9. /\ DOMAIN entries' = DOMAIN entries \cup {cur}
        /\ \A x \in DOMAIN entries \cup {cur} :
              entries'[x] = IF x = cur THEN e ELSE entries[x]
    BY ONLY <2>5 DEF Plus
  <2>6. DOMAIN entries' \subseteq DOMAIN items
        /\ \A x \in DOMAIN entries' : entries'[x] \in Entries
    BY <2>1, <2>4, <2>9
  <2>7. fd' \in [data : 0..MaxWrites, first : 0..MaxWrites,
                 size : Sizes \cup {0}, put : BOOLEAN]
    BY <1>7 DEF Settled, NoFd
  <2>8. warned' \in BOOLEAN /\ attempt' \in 0..(MaxRereads - 1)
    BY <1>7 DEF Settled, Stable
  <2> QED
    BY <1>7, <2>6, <2>7, <2>8 DEF Settled
<1>8. CASE Retry
  <2>1. cur \in DOMAIN items /\ cur \in Files /\ items[cur] \in Stats
    BY <1>8 DEF Retry, Reading, Reads
  <2>2. disk[cur].size \in Sizes /\ disk[cur].mtime \in 0..MaxTime
    BY <1>8, <2>1, StatIs DEF Retry
  <2>3. DOMAIN items' = DOMAIN items
        /\ \A x \in DOMAIN items' : items'[x] \in Stats
    BY <1>8, <2>1, <2>2 DEF Retry, Stats
  <2>4. fd' \in [data : 0..MaxWrites, first : 0..MaxWrites,
                 size : Sizes \cup {0}, put : BOOLEAN]
    BY <1>8 DEF Retry, NoFd
  <2>5. attempt' \in 0..(MaxRereads - 1)
    BY <1>8 DEF Retry
  <2> QED
    BY <1>8, <2>3, <2>4, <2>5 DEF Retry
<1>9. ASSUME NEW f \in Files, Vanished(f) PROVE TypeOK'
  <2>1. fd' \in [data : 0..MaxWrites, first : 0..MaxWrites,
                 size : Sizes \cup {0}, put : BOOLEAN]
    BY <1>9 DEF Vanished, NoFd
  <2> QED
    BY <1>9, <2>1 DEF Vanished
<1>10. CASE Commit \/ Fail
  <2>1. Over
    BY <1>10 DEF Commit, Fail
  <2>2. /\ DOMAIN base' \subseteq Files
        /\ \A f \in DOMAIN base' : base'[f] \in Entries
    BY <1>10 DEF Commit, Fail
  <2>3. fd' \in [data : 0..MaxWrites, first : 0..MaxWrites,
                 size : Sizes \cup {0}, put : BOOLEAN]
    BY <2>1 DEF Over, NoFd
  <2>4. /\ atHold' \in [Files -> Stats \cup {NoFile}]
        /\ seen' \in [Files -> SUBSET (0..MaxWrites)]
    BY <2>1 DEF Over, Nowhere, NothingSeen
  <2>5. /\ UNCHANGED <<disk, now, written, store, runs, blurred>>
    BY <1>10 DEF Commit, Fail
  <2>6. attempt' \in 0..(MaxRereads - 1)
    BY <2>1 DEF Over
  <2> QED
    BY <2>1, <2>2, <2>3, <2>4, <2>5, <2>6, NoneIs DEF Over
<1>11. ASSUME NEW f \in Files, Write(f) PROVE TypeOK'
  <2>1. PICK s \in Sizes :
          /\ disk' = [disk EXCEPT ![f].data = written + 1, ![f].size = s,
                                  ![f].mtime = now]
          /\ fd' = IF cur = f /\ fd # NoFd /\ ~fd.put /\ fd.data = disk[f].data
                     THEN [fd EXCEPT !.data = written + 1, !.size = s]
                     ELSE fd
    BY <1>11 DEF Write
  <2>2. written + 1 \in 1..MaxWrites
    BY <1>11 DEF Write, MayWrite
  <2>3. disk[f] \in Stats
    BY <1>11, StatIs DEF Write
  <2>4. disk' \in [Files -> Stats \cup {NoFile}]
    BY <2>1, <2>2, <2>3 DEF Stats
  <2>5. fd' \in [data : 0..MaxWrites, first : 0..MaxWrites,
                 size : Sizes \cup {0}, put : BOOLEAN]
    <3>1. CASE fd' = fd
      BY <3>1
    <3>2. CASE fd' = [fd EXCEPT !.data = written + 1, !.size = s]
      <4>1. written + 1 \in 0..MaxWrites
        BY <2>2
      <4>2. fd \in [data : 0..MaxWrites, first : 0..MaxWrites,
                    size : Sizes \cup {0}, put : BOOLEAN]
        BY DEF TypeOK
      <4> QED
        BY ONLY <3>2, <4>1, <4>2, s \in Sizes
    <3> QED
      BY <2>1, <3>1, <3>2
  <2>6. /\ seen' \in [Files -> SUBSET (0..MaxWrites)]
        /\ blurred' \subseteq 1..MaxWrites
    BY <1>11, <2>2 DEF Write, Note
  <2> QED
    BY <1>11, <2>2, <2>4, <2>5, <2>6 DEF Write
<1>12. ASSUME NEW f \in Files, Place(f) PROVE TypeOK'
  <2>1. PICK s \in Sizes, t \in {0, now} :
          /\ disk' = [disk EXCEPT ![f] = [data |-> written + 1, size |-> s,
                                         mtime |-> t, inode |-> written + 1]]
          /\ Note(f, AsWalked(f, t))
    BY <1>12 DEF Place
  <2>2. written + 1 \in 1..MaxWrites
    BY <1>12 DEF Place, MayWrite
  <2>3. disk' \in [Files -> Stats \cup {NoFile}]
    BY <2>1, <2>2 DEF Stats
  <2>4. /\ seen' \in [Files -> SUBSET (0..MaxWrites)]
        /\ blurred' \subseteq 1..MaxWrites
    BY <2>1, <2>2 DEF Note
  <2> QED
    BY <1>12, <2>2, <2>3, <2>4 DEF Place, run
<1>13. ASSUME NEW f \in Files, Remove(f) PROVE TypeOK'
  <2>1. /\ disk' \in [Files -> Stats \cup {NoFile}]
        /\ seen' \in [Files -> SUBSET (0..MaxWrites)]
    BY <1>13 DEF Remove
  <2> QED
    BY <1>13, <2>1 DEF Remove, run
<1>14. CASE Tick
  BY <1>14 DEF Tick, run
<1> QED
  BY <1>1, <1>2, <1>3, <1>4, <1>5, <1>6, <1>7, <1>8, <1>9, <1>10, <1>11, <1>12,
     <1>13, <1>14 DEF Next

----------------------------------------------------------------------------
(* The strengthening.                                                      *)

LEMMA ReadingStep == IInv /\ Next => Reading'
<1> SUFFICES ASSUME IInv, Next PROVE Reading'
  OBVIOUS
<1> USE BoundsAssumption, TiersAssumption DEF Reading, Reads, Tier, Files, dir,
        repository, reading, run, ghosts
<1>t. TypeOK /\ Reading
  BY DEF IInv
<1>1. CASE Begin \/ Walked \/ Plan \/ ColdDone \/ Quiesce \/ Release
  <2>1. pc' \in Reads => todo' \subseteq DOMAIN items' \cap Tier'
    BY <1>1, <1>t
       DEF Begin, Walked, Plan, ColdDone, Quiesce, Release, NextPhase
  <2>2. cur = NoFile /\ attempt = 0 /\ fd = NoFd
    <3>1. pc \notin Reads \/ todo = {}
      BY <1>1 DEF Begin, Walked, Plan, ColdDone, Quiesce, Release, NextPhase
    <3> QED
      BY <3>1, <1>t
  <2>3. UNCHANGED reading
    BY <1>1 DEF Begin, Walked, Plan, ColdDone, Quiesce, Release
  <2> QED
    BY <2>1, <2>2, <2>3
<1>2. ASSUME NEW f \in Files, Stat(f) PROVE Reading'
  BY <1>2, <1>t DEF Stat
<1>3. CASE Put
  <2>1. fd' = [fd EXCEPT !.put = TRUE] /\ fd # NoFd
    BY <1>3 DEF Put
  <2>2. fd \in [data : 0..MaxWrites, first : 0..MaxWrites,
                size : Sizes \cup {0}, put : BOOLEAN]
    BY <1>t DEF TypeOK
  <2>3. fd'.data = fd.data /\ fd'.first = fd.first /\ fd'.size = fd.size
    BY <2>1, <2>2
  <2> QED
    BY <1>3, <1>t, <2>1, <2>3 DEF Put
<1>4. ASSUME NEW f \in Files, Carry(f) PROVE Reading'
  BY <1>4, <1>t DEF Carry
<1>5. ASSUME NEW f \in Files, Open(f) PROVE Reading'
  <2>1. disk[f].data \in 1..MaxWrites /\ disk[f].size \in Sizes
    BY <1>5, <1>t, StatIs DEF Open
  <2>2. fd'.data = disk[f].data /\ fd'.first = disk[f].data
        /\ fd'.size = disk[f].size
    BY <1>5 DEF Open
  <2>3. pc' = pc /\ pc \in Reads /\ f \in todo /\ f # NoFile /\ cur' = f
        /\ todo' = todo /\ items' = items
    BY <1>5 DEF Open
  <2>4. {fd'.data, fd'.first} \subseteq 1..MaxWrites /\ fd'.size \in Sizes
    BY <2>1, <2>2
  <2> HIDE DEF Reads, Tier
  <2>5. Tier' = Tier
    BY <2>3 DEF Tier
  <2>6. todo \subseteq DOMAIN items \cap Tier
    BY <1>t, <2>3
  <2> QED
    BY <2>3, <2>4, <2>5, <2>6 DEF Reading, Reads
<1>6. CASE Settled
  BY <1>6, <1>t DEF Settled
<1>7. CASE Retry
  <2>1. DOMAIN items' = DOMAIN items
    BY <1>7 DEF Retry
  <2>2. fd' = NoFd /\ cur' = cur /\ cur # NoFile /\ pc' = pc /\ todo' = todo
    BY <1>7 DEF Retry
  <2> HIDE DEF Reads, Tier
  <2>3. Tier' = Tier
    BY <2>2 DEF Tier
  <2>4. pc \in Reads /\ cur \in todo /\ todo \subseteq DOMAIN items \cap Tier
    BY <1>t, <2>2
  <2> QED
    BY <2>1, <2>2, <2>3, <2>4 DEF Reading, Reads
<1>8. ASSUME NEW f \in Files, Vanished(f) PROVE Reading'
  BY <1>8, <1>t DEF Vanished
<1>9. CASE Commit \/ Fail
  BY <1>9, <1>t DEF Commit, Fail, Over
<1>10. ASSUME NEW f \in Files, Write(f) PROVE Reading'
  <2>1. written + 1 \in 1..MaxWrites
    BY <1>10, <1>t DEF Write, MayWrite, TypeOK
  <2>2. fd \in [data : 0..MaxWrites, first : 0..MaxWrites,
                size : Sizes \cup {0}, put : BOOLEAN]
    BY <1>t DEF TypeOK
  <2>3. PICK s \in Sizes :
          fd' = IF cur = f /\ fd # NoFd /\ ~fd.put /\ fd.data = disk[f].data
                  THEN [fd EXCEPT !.data = written + 1, !.size = s]
                  ELSE fd
    BY <1>10 DEF Write
  <2>4. CASE fd' = fd
    BY <1>10, <1>t, <2>4 DEF Write
  <2>5. CASE fd # NoFd /\ fd' = [fd EXCEPT !.data = written + 1, !.size = s]
    <3>1. fd'.data = written + 1 /\ fd'.first = fd.first /\ fd'.size = s
      BY <2>2, <2>5
    <3> QED
      BY <1>10, <1>t, <2>1, <2>5, <3>1 DEF Write
  <2> QED
    BY <2>3, <2>4, <2>5
<1>11. ASSUME NEW f \in Files, Place(f) \/ Remove(f) PROVE Reading'
  BY <1>11, <1>t DEF Place, Remove
<1>12. CASE Tick
  BY <1>12, <1>t DEF Tick
<1> QED
  BY <1>1, <1>2, <1>3, <1>4, <1>5, <1>6, <1>7, <1>8, <1>9, <1>10, <1>11, <1>12
     DEF Next

\* A file gets an entry only while its tier is read.
LEMMA EntryStep ==
    ASSUME IInv, NEW f, Carry(f) \/ (Settled /\ f = cur)
    PROVE  /\ pc \in Reads /\ f \in todo \cap Tier \cap DOMAIN items
           /\ DOMAIN entries' = DOMAIN entries \cup {f}
           /\ \A x \in DOMAIN entries : x # f => entries'[x] = entries[x]
           /\ todo' = todo \ {f} /\ pc' = pc /\ items' = items
           /\ Carry(f) => ~entries'[f].read /\ warned' = warned
           /\ Settled => /\ entries'[f].data = <<fd.first, fd.data>>
                         /\ disk[f] # NoFile /\ fd # NoFd
                         /\ warned => warned'
<1>1. Reading
  BY DEF IInv
<1>2. CASE Carry(f)
  <2>1. ~Settled \/ cur # NoFile
    BY DEF Settled
  <2>2. cur = NoFile
    BY <1>2 DEF Carry
  <2> QED
    BY <1>1, <1>2, <2>1, <2>2 DEF Carry, Plus, Reading, Reads, reading
<1>3. CASE Settled /\ f = cur
  <2>1. ~Carry(f)
    BY <1>3 DEF Carry, Settled
  <2>2. fd # NoFd
    BY <1>3 DEF Settled, NoFd
  <2> QED
    BY <1>1, <1>3, <2>1, <2>2 DEF Settled, Plus, Reading, Reads
<1> QED
  BY <1>2, <1>3

LEMMA HotLaterStep == IInv /\ Next => HotLater'
<1> SUFFICES ASSUME IInv, Next PROVE HotLater'
  OBVIOUS
<1> USE DEF HotLater, Reads, Tier, Files, dir, repository, reading, run, ghosts
<1>t. HotLater
  BY DEF IInv
<1>1. CASE Begin \/ Walked \/ Plan \/ ColdDone \/ Quiesce \/ Release
  BY <1>1, <1>t DEF Begin, Walked, Plan, ColdDone, Quiesce, Release, NextPhase
<1>2. ASSUME NEW f, Stat(f) \/ Vanished(f) \/ Open(f) PROVE HotLater'
  BY <1>2, <1>t DEF Stat, Vanished, Open
<1>3. CASE Put \/ Retry \/ Tick
  BY <1>3, <1>t DEF Put, Retry, Tick
<1>4. ASSUME NEW f, Carry(f) \/ (Settled /\ f = cur) PROVE HotLater'
  BY <1>4, <1>t, EntryStep, TiersAssumption
<1>5. CASE Commit \/ Fail
  BY <1>5, NoneIs DEF Commit, Fail, Over
<1>6. ASSUME NEW f, Write(f) \/ Place(f) \/ Remove(f) PROVE HotLater'
  BY <1>6, <1>t DEF Write, Place, Remove
<1> QED
  BY <1>1, <1>2, <1>3, <1>4, <1>5, <1>6 DEF Next

LEMMA FlushedStep == IInv /\ Next => Flushed'
<1> SUFFICES ASSUME IInv, Next PROVE Flushed'
  OBVIOUS
<1> USE DEF Flushed, Reads, dir, repository, reading, run, ghosts
<1>t. Flushed
  BY DEF IInv
<1>1. CASE Begin \/ Walked \/ Plan \/ ColdDone \/ Release
  BY <1>1, <1>t DEF Begin, Walked, Plan, ColdDone, Release, NextPhase
<1>2. CASE Quiesce
  <2>1. DOMAIN entries \cap Hot = {}
    BY <1>2 DEF Quiesce, NextPhase, HotLater, IInv
  <2> QED
    BY <1>2, <2>1 DEF Quiesce, NextPhase
<1>3. ASSUME NEW f, Stat(f) \/ Vanished(f) \/ Open(f) PROVE Flushed'
  BY <1>3, <1>t DEF Stat, Vanished, Open
<1>4. CASE Put \/ Retry \/ Tick
  BY <1>4, <1>t DEF Put, Retry, Tick
<1>5. ASSUME NEW f, Carry(f) PROVE Flushed'
  <2>1. UNCHANGED <<pc, quiet, atHold>>
    BY <1>5 DEF Carry
  <2> QED
    BY <1>5, <1>t, <2>1, EntryStep
<1>6. CASE Settled
  <2>1. UNCHANGED <<pc, quiet, atHold>>
    BY <1>6 DEF Settled
  <2>2. /\ pc \in Reads /\ cur \in Tier
        /\ DOMAIN entries' = DOMAIN entries \cup {cur}
        /\ \A x \in DOMAIN entries : x # cur => entries'[x] = entries[x]
        /\ entries'[cur].data = <<fd.first, fd.data>>
        /\ disk[cur] # NoFile /\ fd # NoFd
    BY <1>6, EntryStep
  <2>3. CASE pc = "hot" /\ quiet
    <3>1. /\ disk[cur] = atHold[cur]
          /\ fd.first = disk[cur].data /\ fd.data = disk[cur].data
      BY <2>2, <2>3 DEF IInv, Still, Tier
    <3> QED
      BY <1>t, <2>1, <2>2, <2>3, <3>1
  <2> QED
    BY <2>1, <2>2, <2>3
<1>7. CASE Commit \/ Fail
  BY <1>7 DEF Commit, Fail, Over
<1>8. ASSUME NEW f, Write(f) \/ Place(f) \/ Remove(f) PROVE Flushed'
  BY <1>8, <1>t DEF Write, Place, Remove
<1> QED
  BY <1>1, <1>2, <1>3, <1>4, <1>5, <1>6, <1>7, <1>8 DEF Next

LEMMA StillStep == IInv /\ Next => Still'
<1> SUFFICES ASSUME IInv, Next, pc' = "hot", quiet' PROVE Still'
  BY DEF Still
<1> USE DEF dir, repository, reading, run, ghosts
<1>t. TypeOK /\ Still /\ Reading
  BY DEF IInv
<1>c. pc = "hot" /\ quiet /\ cur # NoFile => cur \in Hot
  BY <1>t, TiersAssumption DEF Reading, Reads, Tier
<1>1. CASE Begin \/ Walked \/ Plan \/ ColdDone \/ Release
  BY <1>1 DEF Begin, Walked, Plan, ColdDone, Release, NextPhase
<1>2. CASE Quiesce
  BY <1>2, <1>t DEF Quiesce, NextPhase, Reading, Reads, Still
<1>3. ASSUME NEW f, Stat(f) \/ Carry(f) PROVE Still'
  BY <1>3, <1>t DEF Stat, Carry, Still
<1>4. ASSUME NEW f, Open(f) PROVE Still'
  BY <1>4, <1>t DEF Open, Still
<1>5. ASSUME NEW f, Vanished(f) PROVE Still'
  BY <1>5, <1>t DEF Vanished, Still
<1>6. CASE Settled
  BY <1>6, <1>t DEF Settled, Still
<1>7. CASE Retry
  BY <1>7, <1>t DEF Retry, Still
<1>8. CASE Put
  <2>1. fd' = [fd EXCEPT !.put = TRUE] /\ fd # NoFd
    BY <1>8 DEF Put
  <2>2. fd \in [data : 0..MaxWrites, first : 0..MaxWrites,
                size : Sizes \cup {0}, put : BOOLEAN]
    BY <1>t DEF TypeOK
  <2>3. fd'.data = fd.data /\ fd'.first = fd.first
    BY <2>1, <2>2
  <2> QED
    BY <1>8, <1>t, <2>1, <2>3 DEF Put, Still
<1>9. CASE Commit \/ Fail
  BY <1>9 DEF Commit, Fail, Over
<1>10. ASSUME NEW f \in Files, Write(f) PROVE Still'
  <2>1. pc = "hot" /\ quiet /\ held /\ f \notin Hot
    BY <1>10, <1>t DEF Write, MayWrite, Still
  <2>2. \A g \in Hot : disk'[g] = disk[g]
    BY <1>10, <1>t, <2>1 DEF Write, TypeOK, Files
  <2>3. fd' = fd \/ cur = f
    BY <1>10 DEF Write
  <2>4. fd # NoFd => cur \in Hot
    BY <1>c, <1>t, <2>1 DEF Reading
  <2> QED
    BY <1>10, <1>t, <1>c, <2>1, <2>2, <2>3, <2>4 DEF Write, Still, Reading
<1>11. ASSUME NEW f \in Files, Place(f) \/ Remove(f) PROVE Still'
  <2>1. pc = "hot" /\ quiet /\ held /\ f \notin Hot
    BY <1>11, <1>t DEF Place, Remove, MayWrite, Still
  <2>2. \A g \in Hot : disk'[g] = disk[g]
    BY <1>11, <1>t, <2>1 DEF Place, Remove, TypeOK, Files
  <2>3. UNCHANGED <<pc, quiet, held, atHold, cur, fd>>
    BY <1>11 DEF Place, Remove
  <2>4. fd # NoFd => cur \in Hot
    BY <1>c, <1>t, <2>1 DEF Reading
  <2> QED
    BY <1>t, <2>1, <2>2, <2>3, <2>4 DEF Still
<1>12. CASE Tick
  BY <1>12, <1>t DEF Tick, Still
<1> QED
  BY <1>1, <1>2, <1>3, <1>4, <1>5, <1>6, <1>7, <1>8, <1>9, <1>10, <1>11, <1>12
     DEF Next

LEMMA ThereStep == IInv /\ Next => There'
<1> SUFFICES ASSUME IInv, Next, pc' # "idle", NEW g \in Files,
                    0 \notin seen'[g]
             PROVE  disk'[g] # NoFile
  BY DEF There
<1> USE DEF dir, repository, reading, run, ghosts
<1>t. TypeOK /\ There
  BY DEF IInv
<1>1. CASE Begin
  BY <1>1 DEF Begin
<1>2. CASE Walked \/ Plan \/ ColdDone \/ Quiesce \/ Release
  BY <1>2, <1>t DEF Walked, Plan, ColdDone, Quiesce, Release, NextPhase, There
<1>3. ASSUME NEW f, Stat(f) \/ Vanished(f) \/ Open(f) \/ Carry(f)
      PROVE  disk'[g] # NoFile
  BY <1>3, <1>t DEF Stat, Vanished, Open, Carry, There
<1>4. CASE Put \/ Retry \/ Settled \/ Tick
  BY <1>4, <1>t DEF Put, Retry, Settled, Tick, There
<1>5. CASE Commit \/ Fail
  BY <1>5 DEF Commit, Fail, Over
<1>6. ASSUME NEW f \in Files, Write(f) \/ Place(f) PROVE disk'[g] # NoFile
  <2>1. CASE f = g
    <3>1. disk' \in [Files -> Stats \cup {NoFile}]
      BY <1>t, TypeStep, ReadingStep DEF IInv, TypeOK
    <3>2. disk'[g] \in Stats
      <4>1. written + 1 \in 1..MaxWrites
        <5>1. written \in 0..MaxWrites
          BY <1>t DEF TypeOK
        <5>2. written < MaxWrites
          BY <1>6 DEF Write, Place, MayWrite
        <5> QED
          BY <5>1, <5>2, BoundsAssumption
      <4>2. CASE Write(f)
        <5>1. disk[f] \in Stats /\ now \in 0..MaxTime
          BY <4>2, <1>t, StatIs DEF Write, TypeOK
        <5>2. PICK s \in Sizes :
                disk' = [disk EXCEPT ![f].data = written + 1, ![f].size = s,
                                     ![f].mtime = now]
          BY <4>2 DEF Write
        <5>3. DOMAIN disk = Files
          BY <1>t DEF TypeOK
        <5> QED
          BY <4>1, <2>1, <5>1, <5>2, <5>3 DEF Stats
      <4>3. CASE Place(f)
        <5>1. now \in 0..MaxTime /\ 0 \in 0..MaxTime
          BY <1>t, BoundsAssumption DEF TypeOK
        <5> QED
          BY <4>1, <4>3, <2>1, <1>t, <5>1 DEF Place, Stats, TypeOK
      <4> QED
        BY <1>6, <4>2, <4>3
    <3> QED
      BY <3>2, NoFileAssumption
  <2>2. CASE f # g
    <3>1. disk'[g] = disk[g] /\ pc' = pc
      BY <1>6, <1>t, <2>2 DEF Write, Place, TypeOK
    <3>2. seen'[g] = seen[g]
      BY <1>6, <1>t, <2>2 DEF Write, Place, Note, TypeOK
    <3> QED
      BY <1>t, <3>1, <3>2 DEF There
  <2> QED
    BY <2>1, <2>2
<1>7. ASSUME NEW f \in Files, Remove(f) PROVE disk'[g] # NoFile
  <2>1. pc' = pc
    BY <1>7 DEF Remove
  <2>2. f # g
    BY <1>7, <1>t, <2>1 DEF Remove, TypeOK
  <2>3. disk'[g] = disk[g] /\ seen'[g] = seen[g]
    BY <1>7, <1>t, <2>2 DEF Remove, TypeOK
  <2> QED
    BY <1>t, <2>1, <2>3 DEF There
<1> QED
  BY <1>1, <1>2, <1>3, <1>4, <1>5, <1>6, <1>7 DEF Next

LEMMA FoundStep == IInv /\ Next => Found'
<1> SUFFICES ASSUME IInv, Next, pc' # "idle", ~warned', NEW g \in Files,
                    0 \notin seen'[g]
             PROVE  (pc' = "walk" /\ g \in todo') \/ g \in DOMAIN items'
  BY DEF Found
<1> DEFINE Goal == (pc' = "walk" /\ g \in todo') \/ g \in DOMAIN items'
<1> USE DEF dir, repository, reading, run, ghosts
<1>t. TypeOK /\ Found /\ There
  BY DEF IInv
<1>1. CASE Begin
  BY <1>1 DEF Begin
<1>2. CASE Walked \/ Plan \/ ColdDone \/ Quiesce \/ Release
  BY <1>2, <1>t DEF Walked, Plan, ColdDone, Quiesce, Release, NextPhase, Found
<1>3. ASSUME NEW f \in Files, Stat(f) PROVE Goal
  <2>1. pc = "walk" /\ pc' = pc /\ todo' = todo \ {f} /\ seen' = seen
    BY <1>3 DEF Stat
  <2>2. ~warned
    BY <1>3 DEF Stat
  <2>3. DOMAIN items \subseteq DOMAIN items'
    BY <1>3 DEF Stat, Plus
  <2>4. f = g => f \in DOMAIN items'
    BY <1>3, <1>t, <2>1 DEF Stat, Plus, There
  <2> QED
    BY <1>t, <2>1, <2>2, <2>3, <2>4 DEF Found
<1>4. ASSUME NEW f, Vanished(f) \/ Open(f) \/ Carry(f) PROVE Goal
  BY <1>4, <1>t DEF Vanished, Open, Carry, Found
<1>5. CASE Put \/ Settled \/ Tick
  <2>1. UNCHANGED <<pc, items, seen>>
    BY <1>5 DEF Put, Settled, Tick
  <2>3. ~warned
    BY <1>5, Zenon DEF Put, Settled, Tick
  <2>2. pc = "walk" => todo' = todo
    BY <1>5 DEF Put, Settled, Tick, Reading, Reads, IInv
  <2> QED
    BY <1>t, <2>1, <2>2, <2>3 DEF Found
<1>6. CASE Retry
  <2>1. DOMAIN items' = DOMAIN items
    BY <1>6 DEF Retry
  <2>2. UNCHANGED <<pc, todo, warned, seen>>
    BY <1>6 DEF Retry
  <2> QED
    BY <1>t, <2>1, <2>2 DEF Found
<1>7. CASE Commit \/ Fail
  BY <1>7 DEF Commit, Fail, Over
<1>8. ASSUME NEW f \in Files, Write(f) \/ Place(f) \/ Remove(f) PROVE Goal
  <2>1. UNCHANGED <<pc, todo, warned, items>>
    BY <1>8 DEF Write, Place, Remove
  <2>2. seen[g] \subseteq seen'[g]
    <3>1. seen \in [Files -> SUBSET (0..MaxWrites)]
      BY <1>t DEF TypeOK
    <3>2. seen' = seen \/ \E x : seen' = [seen EXCEPT ![f] = @ \cup {x}]
      BY <1>8 DEF Write, Place, Remove, Note
    <3> QED
      BY <3>1, <3>2
  <2> QED
    BY <1>t, <2>1, <2>2 DEF Found
<1> QED
  BY <1>1, <1>2, <1>3, <1>4, <1>5, <1>6, <1>7, <1>8 DEF Next

LEMMA ListedStep == IInv /\ Next => Listed'
<1> SUFFICES ASSUME IInv, Next, ~warned' PROVE Listed'
  BY DEF Listed
<1> USE DEF Listed, Reads, Tier, dir, repository, reading, run, ghosts
<1>t. Listed /\ Reading
  BY DEF IInv
<1>1. CASE Begin \/ Walked \/ Plan \/ ColdDone \/ Quiesce \/ Release
  BY <1>1, <1>t DEF Begin, Walked, Plan, ColdDone, Quiesce, Release, NextPhase
<1>2. ASSUME NEW f, Stat(f) PROVE Listed'
  BY <1>2, <1>t DEF Stat
<1>3. ASSUME NEW f, Vanished(f) \/ Open(f) PROVE Listed'
  BY <1>3, <1>t DEF Vanished, Open
<1>4. CASE Put \/ Tick
  BY <1>4, <1>t DEF Put, Tick
<1>5. ASSUME NEW f, Carry(f) \/ (Settled /\ f = cur) PROVE Listed'
  BY <1>5, <1>t, EntryStep
<1>6. CASE Retry
  <2>1. DOMAIN items' = DOMAIN items
    BY <1>6 DEF Retry
  <2>2. UNCHANGED <<pc, todo, warned, entries>>
    BY <1>6 DEF Retry
  <2> QED
    BY <1>t, <2>1, <2>2
<1>7. CASE Commit \/ Fail
  BY <1>7 DEF Commit, Fail, Over
<1>8. ASSUME NEW f, Write(f) \/ Place(f) \/ Remove(f) PROVE Listed'
  BY <1>8, <1>t DEF Write, Place, Remove
<1> QED
  BY <1>1, <1>2, <1>3, <1>4, <1>5, <1>6, <1>7, <1>8 DEF Next

----------------------------------------------------------------------------
(* The theorems.                                                           *)

LEMMA InvStep == IInv /\ [Next]_vars => IInv'
<1> SUFFICES ASSUME IInv, [Next]_vars PROVE IInv'
  OBVIOUS
<1>1. CASE Next
  <2>1. TypeOK /\ Reading
    BY DEF IInv
  <2> QED
    BY <1>1, <2>1, TypeStep, ReadingStep, HotLaterStep, StillStep,
       FlushedStep, ThereStep, FoundStep, ListedStep DEF IInv
<1>2. CASE UNCHANGED vars
  <2>1. TypeOK'
    BY <1>2 DEF IInv, TypeOK, vars, dir, repository, run, reading, ghosts
  <2> QED
    BY <1>2, <2>1 DEF IInv, Reading, HotLater, Still, Flushed, There, Found,
       Listed, Reads, Tier, vars, dir, repository, run, reading, ghosts
<1> QED
  BY <1>1, <1>2

THEOREM Invariant == Spec => []IInv
BY InitInv, InvStep, PTL DEF Spec

\* Every variable has its type.  In particular a file is never attempted
\* more than maxRereads times.
THEOREM Typed == Spec => []TypeOK
<1>1. IInv => TypeOK
  BY DEF IInv
<1> QED
  BY <1>1, Invariant, PTL

\* A hot file that was read under the hold is listed as the flush left it.
THEOREM FlushedIsListed == Spec => []AsFlushed
<1>1. IInv => AsFlushed
  BY DEF IInv, Flushed, AsFlushed
<1> QED
  BY <1>1, Invariant, PTL

\* A file that was there all the time is in every complete snapshot.
THEOREM NoneMissing == Spec => []NothingLeftOut
<1>1. IInv => NothingLeftOut
  <2> SUFFICES ASSUME IInv, pc = "commit", ~warned, NEW f \in Files,
                      0 \notin seen[f]
               PROVE  f \in DOMAIN entries
    BY DEF NothingLeftOut
  <2>1. f \in DOMAIN items
    BY DEF IInv, Found
  <2> QED
    BY <2>1 DEF IInv, Listed, Files
<1> QED
  BY <1>1, Invariant, PTL

----------------------------------------------------------------------------
(* What is listed is what a file really held.  The stat difference and the *)
(* second stat both compare what they see with what was noted earlier; the *)
(* invariant says what an entry, an item or a half-read file may still     *)
(* conclude from a stat that agrees.                                       *)

\* What an entry or an item notes of a file, d being the file now, is not
\* ahead of the clock t nor of the inodes w, and while the file keeps its
\* inode its time does not go back.
Behind(x, d, t, w) ==
    /\ x.mtime <= t /\ x.inode <= w
    /\ d # NoFile /\ d.inode = x.inode => x.mtime <= d.mtime

\* The entry e still tells what the file d holds, if inode and time agree,
\* unless a write in b hides behind them.
Tells(e, d, b) ==
    d # NoFile /\ d.inode = e.inode /\ d.mtime = e.mtime =>
        \/ e.data = <<d.data, d.data>>
        \/ d.data \in b \/ {e.data[1], e.data[2]} \cap b # {}

Present ==
    \A f \in Files : disk[f] # NoFile =>
        /\ disk[f].data <= written
        /\ Behind(disk[f], disk[f], now, written)
        /\ pc # "idle" => disk[f].data \in seen[f]

\* A file is listed once, with the stat that the run goes by.
Once ==
    /\ pc = "idle" => DOMAIN items = {}
    /\ pc \in {"idle", "walk", "plan"} => DOMAIN entries = {}
    /\ pc \in Reads => todo \cap DOMAIN entries = {}
    /\ \A f \in DOMAIN entries : /\ entries[f].mtime = items[f].mtime
                                 /\ entries[f].inode = items[f].inode

Clock ==
    /\ \A f \in DOMAIN items : /\ items[f].data <= written
                               /\ Behind(items[f], disk[f], now, written)
    /\ \A f \in DOMAIN base : Behind(base[f], disk[f], now, written)

Told ==
    /\ \A f \in DOMAIN base : Tells(base[f], disk[f], blurred)
    /\ ~warned => \A f \in DOMAIN entries : Tells(entries[f], disk[f], blurred)

\* The walk's stat is still what the stat difference will go by.
Fresh(f) ==
    /\ f # cur
    /\ \/ pc \in {"walk", "plan"}
       \/ pc \in {"cold", "quiesce"} /\ f \in Hot
       \/ pc \in Reads /\ f \in todo

Vouch ==
    \A f \in DOMAIN items : Fresh(f) =>
        /\ items[f].data \in seen[f]
        /\ f \in DOMAIN base /\ Unchanged(base[f], items[f]) =>
              \/ base[f].data = <<items[f].data, items[f].data>>
              \/ items[f].data \in blurred \/ Blurred(base[f])

\* The two halves that have been read, as an entry.
Halves == [data |-> <<fd.first, fd.data>>, mtime |-> items[cur].mtime,
           inode |-> items[cur].inode]
Half ==
    fd # NoFd =>
        /\ {fd.first, fd.data} \subseteq seen[cur]
        /\ fd.first # fd.data /\ disk[cur] # NoFile
           /\ disk[cur].mtime = items[cur].mtime =>
              seen[cur] \cap blurred # {}
        /\ Tells(Halves, disk[cur], blurred)

\* What Faithful says, as long as the list grows.
Held(e, f) == Whole(e) /\ e.data[1] \in seen[f]
Hidden(e, f) == Blurred(e) \/ seen[f] \cap blurred # {}
SoFar == ~warned => \A f \in DOMAIN entries :
                        Held(entries[f], f) \/ Hidden(entries[f], f)

\* A file that nobody wrote to since the walk is as the walk saw it.
Undisturbed(f) == seen[f] = {items[f].data}
Same ==
    /\ \A f \in DOMAIN items : Undisturbed(f) => items[f] = disk[f]
    /\ cur # NoFile /\ Undisturbed(cur) =>
        /\ ~Vouched(cur)
        /\ fd # NoFd => fd.size = items[cur].size

JInv ==
    /\ IInv /\ Present /\ Once /\ Clock /\ Told /\ Vouch /\ Half /\ SoFar
    /\ Same

LEMMA InitJ == Init => JInv
<1> SUFFICES ASSUME Init PROVE JInv
  OBVIOUS
<1>1. IInv
  BY InitInv
<1>2. \A f \in Files : disk[f] = NoFile
  BY DEF Init, Nowhere
<1>3. DOMAIN items = {} /\ DOMAIN base = {} /\ DOMAIN entries = {}
      /\ pc = "idle" /\ fd = NoFd /\ cur = NoFile
  BY NoneIs DEF Init
<1> QED
  BY <1>1, <1>2, <1>3 DEF JInv, Present, Once, Clock, Told, Vouch, Half, SoFar,
     Same, Reads

\* What somebody else does to a file.
LEMMA EnvStep ==
    ASSUME IInv, NEW f \in Files, Write(f) \/ Place(f) \/ Remove(f)
    PROVE  /\ UNCHANGED <<now, store, base, runs, pc, paranoid, quiet, held,
                          items, todo, cur, attempt, entries, warned, atHold>>
           /\ \A g \in Files :
                g # f => disk'[g] = disk[g] /\ seen'[g] = seen[g]
           /\ \A g \in Files : seen[g] \subseteq seen'[g]
           /\ blurred \subseteq blurred' /\ written <= written'
           /\ disk'[f] # NoFile =>
                /\ written' = written + 1 /\ disk'[f].data = written + 1
                /\ pc # "idle" => written + 1 \in seen'[f]
                /\ \/ /\ disk[f] # NoFile /\ disk'[f].inode = disk[f].inode
                      /\ disk'[f].mtime = now
                      /\ disk[f].mtime = now \/ AsWalked(f, now) =>
                            written + 1 \in blurred'
                   \/ /\ disk'[f].inode = written + 1
                      /\ disk'[f].mtime <= now
                      /\ AsWalked(f, disk'[f].mtime) =>
                            written + 1 \in blurred'
           /\ fd' # fd => /\ cur = f /\ fd # NoFd /\ fd'.first = fd.first
                          /\ fd'.data = written + 1
                          /\ disk'[f] # NoFile /\ disk[f] # NoFile
                          /\ disk'[f].mtime = now
           /\ disk'[f] = NoFile /\ pc # "idle" => 0 \in seen'[f]
<1> USE DEF dir, repository, reading, run, ghosts
<1>t. TypeOK
  BY DEF IInv
<1>d. /\ disk \in [Files -> Stats \cup {NoFile}]
      /\ seen \in [Files -> SUBSET (0..MaxWrites)]
      /\ now \in Nat /\ written \in Nat
  BY <1>t, BoundsAssumption DEF TypeOK
<1>1. CASE Write(f)
  <2>1. PICK s \in Sizes :
          /\ disk' = [disk EXCEPT ![f].data = written + 1, ![f].size = s,
                                  ![f].mtime = now]
          /\ fd' = IF cur = f /\ fd # NoFd /\ ~fd.put /\ fd.data = disk[f].data
                     THEN [fd EXCEPT !.data = written + 1, !.size = s]
                     ELSE fd
    BY <1>1 DEF Write
  <2>2. disk[f] # NoFile /\ disk[f] \in Stats
    BY <1>1, <1>t, StatIs DEF Write
  <2>3. /\ disk'[f].data = written + 1 /\ disk'[f].inode = disk[f].inode
        /\ disk'[f].mtime = now
        /\ \A g \in Files : g # f => disk'[g] = disk[g]
    BY <1>d, <2>1, <2>2 DEF Stats
  <2>7. disk'[f] # NoFile
    <3>1. disk'[f] \in Stats
      <4>1. written + 1 \in 1..MaxWrites
        <5>1. written < MaxWrites /\ written \in Nat /\ MaxWrites \in Nat
          BY <1>1, <1>d, BoundsAssumption DEF Write, MayWrite
        <5> QED
          BY <5>1
      <4>2. now \in 0..MaxTime
        BY <1>t DEF TypeOK
      <4> QED
        BY <1>d, <2>1, <2>2, <4>1, <4>2 DEF Stats
    <3> QED
      BY <3>1, NoFileAssumption
  <2>4. /\ seen' = IF pc = "idle" THEN seen
                   ELSE [seen EXCEPT ![f] = @ \cup {written + 1}]
        /\ blurred' = IF disk[f].mtime = now \/ AsWalked(f, now)
                        THEN blurred \cup {written + 1} ELSE blurred
    BY <1>1 DEF Write, Note
  <2>5. fd' # fd => /\ cur = f /\ fd # NoFd /\ fd'.first = fd.first
                    /\ fd'.data = written + 1
    <3>1. fd \in [data : 0..MaxWrites, first : 0..MaxWrites,
                  size : Sizes \cup {0}, put : BOOLEAN]
      BY <1>t DEF TypeOK
    <3> QED
      BY <2>1, <3>1
  <2>6. /\ UNCHANGED <<now, store, base, runs, pc, paranoid, quiet, held,
                       items, todo, cur, attempt, entries, warned, atHold>>
        /\ written' = written + 1
    BY <1>1 DEF Write
  <2>8. /\ \A g \in Files : g # f => seen'[g] = seen[g]
        /\ \A g \in Files : seen[g] \subseteq seen'[g]
        /\ pc # "idle" => written + 1 \in seen'[f]
    BY <1>d, <2>4
  <2>9. blurred \subseteq blurred' /\ written <= written'
    BY <1>d, <2>4, <2>6
  <2>10. disk[f].mtime = now \/ AsWalked(f, now) => written + 1 \in blurred'
    BY <2>4
  <2> QED
    BY <2>2, <2>3, <2>5, <2>6, <2>7, <2>8, <2>9, <2>10
<1>2. CASE Place(f)
  <2>1. PICK s \in Sizes, t \in {0, now} :
          /\ disk' = [disk EXCEPT ![f] = [data |-> written + 1, size |-> s,
                                         mtime |-> t, inode |-> written + 1]]
          /\ Note(f, AsWalked(f, t))
    BY <1>2 DEF Place
  <2>2. /\ disk'[f].data = written + 1 /\ disk'[f].inode = written + 1
        /\ disk'[f].mtime = t /\ t <= now
        /\ \A g \in Files : g # f => disk'[g] = disk[g]
    BY <1>d, <2>1
  <2>3. disk'[f] # NoFile
    <3>1. written + 1 \in 1..MaxWrites
      BY <1>2, <1>t, BoundsAssumption DEF Place, MayWrite, TypeOK
    <3>2. t \in 0..MaxTime
      BY <1>t, BoundsAssumption DEF TypeOK
    <3>3. disk'[f] \in Stats
      BY <1>d, <2>1, <3>1, <3>2 DEF Stats
    <3> QED
      BY <3>3, NoFileAssumption
  <2>4. /\ seen' = IF pc = "idle" THEN seen
                   ELSE [seen EXCEPT ![f] = @ \cup {written + 1}]
        /\ blurred' = IF AsWalked(f, t)
                        THEN blurred \cup {written + 1} ELSE blurred
    BY <2>1 DEF Note
  <2>5. /\ UNCHANGED <<now, store, base, runs, pc, paranoid, quiet, held, fd,
                       items, todo, cur, attempt, entries, warned, atHold>>
        /\ written' = written + 1
    BY <1>2 DEF Place
  <2>6. /\ \A g \in Files : g # f => seen'[g] = seen[g]
        /\ \A g \in Files : seen[g] \subseteq seen'[g]
        /\ pc # "idle" => written + 1 \in seen'[f]
    BY <1>d, <2>4
  <2>7. blurred \subseteq blurred' /\ written <= written'
    BY <1>d, <2>4, <2>5
  <2>8. AsWalked(f, t) => written + 1 \in blurred'
    BY <2>4
  <2> QED
    BY <2>2, <2>3, <2>5, <2>6, <2>7, <2>8
<1>3. CASE Remove(f)
  BY <1>3, <1>d DEF Remove
<1> QED
  BY <1>1, <1>2, <1>3

\* What was noted of a file stays behind it,
LEMMA BehindStep ==
    ASSUME JInv, NEW f \in Files, Write(f) \/ Place(f) \/ Remove(f),
           NEW g \in Files, NEW x, x.mtime \in Nat, x.inode \in Nat,
           Behind(x, disk[g], now, written)
    PROVE  Behind(x, disk'[g], now', written')
<1>t. now \in Nat /\ written \in Nat /\ IInv
  BY BoundsAssumption DEF JInv, IInv, TypeOK
<1>1. CASE g # f
  <2>1. disk'[g] = disk[g] /\ written <= written' /\ now' = now
    BY <1>t, <1>1, EnvStep
  <2>2. written' \in Nat
    <3>1. written' \in {written, written + 1}
      BY DEF Write, Place, Remove
    <3> QED
      BY <1>t, <3>1
  <2> QED
    BY <1>t, <2>1, <2>2 DEF Behind
<1>2. CASE g = f
  <2>1. /\ now' = now /\ written <= written'
        /\ disk'[f] # NoFile => written' = written + 1
        /\ disk'[f] # NoFile =>
             \/ disk[f] # NoFile /\ disk'[f].inode = disk[f].inode
                /\ disk'[f].mtime = now
             \/ disk'[f].inode = written + 1
    BY <1>t, EnvStep
  <2>2. written' \in Nat
    <3>1. written' \in {written, written + 1}
      BY DEF Write, Place, Remove
    <3> QED
      BY <1>t, <3>1
  <2> QED
    BY <1>t, <1>2, <2>1, <2>2 DEF Behind
<1> QED
  BY <1>1, <1>2

\* and the entry that agrees with it still tells what it holds.
LEMMA TellsStep ==
    ASSUME JInv, NEW f \in Files, Write(f) \/ Place(f) \/ Remove(f),
           NEW g \in Files, NEW e, e.mtime \in Nat, e.inode \in Nat,
           Behind(e, disk[g], now, written), Tells(e, disk[g], blurred),
           NEW d, d.inode = e.inode, d.mtime = e.mtime,
           d.data = e.data \/ (fd' # fd /\ g = f)
    PROVE  Tells(d, disk'[g], blurred')
<1>t. now \in Nat /\ written \in Nat /\ IInv
  BY BoundsAssumption DEF JInv, IInv, TypeOK
<1>1. CASE g # f
  <2>1. disk'[g] = disk[g] /\ blurred \subseteq blurred'
    BY <1>t, <1>1, EnvStep
  <2> QED
    BY <1>1, <2>1 DEF Tells
<1>2. CASE g = f
  <2> SUFFICES ASSUME disk'[f] # NoFile, disk'[f].inode = e.inode,
                      disk'[f].mtime = e.mtime
               PROVE  disk'[f].data \in blurred'
    BY <1>2 DEF Tells
  <2>1. disk'[f].data = written + 1
    BY <1>t, EnvStep
  <2>2. disk'[f].inode # written + 1
    BY <1>t DEF Behind
  <2>3. /\ disk[f] # NoFile /\ disk'[f].inode = disk[f].inode
        /\ disk'[f].mtime = now
        /\ disk[f].mtime = now => written + 1 \in blurred'
    BY <1>t, <2>2, EnvStep
  <2>4. e.mtime <= disk[f].mtime /\ disk[f].mtime <= now
    BY <1>2, <2>3 DEF Behind, JInv, Present
  <2>5. disk[f].mtime \in Nat
    BY <1>t, <2>3, StatIs DEF IInv
  <2> QED
    BY <1>t, <2>1, <2>3, <2>4, <2>5
<1> QED
  BY <1>1, <1>2

LEMMA Notes ==
    ASSUME TypeOK
    PROVE  /\ \A f \in DOMAIN items :
                 /\ f \in Files /\ items[f].data \in Nat
                 /\ items[f].mtime \in Nat /\ items[f].inode \in Nat
           /\ \A f \in DOMAIN base :
                 f \in Files /\ base[f].mtime \in Nat /\ base[f].inode \in Nat
           /\ \A f \in DOMAIN entries :
                 /\ f \in DOMAIN items /\ f \in Files
                 /\ entries[f].mtime \in Nat /\ entries[f].inode \in Nat
           /\ \A f \in Files : disk[f] # NoFile =>
                 /\ disk[f].data \in Nat
                 /\ disk[f].mtime \in Nat /\ disk[f].inode \in Nat
           /\ now \in Nat /\ written \in Nat
<1>1. \A s \in Stats : s.data \in Nat /\ s.mtime \in Nat /\ s.inode \in Nat
  BY BoundsAssumption DEF Stats
<1>2. \A e \in Entries : e.mtime \in Nat /\ e.inode \in Nat
  BY BoundsAssumption DEF Entries
<1> QED
  BY <1>1, <1>2, BoundsAssumption DEF TypeOK

\* Who takes a step, and what it can touch.
LEMMA Steps ==
    ASSUME IInv, Next
    PROVE  \/ Tick
           \/ \E f \in Files : Write(f) \/ Place(f) \/ Remove(f)
           \/ /\ UNCHANGED <<disk, now, written, blurred>>
              /\ \/ Begin
                 \/ Over /\ (base' = base \/ Commit)
                 \/ UNCHANGED <<seen, base>> /\ pc # "idle" /\ pc' # "idle"
<1> USE DEF dir, repository, reading, run, ghosts
<1>1. CASE Begin
  BY <1>1 DEF Begin
<1>2. CASE Walked \/ Plan \/ ColdDone \/ Quiesce \/ Release
  BY <1>2 DEF Walked, Plan, ColdDone, Quiesce, Release, NextPhase
<1>3. CASE Put \/ Settled \/ Retry
  <2>1. pc \in Reads
    <3>1. fd # NoFd
      BY <1>3 DEF Put, Settled, Retry, NoFd
    <3> QED
      BY <3>1 DEF IInv, Reading
  <2> QED
    BY <1>3, <2>1 DEF Put, Settled, Retry, Reads
<1>4. ASSUME NEW f \in Files, Stat(f) \/ Carry(f) \/ Open(f) \/ Vanished(f)
      PROVE  /\ UNCHANGED <<disk, now, written, blurred>>
             /\ UNCHANGED <<seen, base>> /\ pc # "idle" /\ pc' # "idle"
  BY <1>4 DEF Stat, Carry, Open, Vanished
<1>5. CASE Commit \/ Fail
  BY <1>5 DEF Commit, Fail
<1> QED
  BY <1>1, <1>2, <1>3, <1>4, <1>5 DEF Next

LEMMA PresentStep == JInv /\ Next => Present'
<1> SUFFICES ASSUME JInv, Next, NEW g \in Files, disk'[g] # NoFile
             PROVE  /\ disk'[g].data <= written'
                    /\ Behind(disk'[g], disk'[g], now', written')
                    /\ pc' # "idle" => disk'[g].data \in seen'[g]
  BY DEF Present
<1>t. IInv /\ TypeOK /\ Present
  BY DEF JInv, IInv
<1>n. /\ now \in Nat /\ written \in Nat
      /\ \A f \in Files : disk[f] # NoFile =>
            /\ disk[f].data \in Nat
            /\ disk[f].mtime \in Nat /\ disk[f].inode \in Nat
  BY <1>t, Notes
<1>1. CASE Tick
  <2>1. disk' = disk /\ written' = written /\ seen' = seen /\ pc' = pc
        /\ now' = now + 1
    BY <1>1 DEF Tick, run, ghosts
  <2> QED
    BY <1>t, <1>n, <2>1 DEF Present, Behind
<1>2. ASSUME NEW f \in Files, Write(f) \/ Place(f) \/ Remove(f)
      PROVE  /\ disk'[g].data <= written'
             /\ Behind(disk'[g], disk'[g], now', written')
             /\ pc' # "idle" => disk'[g].data \in seen'[g]
  <2>1. CASE g # f
    <3>1. /\ disk'[g] = disk[g] /\ seen'[g] = seen[g] /\ pc' = pc
          /\ now' = now
      BY <1>2, <1>t, <2>1, EnvStep
    <3>2. written' \in {written, written + 1}
      BY <1>2 DEF Write, Place, Remove
    <3> QED
      BY <1>t, <1>n, <3>1, <3>2 DEF Present, Behind
  <2>2. CASE g = f
    <3>1. /\ written' = written + 1 /\ disk'[g].data = written + 1
          /\ pc # "idle" => written + 1 \in seen'[g]
          /\ now' = now /\ pc' = pc
          /\ \/ /\ disk[g] # NoFile /\ disk'[g].inode = disk[g].inode
                /\ disk'[g].mtime = now
             \/ disk'[g].inode = written + 1 /\ disk'[g].mtime <= now
      BY <1>2, <1>t, <2>2, EnvStep
    <3>2. TypeOK'
      BY <1>t, TypeStep DEF IInv
    <3>3. disk'[g].mtime \in Nat /\ disk'[g].inode \in Nat
      <4>1. disk'[g] \in Stats
        BY <3>2 DEF TypeOK
      <4> QED
        BY <4>1, BoundsAssumption DEF Stats
    <3> QED
      BY <1>t, <1>n, <3>1, <3>3 DEF Present, Behind
  <2> QED
    BY <2>1, <2>2
<1>3. ASSUME UNCHANGED <<disk, now, written, blurred>>,
             \/ Begin
             \/ Over
             \/ UNCHANGED <<seen, base>> /\ pc # "idle" /\ pc' # "idle"
      PROVE  /\ disk'[g].data <= written'
             /\ Behind(disk'[g], disk'[g], now', written')
             /\ pc' # "idle" => disk'[g].data \in seen'[g]
  <2>1. pc' # "idle" => disk'[g].data \in seen'[g]
    BY <1>t, <1>3 DEF Begin, Over, Present
  <2> QED
    BY <1>t, <1>3, <2>1 DEF Present
<1> QED
  BY <1>1, <1>2, <1>3, <1>t, Steps

LEMMA OnceStep == JInv /\ Next => Once'
<1> SUFFICES ASSUME JInv, Next PROVE Once'
  OBVIOUS
<1> USE DEF dir, repository, reading, run, ghosts
<1>t. IInv /\ TypeOK /\ Once /\ Reading
  BY DEF JInv, IInv
<1>1. CASE Begin \/ Walked \/ Plan \/ ColdDone \/ Release
  BY <1>1, <1>t DEF Begin, Walked, Plan, ColdDone, Release, NextPhase, Once,
     Reads
<1>2. CASE Quiesce
  <2>1. DOMAIN entries \cap Hot = {}
    BY <1>2 DEF Quiesce, NextPhase, JInv, IInv, HotLater
  <2> QED
    BY <1>2, <1>t, <2>1 DEF Quiesce, NextPhase, Once, Reads
<1>3. ASSUME NEW f \in Files, Stat(f) PROVE Once'
  <2>1. DOMAIN entries = {} /\ pc = "walk" /\ UNCHANGED <<pc, entries>>
    BY <1>3, <1>t DEF Stat, Once
  <2> QED
    BY <2>1 DEF Once, Reads
<1>4. ASSUME NEW f, Carry(f) \/ (Settled /\ f = cur) PROVE Once'
  <2>1. /\ pc \in Reads /\ f \in todo /\ f \in DOMAIN items
        /\ DOMAIN entries' = DOMAIN entries \cup {f}
        /\ \A x \in DOMAIN entries : x # f => entries'[x] = entries[x]
        /\ todo' = todo \ {f} /\ pc' = pc /\ items' = items
    BY <1>t, <1>4, EntryStep
  <2>2. f \in DOMAIN entries' => /\ entries'[f].mtime = items[f].mtime
                                 /\ entries'[f].inode = items[f].inode
    BY <1>4 DEF Carry, Settled, Plus
  <2> QED
    BY <1>t, <2>1, <2>2 DEF Once, Reads
<1>5. ASSUME NEW f \in Files, Open(f) \/ Vanished(f) PROVE Once'
  BY <1>5, <1>t DEF Open, Vanished, Once, Reads
<1>6. CASE Put \/ Tick
  BY <1>6, <1>t DEF Put, Tick, Once
<1>7. CASE Retry
  <2>1. pc \in Reads /\ cur \in todo /\ cur \notin DOMAIN entries
    BY <1>7, <1>t DEF Retry, Reading, Once
  <2>2. /\ DOMAIN items' = DOMAIN items /\ UNCHANGED <<pc, todo, entries>>
        /\ \A x \in DOMAIN items : x # cur => items'[x] = items[x]
    BY <1>7 DEF Retry
  <2>3. DOMAIN entries \subseteq DOMAIN items
    BY <1>t DEF TypeOK
  <2> QED
    BY <1>t, <2>1, <2>2, <2>3 DEF Once, Reads
<1>8. CASE Commit \/ Fail
  BY <1>8, NoneIs DEF Commit, Fail, Over, Once, Reads
<1>9. ASSUME NEW f \in Files, Write(f) \/ Place(f) \/ Remove(f) PROVE Once'
  <2>1. UNCHANGED <<pc, items, todo, entries>>
    BY <1>9, <1>t, EnvStep
  <2> QED
    BY <1>t, <2>1 DEF Once
<1> QED
  BY <1>1, <1>2, <1>3, <1>4, <1>5, <1>6, <1>7, <1>8, <1>9 DEF Next

LEMMA ClockStep == JInv /\ Next => Clock'
<1> SUFFICES ASSUME JInv, Next PROVE Clock'
  OBVIOUS
<1> USE DEF dir, repository, reading, run, ghosts
<1>t. IInv /\ TypeOK /\ Clock /\ Reading /\ Once /\ Present
  BY DEF JInv, IInv
<1>n. /\ \A f \in DOMAIN items :
            /\ f \in Files /\ items[f].data \in Nat
            /\ items[f].mtime \in Nat /\ items[f].inode \in Nat
      /\ \A f \in DOMAIN base :
            f \in Files /\ base[f].mtime \in Nat /\ base[f].inode \in Nat
      /\ \A f \in Files : disk[f] # NoFile =>
            /\ disk[f].data \in Nat
            /\ disk[f].mtime \in Nat /\ disk[f].inode \in Nat
      /\ now \in Nat /\ written \in Nat
  BY <1>t, Notes
<1>1. CASE Tick
  BY <1>1, <1>t, <1>n DEF Tick, Clock, Behind
<1>2. ASSUME NEW f \in Files, Write(f) \/ Place(f) \/ Remove(f) PROVE Clock'
  <2>1. items' = items /\ base' = base /\ written' \in {written, written + 1}
    BY <1>2 DEF Write, Place, Remove
  <2>2. \A g \in DOMAIN items : Behind(items[g], disk'[g], now', written')
    BY <1>2, <1>t, <1>n, BehindStep DEF Clock
  <2>3. \A g \in DOMAIN base : Behind(base[g], disk'[g], now', written')
    BY <1>2, <1>t, <1>n, BehindStep DEF Clock
  <2> QED
    BY <1>t, <1>n, <2>1, <2>2, <2>3 DEF Clock
<1>3. ASSUME UNCHANGED <<disk, now, written, items, base>> PROVE Clock'
  BY <1>3, <1>t DEF Clock
<1>4. CASE Begin \/ Walked \/ Plan \/ Put \/ Settled \/ ColdDone \/ Quiesce
           \/ Release
  BY <1>3, <1>4 DEF Begin, Walked, Plan, Put, Settled, ColdDone, Quiesce,
     Release
<1>5. ASSUME NEW f \in Files, Carry(f) \/ Open(f) \/ Vanished(f) PROVE Clock'
  BY <1>3, <1>5 DEF Carry, Open, Vanished
<1>6. ASSUME NEW f \in Files, Stat(f) PROVE Clock'
  <2>1. UNCHANGED <<disk, now, written, base>>
    BY <1>6 DEF Stat
  <2>2. CASE items' = items
    BY <1>3, <2>1, <2>2
  <2>3. CASE disk[f] # NoFile /\ items' = Plus(items, f, disk[f])
    <3>1. /\ DOMAIN items' = DOMAIN items \cup {f} /\ items'[f] = disk[f]
          /\ \A x \in DOMAIN items : x # f => items'[x] = items[x]
      BY ONLY <2>3 DEF Plus
    <3>2. disk[f].data <= written /\ Behind(disk[f], disk[f], now, written)
      BY <1>t, <2>3 DEF Present
    <3> QED
      BY <1>t, <2>1, <3>1, <3>2 DEF Clock
  <2> QED
    BY <1>6, <2>2, <2>3 DEF Stat
<1>7. CASE Retry
  <2>1. cur \in Files /\ disk[cur] # NoFile
        /\ UNCHANGED <<disk, now, written, base>>
    BY <1>7, <1>t DEF Retry, TypeOK
  <2>2. /\ DOMAIN items' = DOMAIN items
        /\ \A x \in DOMAIN items : x # cur => items'[x] = items[x]
        /\ cur \in DOMAIN items =>
             /\ items'[cur].mtime = disk[cur].mtime
             /\ items'[cur].data = items[cur].data
             /\ items'[cur].inode = items[cur].inode
    <3>1. cur \in DOMAIN items => items[cur] \in Stats
      BY <1>t DEF TypeOK
    <3> QED
      BY <1>7, <3>1 DEF Retry, Stats
  <2>3. cur \in DOMAIN items => Behind(items'[cur], disk[cur], now, written)
    BY <1>t, <1>n, <2>1, <2>2 DEF Present, Clock, Behind
  <2> QED
    BY <1>t, <2>1, <2>2, <2>3 DEF Clock
<1>8. CASE Commit \/ Fail
  <2>1. items' = None /\ UNCHANGED <<disk, now, written>>
    BY <1>8 DEF Commit, Fail, Over
  <2>2. \A f \in DOMAIN entries : Behind(entries[f], disk[f], now, written)
    <3>1. \A f \in DOMAIN entries : f \in DOMAIN items
      BY <1>t DEF TypeOK
    <3> QED
      BY <1>t, <3>1 DEF Once, Clock, Behind
  <2>3. base' \in {base, entries}
    BY <1>8 DEF Commit, Fail
  <2> QED
    BY <1>t, <2>1, <2>2, <2>3, NoneIs DEF Clock
<1> QED
  BY <1>1, <1>2, <1>4, <1>5, <1>6, <1>7, <1>8 DEF Next

LEMMA ToldStep == JInv /\ Next => Told'
<1> SUFFICES ASSUME JInv, Next PROVE Told'
  OBVIOUS
<1> USE DEF dir, repository, reading, run, ghosts
<1>t. IInv /\ TypeOK /\ Clock /\ Reading /\ Once /\ Told /\ Vouch /\ Half
  BY DEF JInv, IInv
<1>n. /\ \A f \in DOMAIN base :
            f \in Files /\ base[f].mtime \in Nat /\ base[f].inode \in Nat
      /\ \A f \in DOMAIN entries :
            /\ f \in DOMAIN items /\ f \in Files
            /\ entries[f].mtime \in Nat /\ entries[f].inode \in Nat
  BY <1>t, Notes
<1>1. ASSUME NEW f \in Files, Write(f) \/ Place(f) \/ Remove(f) PROVE Told'
  <2>1. base' = base /\ entries' = entries /\ warned' = warned
    BY <1>1 DEF Write, Place, Remove
  <2>2. \A g \in DOMAIN base : Tells(base[g], disk'[g], blurred')
    BY <1>1, <1>t, <1>n, TellsStep DEF Clock, Told
  <2>3. ASSUME ~warned, NEW g \in DOMAIN entries
        PROVE  Tells(entries[g], disk'[g], blurred')
    <3>1. Behind(entries[g], disk[g], now, written)
      BY <1>t, <1>n DEF Once, Clock, Behind
    <3>2. Tells(entries[g], disk[g], blurred)
      BY <1>t, <2>3 DEF Told
    <3> QED
      BY <1>1, <1>n, <3>1, <3>2, TellsStep
  <2> QED
    BY <2>1, <2>2, <2>3 DEF Told
<1>2. ASSUME UNCHANGED <<disk, blurred, base, entries>>, warned => warned'
      PROVE  Told'
  BY <1>2, <1>t DEF Told
<1>3. CASE Begin \/ Walked \/ Plan \/ Put \/ Retry \/ ColdDone \/ Quiesce
           \/ Release \/ Tick
  BY <1>2, <1>3 DEF Begin, Walked, Plan, Put, Retry, ColdDone, Quiesce,
     Release, Tick
<1>4. ASSUME NEW f \in Files, Stat(f) \/ Open(f) \/ Vanished(f) PROVE Told'
  BY <1>2, <1>4 DEF Stat, Open, Vanished
<1>5. ASSUME NEW f \in Files, Carry(f) PROVE Told'
  <2>1. /\ DOMAIN entries' = DOMAIN entries \cup {f}
        /\ \A x \in DOMAIN entries : x # f => entries'[x] = entries[x]
        /\ warned' = warned
    BY <1>t, <1>5, EntryStep
  <2>2. /\ UNCHANGED <<disk, blurred, base>> /\ Vouched(f)
        /\ entries'[f].data = base[f].data
        /\ entries'[f].mtime = items[f].mtime
        /\ entries'[f].inode = items[f].inode
    BY <1>5, <2>1 DEF Carry, Plus
  <2>3. Tells(entries'[f], disk[f], blurred)
    BY <1>t, <2>2 DEF Vouched, Unchanged, Told, Tells
  <2> QED
    BY <1>t, <2>1, <2>2, <2>3 DEF Told
<1>6. CASE Settled
  <2>1. /\ DOMAIN entries' = DOMAIN entries \cup {cur}
        /\ \A x \in DOMAIN entries : x # cur => entries'[x] = entries[x]
        /\ warned => warned'
        /\ fd # NoFd
    BY <1>t, <1>6, EntryStep
  <2>2. /\ UNCHANGED <<disk, blurred, base>>
        /\ entries'[cur].data = <<fd.first, fd.data>>
        /\ entries'[cur].mtime = items[cur].mtime
        /\ entries'[cur].inode = items[cur].inode
    BY <1>6, <2>1 DEF Settled, Plus
  <2>3. Tells(entries'[cur], disk[cur], blurred)
    BY <1>t, <2>1, <2>2 DEF Half, Halves, Tells
  <2> QED
    BY <1>t, <2>1, <2>2, <2>3 DEF Told
<1>7. CASE Commit \/ Fail
  <2>1. DOMAIN entries' = {} /\ UNCHANGED <<disk, blurred>>
    BY <1>7, NoneIs DEF Commit, Fail, Over
  <2>2. base' = base \/ (~warned /\ base' = entries)
    BY <1>7 DEF Commit, Fail
  <2> QED
    BY <1>t, <2>1, <2>2 DEF Told
<1> QED
  BY <1>1, <1>3, <1>4, <1>5, <1>6, <1>7 DEF Next

LEMMA VouchStep == JInv /\ Next => Vouch'
<1> DEFINE Says(f) ==
             /\ items[f].data \in seen[f]
             /\ f \in DOMAIN base /\ Unchanged(base[f], items[f]) =>
                   \/ base[f].data = <<items[f].data, items[f].data>>
                   \/ items[f].data \in blurred \/ Blurred(base[f])
<1> SUFFICES ASSUME JInv, Next, NEW g \in DOMAIN items', Fresh(g)'
             PROVE  Says(g)'
  BY DEF Vouch
<1> USE DEF dir, repository, reading, run, ghosts
<1>t. IInv /\ TypeOK /\ Reading /\ Once /\ Told /\ Vouch /\ Present
  BY DEF JInv, IInv
<1>1. ASSUME UNCHANGED <<items, base>>, blurred \subseteq blurred',
             g \in DOMAIN items => seen[g] \subseteq seen'[g], Fresh(g)
      PROVE  Says(g)'
  BY <1>1, <1>t DEF Vouch, Blurred
<1>2. CASE Begin
  <2>1. DOMAIN items' = {}
    BY <1>2, <1>t DEF Begin, Once
  <2> QED
    BY <2>1
<1>3. CASE Walked \/ Plan \/ ColdDone \/ Quiesce \/ Release
  <2>1. Fresh(g)
    BY <1>3, <1>t DEF Fresh, Reads, Walked, Plan, ColdDone, Quiesce, Release,
       NextPhase, Reading
  <2>2. UNCHANGED <<items, base, blurred, seen>>
    BY <1>3 DEF Walked, Plan, ColdDone, Quiesce, Release
  <2> QED
    BY <1>1, <2>1, <2>2
<1>4. ASSUME NEW f \in Files, Stat(f) PROVE Says(g)'
  <2>1. UNCHANGED <<disk, base, blurred, seen, pc, cur>> /\ pc = "walk"
    BY <1>4 DEF Stat
  <2>2. CASE items' = items
    BY <1>1, <2>1, <2>2 DEF Fresh
  <2>3. CASE disk[f] # NoFile /\ items' = Plus(items, f, disk[f])
    <3>1. /\ DOMAIN items' = DOMAIN items \cup {f} /\ items'[f] = disk[f]
          /\ \A x \in DOMAIN items : x # f => items'[x] = items[x]
      BY ONLY <2>3 DEF Plus
    <3>2. CASE g = f
      <4>1. disk[f].data \in seen[f]
        BY <1>t, <2>1, <2>3 DEF Present
      <4>2. f \in DOMAIN base => Tells(base[f], disk[f], blurred)
        BY <1>t DEF Told
      <4> QED
        BY <2>1, <2>3, <3>1, <3>2, <4>1, <4>2 DEF Tells, Unchanged, Blurred
    <3>3. CASE g # f
      <4>1. g \in DOMAIN items /\ Fresh(g)
        BY <2>1, <3>1, <3>3 DEF Fresh
      <4> QED
        BY <1>t, <2>1, <3>1, <3>3, <4>1 DEF Vouch, Blurred, Unchanged
    <3> QED
      BY <3>2, <3>3
  <2> QED
    BY <1>4, <2>2, <2>3 DEF Stat
<1>5. ASSUME NEW f \in Files, Carry(f) \/ Open(f) \/ Vanished(f)
      PROVE  Says(g)'
  <2>1. UNCHANGED <<items, base, blurred, seen>> /\ f \in todo
        /\ pc \in Reads /\ pc' = pc /\ todo' \subseteq todo
    BY <1>5 DEF Carry, Open, Vanished, Reads
  <2>2. Fresh(g)
    <3>1. cur \in {f, NoFile}
      BY <1>5 DEF Carry, Open, Vanished
    <3>2. g \in Files
      BY <1>t, <2>1 DEF TypeOK
    <3>3. pc = "cold" => f \in Cold
      BY <1>t, <2>1 DEF Reading, Tier
    <3>4. cur' = f \/ f \notin todo'
      BY <1>5 DEF Carry, Open, Vanished
    <3>5. g # cur
      <4>1. CASE cur = NoFile
        BY <3>2, <4>1, TiersAssumption
      <4>2. CASE cur = f
        BY <2>1, <3>3, <3>4, <4>2, TiersAssumption DEF Fresh, Reads
      <4> QED
        BY <3>1, <4>1, <4>2
    <3> QED
      BY <2>1, <3>5, TiersAssumption DEF Fresh, Reads
  <2> QED
    BY <1>1, <2>1, <2>2
<1>6. CASE Put \/ Tick
  BY <1>1, <1>6 DEF Put, Tick, Fresh
<1>7. CASE Settled
  <2>1. UNCHANGED <<items, base, blurred, seen, pc>> /\ pc \in Reads
        /\ cur \in todo /\ todo' = todo \ {cur}
    BY <1>t, <1>7, EntryStep DEF Settled
  <2>2. pc = "cold" => cur \in Cold
    BY <1>t, <2>1 DEF Reading, Tier
  <2>3. Fresh(g)
    BY <2>1, <2>2, TiersAssumption DEF Fresh, Reads
  <2> QED
    BY <1>1, <2>1, <2>3
<1>8. CASE Retry
  <2>1. /\ DOMAIN items' = DOMAIN items
        /\ \A x \in DOMAIN items : x # cur => items'[x] = items[x]
        /\ UNCHANGED <<pc, todo, cur, seen, blurred, base>>
    BY <1>8 DEF Retry
  <2>2. g # cur /\ Fresh(g)
    BY <2>1 DEF Fresh
  <2> QED
    BY <1>t, <2>1, <2>2 DEF Vouch, Unchanged, Blurred
<1>9. CASE Commit \/ Fail
  BY <1>9, NoneIs DEF Commit, Fail, Over
<1>10. ASSUME NEW f \in Files, Write(f) \/ Place(f) \/ Remove(f)
       PROVE  Says(g)'
  <2>1. UNCHANGED <<items, base, pc, todo, cur>> /\ blurred \subseteq blurred'
        /\ \A x \in Files : seen[x] \subseteq seen'[x]
    BY <1>t, <1>10, EnvStep
  <2>2. \A x \in DOMAIN items : x \in Files
    BY <1>t DEF TypeOK
  <2>3. Fresh(g)
    BY <2>1 DEF Fresh
  <2> QED
    BY <1>1, <2>1, <2>2, <2>3
<1> QED
  BY <1>2, <1>3, <1>4, <1>5, <1>6, <1>7, <1>8, <1>9, <1>10 DEF Next

LEMMA HalfStep == JInv /\ Next => Half'
<1> SUFFICES ASSUME JInv, Next, fd' # NoFd PROVE Half'
  BY DEF Half
<1> DEFINE TornMeansBlurred ==
             fd.first # fd.data /\ disk[cur] # NoFile
             /\ disk[cur].mtime = items[cur].mtime =>
                seen[cur] \cap blurred # {}
<1> USE DEF dir, repository, reading, run, ghosts
<1>t. IInv /\ TypeOK /\ Reading /\ Half /\ Present /\ Clock
  BY DEF JInv, IInv
<1>1. ASSUME UNCHANGED <<items, disk, blurred, seen, cur, fd>> PROVE Half'
  BY <1>1, <1>t DEF Half, Halves
<1>2. CASE Walked \/ Plan \/ ColdDone \/ Quiesce \/ Release \/ Tick
  BY <1>1, <1>2 DEF Walked, Plan, ColdDone, Quiesce, Release, Tick
<1>3. CASE Begin
  BY <1>3, <1>t DEF Begin, Reading, Reads
<1>4. ASSUME NEW f \in Files, Stat(f) PROVE Half'
  BY <1>4, <1>t DEF Stat, Reading, Reads
<1>5. ASSUME NEW f \in Files, Carry(f) \/ Vanished(f) PROVE Half'
  BY <1>5, <1>t DEF Carry, Vanished, Reading
<1>6. ASSUME NEW f \in Files, Open(f) PROVE Half'
  <2>1. /\ fd'.first = disk[f].data /\ fd'.data = disk[f].data
        /\ cur' = f /\ UNCHANGED <<items, disk, blurred, seen>>
        /\ disk[f] # NoFile /\ pc # "idle"
    BY <1>6 DEF Open
  <2>2. disk[f].data \in seen[f]
    BY <1>t, <2>1 DEF Present
  <2> QED
    BY <2>1, <2>2 DEF Half, Halves, Tells
<1>7. CASE Put
  <2>1. fd' = [fd EXCEPT !.put = TRUE] /\ fd # NoFd
        /\ UNCHANGED <<items, disk, blurred, seen, cur>>
    BY <1>7 DEF Put
  <2>2. fd \in [data : 0..MaxWrites, first : 0..MaxWrites,
                size : Sizes \cup {0}, put : BOOLEAN]
    BY <1>t DEF TypeOK
  <2>3. fd'.data = fd.data /\ fd'.first = fd.first
    BY <2>1, <2>2
  <2> QED
    BY <1>t, <2>1, <2>3 DEF Half, Halves
<1>8. CASE Settled \/ Retry
  BY <1>8 DEF Settled, Retry
<1>9. CASE Commit \/ Fail
  BY <1>9 DEF Commit, Fail, Over
<1>10. ASSUME NEW f \in Files, Write(f) \/ Place(f) \/ Remove(f) PROVE Half'
  <2>1. /\ UNCHANGED <<items, pc, cur>> /\ blurred \subseteq blurred'
        /\ \A g \in Files : seen[g] \subseteq seen'[g]
        /\ \A g \in Files : g # f => disk'[g] = disk[g]
        /\ fd' # fd => /\ cur = f /\ fd # NoFd /\ fd'.first = fd.first
                       /\ fd'.data = written + 1 /\ disk'[f] # NoFile
    BY <1>t, <1>10, EnvStep
  <2>2. fd # NoFd /\ cur # NoFile /\ cur \in Files /\ pc \in Reads
    BY <1>t, <2>1 DEF Reading, TypeOK
  <2>3. cur \in DOMAIN items
    BY <1>t, <2>2 DEF Reading
  <2>4. {fd'.first, fd'.data} \subseteq seen'[cur]
    <3>1. fd' # fd => written + 1 \in seen'[cur]
      BY <1>t, <1>10, <2>1, <2>2, EnvStep DEF Reads
    <3> QED
      BY <1>t, <2>1, <2>2, <3>1 DEF Half
  <2>5. TornMeansBlurred'
    <3> SUFFICES ASSUME fd'.first # fd'.data, disk'[cur] # NoFile,
                        disk'[cur].mtime = items[cur].mtime
                 PROVE  seen'[cur] \cap blurred' # {}
      BY <2>1
    <3>1. CASE f = cur
      <4>1. AsWalked(f, disk'[f].mtime)
        BY <2>3, <3>1 DEF AsWalked
      <4>2. written + 1 \in blurred'
        BY <1>t, <1>10, <3>1, <4>1, EnvStep
      <4>3. written + 1 \in seen'[cur]
        BY <1>t, <1>10, <2>2, <3>1, EnvStep DEF Reads
      <4> QED
        BY <4>2, <4>3
    <3>2. CASE f # cur
      BY <1>t, <2>1, <2>2, <3>2 DEF Half
    <3> QED
      BY <3>1, <3>2
  <2>6. Tells(Halves, disk[cur], blurred)
    BY <1>t, <2>2 DEF Half
  <2>7. Behind(Halves, disk[cur], now, written)
    BY <1>t, <2>3 DEF Clock, Behind, Halves
  <2>8. /\ Halves.mtime \in Nat /\ Halves.inode \in Nat
        /\ Halves'.mtime = Halves.mtime /\ Halves'.inode = Halves.inode
        /\ Halves'.data = Halves.data \/ (fd' # fd /\ cur = f)
    BY <1>t, <2>1, <2>3, Notes DEF Halves
  <2>9. Tells(Halves', disk'[cur], blurred')
    BY <1>10, <2>2, <2>6, <2>7, <2>8, TellsStep
  <2> QED
    BY <2>1, <2>4, <2>5, <2>9 DEF Half
<1> QED
  BY <1>2, <1>3, <1>4, <1>5, <1>6, <1>7, <1>8, <1>9, <1>10 DEF Next

LEMMA SoFarStep == JInv /\ Next => SoFar'
<1> SUFFICES ASSUME JInv, Next, ~warned', NEW g \in DOMAIN entries'
             PROVE  (Held(entries[g], g) \/ Hidden(entries[g], g))'
  BY DEF SoFar
<1> DEFINE Good == Held(entries[g], g) \/ Hidden(entries[g], g)
<1> USE DEF dir, repository, reading, run, ghosts
<1>t. IInv /\ TypeOK /\ Reading /\ Half /\ Vouch /\ SoFar /\ Once
  BY DEF JInv, IInv
<1>1. ASSUME g \in DOMAIN entries, entries'[g] = entries[g],
             blurred \subseteq blurred', seen[g] \subseteq seen'[g], ~warned
      PROVE  Good'
  BY <1>1, <1>t DEF SoFar, Held, Hidden, Whole, Blurred
<1>2. CASE Walked \/ Plan \/ ColdDone \/ Quiesce \/ Release \/ Tick \/ Put
           \/ Retry
  BY <1>1, <1>2 DEF Walked, Plan, ColdDone, Quiesce, Release, Tick, Put, Retry
<1>3. CASE Begin
  BY <1>3, <1>t DEF Begin, Once
<1>4. ASSUME NEW f \in Files, Stat(f) \/ Open(f) \/ Vanished(f) PROVE Good'
  BY <1>1, <1>4 DEF Stat, Open, Vanished
<1>5. ASSUME NEW f \in Files, Carry(f) PROVE Good'
  <2>1. /\ DOMAIN entries' = DOMAIN entries \cup {f} /\ warned' = warned
        /\ \A x \in DOMAIN entries : x # f => entries'[x] = entries[x]
        /\ pc \in Reads /\ f \in todo /\ f \in DOMAIN items
    BY <1>t, <1>5, EntryStep
  <2>2. UNCHANGED <<blurred, seen>> /\ cur = NoFile /\ Vouched(f)
    BY <1>5 DEF Carry
  <2>3. entries'[f].data = base[f].data
    BY <1>5 DEF Carry, Plus
  <2>4. CASE g = f
    <3>1. Fresh(f)
      BY <2>1, <2>2, TiersAssumption DEF Fresh
    <3>2. /\ items[f].data \in seen[f]
          /\ \/ base[f].data = <<items[f].data, items[f].data>>
             \/ items[f].data \in blurred \/ Blurred(base[f])
      BY <1>t, <2>1, <2>2, <3>1 DEF Vouch, Vouched
    <3> QED
      BY <2>2, <2>3, <2>4, <3>2 DEF Held, Hidden, Whole, Blurred
  <2>5. CASE g # f
    BY <1>1, <2>1, <2>2, <2>5
  <2> QED
    BY <2>4, <2>5
<1>6. CASE Settled
  <2>1. /\ DOMAIN entries' = DOMAIN entries \cup {cur}
        /\ \A x \in DOMAIN entries : x # cur => entries'[x] = entries[x]
        /\ entries'[cur].data = <<fd.first, fd.data>>
        /\ disk[cur] # NoFile /\ fd # NoFd /\ (warned => warned')
    BY <1>t, <1>6, EntryStep
  <2>2. UNCHANGED <<blurred, seen>> /\ Stable
    BY <1>6 DEF Settled
  <2>3. CASE g = cur
    <3>1. /\ {fd.first, fd.data} \subseteq seen[cur]
          /\ fd.first # fd.data => seen[cur] \cap blurred # {}
      BY <1>t, <2>1, <2>2 DEF Half, Stable
    <3> QED
      BY <2>1, <2>2, <2>3, <3>1 DEF Held, Hidden, Whole
  <2>4. CASE g # cur
    BY <1>1, <2>1, <2>2, <2>4
  <2> QED
    BY <2>3, <2>4
<1>7. CASE Commit \/ Fail
  BY <1>7, NoneIs DEF Commit, Fail, Over
<1>8. ASSUME NEW f \in Files, Write(f) \/ Place(f) \/ Remove(f) PROVE Good'
  <2>1. /\ UNCHANGED <<entries, warned>> /\ blurred \subseteq blurred'
        /\ \A x \in Files : seen[x] \subseteq seen'[x]
    BY <1>t, <1>8, EnvStep
  <2>2. g \in Files
    BY <1>t, <2>1 DEF TypeOK
  <2> QED
    BY <1>1, <2>1, <2>2
<1> QED
  BY <1>2, <1>3, <1>4, <1>5, <1>6, <1>7, <1>8 DEF Next

LEMMA SameStep == JInv /\ Next => Same'
<1> SUFFICES ASSUME JInv, Next PROVE Same'
  OBVIOUS
<1> USE DEF dir, repository, reading, run, ghosts
<1>t. IInv /\ TypeOK /\ Reading /\ Same /\ Once /\ Clock
  BY DEF JInv, IInv
<1>1. ASSUME UNCHANGED <<items, disk, base, paranoid, seen>>,
             cur' = NoFile \/ (cur' = cur /\ fd' = fd)
      PROVE  Same'
  BY <1>1, <1>t DEF Same, Undisturbed, Vouched
<1>2. CASE Walked \/ Plan \/ ColdDone \/ Quiesce \/ Release \/ Tick
  BY <1>1, <1>2 DEF Walked, Plan, ColdDone, Quiesce, Release, Tick
<1>3. CASE Begin
  BY <1>3, <1>t DEF Begin, Reading, Reads, Once, Same
<1>4. ASSUME NEW f \in Files, Stat(f) PROVE Same'
  <2>1. UNCHANGED <<disk, base, paranoid, seen, cur, fd>> /\ cur = NoFile
    BY <1>4, <1>t DEF Stat, Reading, Reads
  <2>2. CASE items' = items
    BY <1>1, <2>1, <2>2
  <2>3. CASE items' = Plus(items, f, disk[f])
    <3>1. /\ DOMAIN items' = DOMAIN items \cup {f} /\ items'[f] = disk[f]
          /\ \A x \in DOMAIN items : x # f => items'[x] = items[x]
      BY ONLY <2>3 DEF Plus
    <3> QED
      BY <1>t, <2>1, <3>1 DEF Same, Undisturbed
  <2> QED
    BY <1>4, <2>2, <2>3 DEF Stat
<1>5. ASSUME NEW f \in Files, Carry(f) \/ Vanished(f) PROVE Same'
  BY <1>1, <1>5 DEF Carry, Vanished
<1>6. ASSUME NEW f \in Files, Open(f) PROVE Same'
  <2>1. /\ UNCHANGED <<items, disk, base, paranoid, seen>>
        /\ cur' = f /\ fd'.size = disk[f].size
        /\ \/ ~Vouched(f)
           \/ cur = f /\ cur # NoFile
    BY <1>6, TiersAssumption DEF Open
  <2>2. f \in DOMAIN items
    BY <1>t, <1>6 DEF Open, Reading, Reads
  <2> QED
    BY <1>t, <2>1, <2>2 DEF Same, Undisturbed, Vouched
<1>7. CASE Put
  <2>1. fd' = [fd EXCEPT !.put = TRUE] /\ fd # NoFd
        /\ UNCHANGED <<items, disk, base, paranoid, seen, cur>>
    BY <1>7 DEF Put
  <2>2. fd \in [data : 0..MaxWrites, first : 0..MaxWrites,
                size : Sizes \cup {0}, put : BOOLEAN]
    BY <1>t DEF TypeOK
  <2>3. fd'.size = fd.size
    BY <2>1, <2>2
  <2> QED
    BY <1>t, <2>1, <2>3 DEF Same, Undisturbed, Vouched
<1>8. CASE Settled
  BY <1>1, <1>8 DEF Settled
<1>9. CASE Retry
  <2>1. cur # NoFile /\ cur \in DOMAIN items
    BY <1>9, <1>t DEF Retry, Reading, Reads
  <2>2. /\ DOMAIN items' = DOMAIN items
        /\ \A x \in DOMAIN items : x # cur => items'[x] = items[x]
        /\ items'[cur].data = items[cur].data
        /\ UNCHANGED <<disk, base, paranoid, seen, cur>> /\ fd' = NoFd
    <3>1. items[cur] \in Stats
      BY <1>t, <2>1 DEF TypeOK
    <3> QED
      BY <1>9, <2>1, <3>1 DEF Retry, Stats
  <2>3. ~Undisturbed(cur)
    BY <1>9, <1>t, <2>1 DEF Retry, Stable, Same
  <2> QED
    BY <1>t, <2>1, <2>2, <2>3 DEF Same, Undisturbed
<1>10. CASE Commit \/ Fail
  BY <1>10, NoneIs DEF Commit, Fail, Over, Same
<1>11. ASSUME NEW f \in Files, Write(f) \/ Place(f) \/ Remove(f) PROVE Same'
  <2>1. /\ UNCHANGED <<items, base, paranoid, cur, pc>>
        /\ \A g \in Files : g # f => disk'[g] = disk[g] /\ seen'[g] = seen[g]
        /\ fd' # fd => cur = f /\ fd # NoFd
    BY <1>t, <1>11, EnvStep
  <2>2. f \in DOMAIN items => ~Undisturbed(f)'
    <3> SUFFICES ASSUME f \in DOMAIN items PROVE ~Undisturbed(f)'
      OBVIOUS
    <3>1. items[f].data <= written /\ written \in Nat /\ pc # "idle"
      BY <1>t, Notes DEF Clock, Once
    <3>2. items[f].data \in 1..MaxWrites
      BY <1>t DEF TypeOK, Stats
    <3>3. written + 1 \in seen'[f] \/ 0 \in seen'[f]
      BY <1>t, <1>11, <3>1, EnvStep
    <3> QED
      BY <2>1, <3>1, <3>2, <3>3, BoundsAssumption DEF Undisturbed
  <2>3. \A g \in DOMAIN items : g \in Files
    BY <1>t DEF TypeOK
  <2>4. cur # NoFile => cur \in DOMAIN items
    BY <1>t DEF Reading, Reads
  <2> QED
    BY <1>t, <2>1, <2>2, <2>3, <2>4 DEF Same, Undisturbed, Vouched
<1> QED
  BY <1>2, <1>3, <1>4, <1>5, <1>6, <1>7, <1>8, <1>9, <1>10, <1>11 DEF Next

THEOREM InvariantJ == Spec => []JInv
<1>1. JInv /\ [Next]_vars => JInv'
  <2> SUFFICES ASSUME JInv, [Next]_vars PROVE JInv'
    OBVIOUS
  <2>1. IInv'
    BY InvStep DEF JInv
  <2>2. CASE Next
    BY <2>1, <2>2, PresentStep, OnceStep, ClockStep, ToldStep, VouchStep,
       HalfStep, SoFarStep, SameStep DEF JInv
  <2>3. CASE UNCHANGED vars
    <3> USE <2>3 DEF JInv, vars, dir, repository, run, reading, ghosts
    <3>1. Present' /\ Once' /\ Clock' /\ Told'
      BY DEF Present, Once, Clock, Told, Reads
    <3>2. Vouch' /\ Half' /\ SoFar' /\ Same'
      BY DEF Vouch, Half, SoFar, Same, Fresh, Halves, Held, Hidden, Whole,
         Blurred, Undisturbed, Vouched, Unchanged, Reads
    <3> QED
      BY <2>1, <3>1, <3>2
  <2> QED
    BY <2>2, <2>3
<1> QED
  BY InitJ, <1>1, PTL DEF Spec

\* A complete snapshot lists of every file one content that it really had
\* while the run lasted.  The files are any, and so is what is written to
\* them meanwhile; only a write that hides behind size and time is excused.
THEOREM ListedIsReal == Spec => []Faithful
<1>1. JInv => Faithful
  BY DEF JInv, SoFar, Held, Hidden, Faithful
<1> QED
  BY <1>1, InvariantJ, PTL

----------------------------------------------------------------------------
(* The space.  A sum of sizes is a number of bytes.                        *)

LEMMA BytesAreFinite ==
    ASSUME NEW S, IsFiniteSet(S), NEW size, \A x \in S : size[x] \in Nat
    PROVE  IsFiniteSet(Bytes(S, size)) /\ SumOf(S, size) \in Nat
<1> DEFINE Of(x) == {x} \X (1..size[x])
           R == {Of(x) : x \in S}
           g == [x \in S |-> Of(x)]
<1>1. IsFiniteSet(R)
  <2> HIDE DEF Of
  <2>1. g \in [S -> R] /\ \A r \in R : \E x \in S : g[x] = r
    OBVIOUS
  <2> HIDE DEF g, R
  <2>2. g \in Surjection(S, R)
    BY <2>1, Fun_IsSurj
  <2> QED
    BY <2>2, FS_Surjection
<1>2. \A r \in R : IsFiniteSet(r)
  <2> SUFFICES ASSUME NEW x \in S PROVE IsFiniteSet(Of(x))
    OBVIOUS
  <2>1. IsFiniteSet({x})
    BY FS_Singleton
  <2>2. size[x] \in Int /\ 1 \in Int
    OBVIOUS
  <2>3. IsFiniteSet(1..size[x])
    BY <2>2, FS_Interval
  <2> QED
    BY <2>1, <2>3, FS_Product
<1>3. Bytes(S, size) = UNION R
  BY DEF Bytes
<1>4. IsFiniteSet(UNION R)
  <2> HIDE DEF R
  <2> QED
    BY <1>1, <1>2, FS_UNION
<1> QED
  BY <1>3, <1>4, FS_CardinalityType DEF SumOf

LEMMA OneMore ==
    ASSUME NEW S, IsFiniteSet(S), NEW size, \A x \in S : size[x] \in Nat,
           NEW y, y \notin S, size[y] \in Nat
    PROVE  SumOf(S \cup {y}, size) = SumOf(S, size) + size[y]
<1> DEFINE B == Bytes(S, size)
           Y == {y} \X (1..size[y])
<1>1. Bytes(S \cup {y}, size) = B \cup Y
  BY DEF Bytes
<1>2. IsFiniteSet(Y) /\ Cardinality(Y) = size[y]
  <2>1. IsFiniteSet({y}) /\ Cardinality({y}) = 1
    BY FS_Singleton
  <2>2. IsFiniteSet(1..size[y]) /\ Cardinality(1..size[y]) = size[y]
    BY FS_Interval
  <2>3. IsFiniteSet(Y) /\ Cardinality(Y) = 1 * size[y]
    BY <2>1, <2>2, FS_Product
  <2> QED
    BY <2>3
<1>3. B \cap Y = {}
  BY DEF Bytes
<1>4. IsFiniteSet(B) /\ Cardinality(B) \in Nat
  BY BytesAreFinite DEF SumOf
<1>5. Cardinality(B \cup Y) = Cardinality(B) + Cardinality(Y) - 0
  <2> HIDE DEF B, Y
  <2> QED
    BY <1>2, <1>3, <1>4, FS_Union, FS_EmptySet
<1>6. /\ SumOf(S, size) = Cardinality(B)
      /\ SumOf(S \cup {y}, size) = Cardinality(B \cup Y)
  BY <1>1 DEF SumOf
<1> QED
  <2> HIDE DEF B, Y
  <2> QED
    BY <1>2, <1>4, <1>5, <1>6

LEMMA NotMore ==
    ASSUME NEW S, IsFiniteSet(S), NEW size, \A x \in S : size[x] \in Nat,
           NEW T \in SUBSET S
    PROVE  SumOf(T, size) <= SumOf(S, size)
<1>1. Bytes(T, size) \in SUBSET Bytes(S, size)
  BY DEF Bytes
<1> QED
  BY <1>1, BytesAreFinite, FS_Subset DEF SumOf

LEMMA SameSizes ==
    ASSUME NEW S, NEW size, NEW other, \A x \in S : size[x] = other[x]
    PROVE  SumOf(S, size) = SumOf(S, other)
<1>1. Bytes(S, size) = Bytes(S, other)
  BY DEF Bytes
<1> QED
  BY <1>1 DEF SumOf

\* What Put makes of a file that nobody wrote to, and the files whose object
\* the run may yet have to put.
Object(f) == [parts |-> <<items[f].data, items[f].data>>,
              size |-> items[f].size]
Left == {f \in DOMAIN items : ~Vouched(f) /\ Object(f) \notin store}
SizesOf(S) == [x \in S |-> items[x].size]
Stored == SumOf(store, [o \in store |-> o.size])
AllUndisturbed == \A f \in DOMAIN items : Undisturbed(f)

\* There is room for what is left, and the reserve beside it.
Room ==
    /\ IsFiniteSet(store)
    /\ pc \in {"cold", "quiesce", "hot", "commit"} /\ AllUndisturbed =>
          Stored + SumOf(Left, SizesOf(Left)) + Reserve <= Disk

LEMMA Counts ==
    ASSUME TypeOK, IsFiniteSet(store)
    PROVE  /\ Stored \in Nat
           /\ \A S \in SUBSET DOMAIN items :
                 IsFiniteSet(S) /\ SumOf(S, SizesOf(S)) \in Nat
           /\ \A o \in store : o.size \in Nat
           /\ \A f \in DOMAIN items : items[f].size \in Nat
<1>1. \A o \in store : o.size \in Nat
  BY BoundsAssumption DEF TypeOK
<1>2. \A f \in DOMAIN items : items[f].size \in Nat
  BY BoundsAssumption DEF TypeOK, Stats
<1>3. Stored \in Nat
  BY <1>1, BytesAreFinite DEF Stored
<1>4. ASSUME NEW S \in SUBSET DOMAIN items
      PROVE  IsFiniteSet(S) /\ SumOf(S, SizesOf(S)) \in Nat
  <2>1. S \in SUBSET Files
    BY DEF TypeOK
  <2>2. IsFiniteSet(S)
    BY <2>1, TiersAssumption, FS_Subset
  <2> QED
    BY <1>2, <2>2, BytesAreFinite DEF SizesOf
<1> QED
  BY <1>1, <1>2, <1>3, <1>4

\* What was undisturbed after a step was so before.
LEMMA Quieter ==
    ASSUME JInv, NEW f \in Files, Write(f) \/ Place(f) \/ Remove(f),
           AllUndisturbed', pc # "idle"
    PROVE  AllUndisturbed
<1>t. IInv /\ TypeOK /\ Clock
  BY DEF JInv, IInv
<1>1. /\ items' = items
      /\ \A g \in Files : g # f => seen'[g] = seen[g]
      /\ written + 1 \in seen'[f] \/ 0 \in seen'[f]
  BY <1>t, EnvStep
<1>2. f \notin DOMAIN items
  <2> SUFFICES ASSUME f \in DOMAIN items PROVE FALSE
    OBVIOUS
  <2>1. items[f].data <= written /\ written \in Nat
    BY <1>t, Notes DEF Clock
  <2>2. items[f].data \in 1..MaxWrites
    BY <1>t DEF TypeOK, Stats
  <2>3. seen'[f] = {items[f].data}
    BY <1>1 DEF AllUndisturbed, Undisturbed
  <2> QED
    BY <1>1, <2>1, <2>2, <2>3, BoundsAssumption
<1>3. \A g \in DOMAIN items : g \in Files
  BY <1>t DEF TypeOK
<1> QED
  BY <1>1, <1>2, <1>3 DEF AllUndisturbed, Undisturbed

\* Put moves at most one file from what is left to what is stored.
LEMMA PutKeepsRoom ==
    ASSUME JInv, Room, Put, AllUndisturbed, pc \in Reads
    PROVE  Room'
<1>t. IInv /\ TypeOK /\ Reading /\ Same /\ Half
  BY DEF JInv, IInv
<1>1. /\ fd # NoFd /\ UNCHANGED <<items, base, paranoid, seen, pc>>
      /\ store' = store \cup {[parts |-> <<fd.first, fd.data>>,
                               size |-> fd.size]}
  BY DEF Put, dir, ghosts
<1>2. cur \in DOMAIN items /\ cur # NoFile
  BY <1>t, <1>1 DEF Reading
<1>3. [parts |-> <<fd.first, fd.data>>, size |-> fd.size] = Object(cur)
      /\ ~Vouched(cur)
  <2>1. Undisturbed(cur)
    BY <1>2 DEF AllUndisturbed
  <2>2. fd.first = items[cur].data /\ fd.data = items[cur].data
    BY <1>t, <1>1, <2>1 DEF Half, Undisturbed
  <2>3. fd.size = items[cur].size /\ ~Vouched(cur)
    BY <1>t, <1>1, <1>2, <2>1 DEF Same
  <2> QED
    BY <2>2, <2>3 DEF Object
<1>4. Left' = Left \ {f \in DOMAIN items : Object(f) = Object(cur)}
  BY <1>1, <1>3 DEF Left, Vouched, Object
<1>5. IsFiniteSet(store) /\ IsFiniteSet(store')
      /\ Stored + SumOf(Left, SizesOf(Left)) + Reserve <= Disk
  BY <1>1, FS_AddElement DEF Room, Reads
<1>6. /\ Stored \in Nat
      /\ \A S \in SUBSET DOMAIN items :
            IsFiniteSet(S) /\ SumOf(S, SizesOf(S)) \in Nat
      /\ \A o \in store : o.size \in Nat
      /\ \A f \in DOMAIN items : items[f].size \in Nat
  BY <1>t, <1>5, Counts
<1>7. CASE Object(cur) \in store
  <2>1. store' = store /\ Left' = Left
    BY <1>1, <1>3, <1>7 DEF Left, Vouched, Object
  <2> QED
    BY <1>1, <1>5, <2>1 DEF Room, Stored, SizesOf
<1>8. CASE Object(cur) \notin store
  <2> DEFINE o == Object(cur)
             Rest == Left \ {cur}
             size == [x \in store' |-> x.size]
  <2>1. o.size = items[cur].size /\ o.size \in Nat
    BY <1>2, <1>6 DEF Object
  <2>2. Stored' = Stored + items[cur].size
    <3>1. store' = store \cup {o} /\ o \notin store
      BY <1>1, <1>3, <1>8
    <3>2. SumOf(store \cup {o}, size) = SumOf(store, size) + size[o]
      <4>1. \A x \in store : size[x] \in Nat
        BY <1>6, <3>1
      <4>2. size[o] \in Nat /\ size[o] = o.size
        BY <2>1, <3>1
      <4> HIDE DEF o, size
      <4> QED
        BY <1>5, <3>1, <4>1, <4>2, OneMore
    <3>3. SumOf(store, size) = Stored
      <4>1. \A x \in store : size[x] = [y \in store |-> y.size][x]
        BY <3>1
      <4> HIDE DEF size
      <4> QED
        BY <4>1, SameSizes DEF Stored
    <3>4. size[o] = items[cur].size
      BY <2>1, <3>1
    <3> QED
      BY <3>1, <3>2, <3>3, <3>4 DEF Stored
  <2>3. SumOf(Left, SizesOf(Left)) = SumOf(Rest, SizesOf(Rest))
                                       + items[cur].size
    <3>1. cur \in Left /\ Left = Rest \cup {cur} /\ cur \notin Rest
      BY <1>2, <1>3, <1>8 DEF Left
    <3>2. /\ \A x \in Left : SizesOf(Left)[x] \in Nat
          /\ SizesOf(Left)[cur] = items[cur].size
          /\ \A x \in Rest : SizesOf(Left)[x] = SizesOf(Rest)[x]
      BY <1>6, <3>1 DEF SizesOf, Left
    <3>3. IsFiniteSet(Rest)
      BY <1>6 DEF Left
    <3> HIDE DEF Rest
    <3>4. SumOf(Rest \cup {cur}, SizesOf(Left))
            = SumOf(Rest, SizesOf(Left)) + SizesOf(Left)[cur]
      BY <3>1, <3>2, <3>3, OneMore
    <3>5. SumOf(Rest, SizesOf(Left)) = SumOf(Rest, SizesOf(Rest))
      BY <3>2, SameSizes
    <3> QED
      BY <3>1, <3>2, <3>4, <3>5
  <2>4. SumOf(Left, SizesOf(Left))' <= SumOf(Rest, SizesOf(Rest))
        /\ SumOf(Left, SizesOf(Left))' \in Nat
    <3>1. Left' \in SUBSET Rest /\ Rest \in SUBSET DOMAIN items
          /\ Left' \in SUBSET DOMAIN items
      BY <1>2, <1>4 DEF Left
    <3>2. IsFiniteSet(Rest) /\ \A x \in Rest : SizesOf(Rest)[x] \in Nat
      BY <1>6, <3>1 DEF SizesOf
    <3>3. SizesOf(Left)' = SizesOf(Left')
      BY <1>1 DEF SizesOf
    <3>4. \A x \in Left' : SizesOf(Rest)[x] = SizesOf(Left')[x]
      BY <3>1 DEF SizesOf
    <3> HIDE DEF Rest
    <3>5. SumOf(Left', SizesOf(Rest)) <= SumOf(Rest, SizesOf(Rest))
      BY <3>1, <3>2, NotMore
    <3>6. SumOf(Left', SizesOf(Rest)) = SumOf(Left', SizesOf(Left'))
      BY <3>4, SameSizes
    <3>7. SumOf(Left, SizesOf(Left))' = SumOf(Left', SizesOf(Left'))
      BY <3>3 DEF SumOf, Bytes
    <3>8. SumOf(Left', SizesOf(Left')) \in Nat
      BY <1>6, <3>1
    <3> QED
      BY <3>5, <3>6, <3>7, <3>8
  <2>5. /\ SumOf(Rest, SizesOf(Rest)) \in Nat
        /\ SumOf(Left, SizesOf(Left)) \in Nat
    BY <1>6 DEF Left
  <2>6. /\ Stored' + SumOf(Left, SizesOf(Left))' + Reserve <= Disk
    BY <1>2, <1>5, <1>6, <2>2, <2>3, <2>4, <2>5, BoundsAssumption
  <2> QED
    BY <1>5, <2>6 DEF Room
<1> QED
  BY <1>7, <1>8

LEMMA RoomStep == JInv /\ Room /\ Next => Room'
<1> SUFFICES ASSUME JInv, Room, Next PROVE Room'
  OBVIOUS
<1> USE DEF dir, repository, reading, run, ghosts
<1>t. IInv /\ TypeOK /\ Reading /\ Same /\ Once
  BY DEF JInv, IInv
<1>1. ASSUME UNCHANGED <<store, items, base, paranoid>>,
             AllUndisturbed' => AllUndisturbed,
             pc' \in {"cold", "quiesce", "hot", "commit"} =>
                pc \in {"cold", "quiesce", "hot", "commit"}
      PROVE  Room'
  BY <1>1 DEF Room, Stored, Left, Vouched, Object, SizesOf
<1>2. ASSUME UNCHANGED <<store, items, base, paranoid, seen>>,
             pc' \in {"cold", "quiesce", "hot", "commit"} =>
                pc \in {"cold", "quiesce", "hot", "commit"}
      PROVE  Room'
  BY <1>1, <1>2 DEF AllUndisturbed, Undisturbed
<1>3. ASSUME store' = store,
             pc' \notin {"cold", "quiesce", "hot", "commit"}
      PROVE  Room'
  BY <1>3 DEF Room
<1>4. CASE ColdDone \/ Quiesce \/ Release
  BY <1>2, <1>4 DEF ColdDone, Quiesce, Release, NextPhase
<1>5. CASE Begin \/ Walked \/ Commit \/ Fail
  BY <1>3, <1>5 DEF Begin, Walked, Commit, Fail, Over, NextPhase
<1>6. CASE Tick
  BY <1>2, <1>6 DEF Tick
<1>7. CASE Plan
  <2>1. UNCHANGED <<store, items, base, paranoid, seen>>
        /\ Needed + Reserve <= Free
    BY <1>7 DEF Plan
  <2> DEFINE All == {f \in DOMAIN items : ~Vouched(f)}
             size == [f \in DOMAIN items |-> items[f].size]
  <2>2. IsFiniteSet(store)
    BY DEF Room
  <2>3. /\ Stored \in Nat
        /\ \A S \in SUBSET DOMAIN items :
              IsFiniteSet(S) /\ SumOf(S, SizesOf(S)) \in Nat
        /\ \A f \in DOMAIN items : items[f].size \in Nat
    BY <1>t, <2>2, Counts
  <2>4. /\ Left \in SUBSET All /\ IsFiniteSet(All)
        /\ \A x \in All : size[x] \in Nat
        /\ \A x \in Left : size[x] = SizesOf(Left)[x]
    BY <2>3 DEF Left, SizesOf
  <2>5. Needed = SumOf(All, size)
    BY DEF Needed
  <2> HIDE DEF All, size
  <2>6. SumOf(Left, size) <= SumOf(All, size) /\ SumOf(All, size) \in Nat
    BY <2>4, NotMore, BytesAreFinite
  <2>7. SumOf(Left, size) = SumOf(Left, SizesOf(Left))
    BY <2>4, SameSizes
  <2>8. SumOf(Left, SizesOf(Left)) \in Nat
    BY <2>3 DEF Left
  <2>9. Free = Disk - Stored
    BY DEF Free, Stored
  <2>10. Stored + SumOf(Left, SizesOf(Left)) + Reserve <= Disk
    BY <2>1, <2>3, <2>5, <2>6, <2>7, <2>8, <2>9, BoundsAssumption
  <2>11. UNCHANGED <<Stored, Left, SizesOf(Left)>>
    BY <2>1 DEF Stored, Left, SizesOf, Vouched, Object
  <2>12. SumOf(Left, SizesOf(Left))' = SumOf(Left, SizesOf(Left))
    BY <2>11 DEF SumOf, Bytes
  <2> QED
    BY <2>1, <2>2, <2>10, <2>11, <2>12 DEF Room
<1>8. ASSUME NEW f \in Files, Stat(f) PROVE Room'
  BY <1>3, <1>8 DEF Stat
<1>9. ASSUME NEW f \in Files, Carry(f) \/ Open(f) \/ Vanished(f) PROVE Room'
  BY <1>2, <1>9 DEF Carry, Open, Vanished
<1>10. CASE Settled
  BY <1>2, <1>10 DEF Settled
<1>11. CASE Put
  <2>1. pc \in Reads
    BY <1>11, <1>t DEF Put, Reading
  <2>2. CASE AllUndisturbed
    BY <1>11, <2>1, <2>2, PutKeepsRoom
  <2>3. CASE ~AllUndisturbed
    <3>1. ~AllUndisturbed'
      BY <1>11, <2>3 DEF Put, AllUndisturbed, Undisturbed
    <3>2. IsFiniteSet(store')
      BY <1>11, FS_AddElement DEF Put, Room
    <3> QED
      BY <3>1, <3>2 DEF Room
  <2> QED
    BY <2>2, <2>3
<1>12. CASE Retry
  <2>1. cur # NoFile /\ cur \in DOMAIN items
    BY <1>12, <1>t DEF Retry, Reading, Reads
  <2>2. /\ DOMAIN items' = DOMAIN items
        /\ items'[cur].data = items[cur].data
        /\ UNCHANGED <<store, seen>>
    <3>1. items[cur] \in Stats
      BY <1>t, <2>1 DEF TypeOK
    <3> QED
      BY <1>12, <2>1, <3>1 DEF Retry, Stats
  <2>3. ~Undisturbed(cur)
    BY <1>12, <1>t, <2>1 DEF Retry, Stable, Same
  <2>4. ~AllUndisturbed'
    BY <2>1, <2>2, <2>3 DEF AllUndisturbed, Undisturbed
  <2> QED
    BY <2>2, <2>4 DEF Room
<1>13. ASSUME NEW f \in Files, Write(f) \/ Place(f) \/ Remove(f) PROVE Room'
  <2>1. UNCHANGED <<store, items, base, paranoid, pc>>
    BY <1>t, <1>13, EnvStep
  <2>2. CASE pc = "idle"
    BY <1>3, <2>1, <2>2
  <2>3. CASE pc # "idle"
    <3>1. AllUndisturbed' => AllUndisturbed
      BY <1>13, <2>3, Quieter
    <3> QED
      BY <1>1, <2>1, <3>1
  <2> QED
    BY <2>2, <2>3
<1> QED
  BY <1>4, <1>5, <1>6, <1>7, <1>8, <1>9, <1>10, <1>11, <1>12, <1>13 DEF Next

\* Unless somebody wrote to the files since the walk, what the run stores
\* leaves the reserve free, however many objects it puts and wherever it is.
THEOREM ReserveIsKept == Spec => []ReserveKept
<1>1. Init => Room
  BY FS_EmptySet DEF Init, Room
<1>2. JInv /\ Room /\ [Next]_vars => Room'
  <2> SUFFICES ASSUME JInv, Room, UNCHANGED vars PROVE Room'
    BY RoomStep
  <2> QED
    BY DEF Room, Stored, Left, SizesOf, Vouched, Object, AllUndisturbed,
       Undisturbed, vars, dir, repository, run, ghosts
<1>3. JInv /\ Room => ReserveKept
  <2> SUFFICES ASSUME JInv, Room,
                      pc \in {"cold", "quiesce", "hot", "commit"},
                      \A f \in DOMAIN items : seen[f] = {items[f].data}
               PROVE  Free >= Reserve
    BY DEF ReserveKept
  <2>1. Stored + SumOf(Left, SizesOf(Left)) + Reserve <= Disk
    BY DEF Room, AllUndisturbed, Undisturbed
  <2>2. Stored \in Nat /\ SumOf(Left, SizesOf(Left)) \in Nat
    BY Counts DEF Room, JInv, IInv, Left
  <2>3. Free = Disk - Stored
    BY DEF Free, Stored
  <2> QED
    BY <2>1, <2>2, <2>3, BoundsAssumption
<1>4. Spec => []Room
  BY <1>1, <1>2, InvariantJ, PTL DEF Spec
<1> QED
  BY <1>3, <1>4, InvariantJ, PTL
=============================================================================
