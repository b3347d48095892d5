--------------------------- MODULE Schedule_proofs ---------------------------
(***************************************************************************)
(* Proofs about Schedule, for any length of the day, any settings that     *)
(* Validate lets pass, any grace period and any horizon.                   *)
(***************************************************************************)
EXTENDS Schedule, TLAPS

----------------------------------------------------------------------------
(* Minima, maxima and times of day.                                        *)

LEMMA MaxOfTwo ==
    \A a, b \in Int : Max({a, b}) = IF a >= b THEN a ELSE b
<1> SUFFICES ASSUME NEW a \in Int, NEW b \in Int
             PROVE  Max({a, b}) = IF a >= b THEN a ELSE b
  OBVIOUS
<1>1. \E x \in {a, b} : \A y \in {a, b} : x >= y
  <2>1. CASE a >= b
    BY <2>1
  <2>2. CASE b >= a
    BY <2>2
  <2> QED
    BY <2>1, <2>2
<1>2. /\ Max({a, b}) \in {a, b}
      /\ Max({a, b}) >= a /\ Max({a, b}) >= b
  BY <1>1 DEF Max
<1> QED
  BY <1>2

LEMMA MaxOfThree ==
    ASSUME NEW a \in Nat, NEW b \in Nat, NEW c \in Nat
    PROVE  /\ Max({a, b, c}) \in {a, b, c}
           /\ Max({a, b, c}) \in Nat
           /\ Max({a, b, c}) >= a /\ Max({a, b, c}) >= b /\ Max({a, b, c}) >= c
<1> DEFINE greater(x, y) == IF x >= y THEN x ELSE y
           m == greater(greater(a, b), c)
<1>1. /\ m \in {a, b, c} /\ m >= a /\ m >= b /\ m >= c
  OBVIOUS
<1>2. \E x \in {a, b, c} : \A y \in {a, b, c} : x >= y
  BY <1>1
<1> QED
  BY <1>2 DEF Max

LEMMA MinOfThree ==
    ASSUME NEW a \in Nat, NEW b \in Nat, NEW c \in Nat
    PROVE  /\ Min({a, b, c}) \in {a, b, c}
           /\ Min({a, b, c}) <= a /\ Min({a, b, c}) <= b /\ Min({a, b, c}) <= c
<1> DEFINE least(x, y) == IF x <= y THEN x ELSE y
           m == least(least(a, b), c)
<1>1. /\ m \in {a, b, c} /\ m <= a /\ m <= b /\ m <= c
  OBVIOUS
<1>2. \E x \in {a, b, c} : \A y \in {a, b, c} : x <= y
  BY <1>1
<1> QED
  BY <1>2 DEF Min

\* Two instants of one time of day are a day apart, at least.
LEMMA DayApart ==
    ASSUME NEW s \in Nat, NEW t \in Nat, s % Day = t % Day, s < t
    PROVE  s + Day <= t
<1> DEFINE p == s \div Day
           q == t \div Day
           r == s % Day
<1>1. /\ p \in Nat /\ q \in Nat /\ r \in 0..(Day - 1)
      /\ s = Day * p + r /\ t = Day * q + r
  BY DayAssumption
<1>2. q > p
  <2>1. SUFFICES ASSUME q <= p PROVE FALSE
    BY <1>1
  <2>2. p - q \in Nat /\ Day * (p - q) >= 0
    BY <1>1, <2>1, DayAssumption
  <2>3. Day * (p - q) = Day * p - Day * q
    BY <1>1, DayAssumption
  <2> QED
    BY <1>1, <2>2, <2>3, DayAssumption
<1>3. Day * (q - p) >= Day
  BY <1>1, <1>2, DayAssumption
<1>4. Day * (q - p) = Day * q - Day * p
  BY <1>1, DayAssumption
<1> QED
  BY <1>1, <1>3, <1>4, DayAssumption

\* The remainder is the one that is small enough.
LEMMA RemainderIs ==
    ASSUME NEW q \in Nat, NEW r \in 0..(Day - 1)
    PROVE  (Day * q + r) % Day = r
<1> DEFINE t == Day * q + r
           p == t \div Day
           m == t % Day
<1>1. /\ t \in Nat /\ p \in Nat /\ m \in 0..(Day - 1)
      /\ t = Day * p + m
  BY DayAssumption
<1>2. p = q
  <2>1. ASSUME p < q PROVE FALSE
    <3>1. Day * (q - p) >= Day
      BY <1>1, <2>1, DayAssumption
    <3>2. Day * (q - p) = Day * q - Day * p
      BY <1>1, DayAssumption
    <3> QED
      BY <1>1, <3>1, <3>2, DayAssumption
  <2>2. ASSUME q < p PROVE FALSE
    <3>1. Day * (p - q) >= Day
      BY <1>1, <2>2, DayAssumption
    <3>2. Day * (p - q) = Day * p - Day * q
      BY <1>1, DayAssumption
    <3> QED
      BY <1>1, <3>1, <3>2, DayAssumption
  <2> QED
    BY <1>1, <2>1, <2>2
<1> QED
  BY <1>1, <1>2, DayAssumption

\* The next housekeeping is the next one there is.
LEMMA NextHousekeeping ==
    ASSUME NEW now \in Nat, clock = now
    PROVE  /\ DueHousekeeping \in Nat /\ DueHousekeeping > clock
           /\ DueHousekeeping % Day = HouseAt
           /\ \A t \in Nat : t > clock /\ t % Day = HouseAt
                                => DueHousekeeping <= t
<1> DEFINE q == now \div Day
           r == now % Day
           range == (clock + 1)..(clock + Day)
<1>1. q \in Nat /\ r \in 0..(Day - 1) /\ now = Day * q + r
  BY DayAssumption
<1>2. \E t \in range : t % Day = HouseAt
  <2>1. CASE r < HouseAt
    <3>1. (Day * q + HouseAt) % Day = HouseAt
      BY <1>1, RemainderIs, DayAssumption
    <3>2. Day * q + HouseAt \in range
      BY <1>1, <2>1, DayAssumption
    <3> QED
      BY <3>1, <3>2
  <2>2. CASE r >= HouseAt
    <3>1. (Day * (q + 1) + HouseAt) % Day = HouseAt
      BY <1>1, RemainderIs, DayAssumption
    <3>2. Day * (q + 1) = Day * q + Day
      BY <1>1, DayAssumption
    <3>3. Day * (q + 1) + HouseAt \in range
      BY <1>1, <2>2, <3>2, DayAssumption
    <3> QED
      BY <3>1, <3>3
  <2> QED
    BY <1>1, <2>1, <2>2, DayAssumption
<1>3. DueHousekeeping \in range /\ DueHousekeeping % Day = HouseAt
  BY <1>2 DEF DueHousekeeping
<1>4. ASSUME NEW t \in Nat, t > clock, t % Day = HouseAt
      PROVE  DueHousekeeping <= t
  <2>1. SUFFICES ASSUME t < DueHousekeeping PROVE FALSE
    BY <1>3, DayAssumption
  <2>2. DueHousekeeping \in Nat
    BY <1>3, DayAssumption
  <2>3. t + Day <= DueHousekeeping
    BY <1>3, <1>4, <2>1, <2>2, DayApart
  <2> QED
    BY <1>3, <1>4, <2>3, DayAssumption
<1> QED
  BY <1>3, <1>4, DayAssumption

----------------------------------------------------------------------------
(* recompute and the timer.                                                *)

LEMMA DueBackupIs ==
    ASSUME TypeOK, NEW start \in Times
    PROVE  /\ DueBackup(start) \in Nat
           /\ DueBackup(start) >= start + Grace
           /\ fired # 0 => DueBackup(start) >= fired + cfg.every
           /\ Max({lastBackup, newest}) # 0 =>
                 DueBackup(start) >= Max({lastBackup, newest}) + cfg.every
<1>1. /\ lastBackup \in Nat /\ newest \in Nat /\ fired \in Nat /\ start \in Nat
      /\ cfg.every \in Nat /\ Grace \in Nat
  BY TimeAssumption, SettingsAssumption, SleepAssumption DEF TypeOK, Times
<1> DEFINE two == Max({lastBackup, newest})
           all == Max({lastBackup, newest, fired})
<1>2. two \in {lastBackup, newest}
  BY <1>1, MaxOfTwo
<1>3. /\ all \in Nat /\ all >= lastBackup /\ all >= newest /\ all >= fired
  BY <1>1, MaxOfThree
<1>4. Base(start) = IF all = 0 THEN start ELSE all
  BY DEF Base
<1>5. Base(start) \in Nat
  BY <1>1, <1>3, <1>4
<1>6. /\ DueBackup(start) \in {Base(start) + cfg.every, start + Grace}
      /\ DueBackup(start) >= Base(start) + cfg.every
      /\ DueBackup(start) >= start + Grace
  <2>1. Base(start) + cfg.every \in Int /\ start + Grace \in Int
    BY <1>1, <1>5
  <2> QED
    BY <2>1, MaxOfTwo DEF DueBackup
<1>7. fired # 0 => Base(start) >= fired
  BY <1>1, <1>3, <1>4
<1>8. two # 0 => Base(start) >= two
  BY <1>1, <1>2, <1>3, <1>4
<1> HIDE DEF two, all
<1>9. two \in Nat
  BY <1>1, <1>2
<1> QED
  BY <1>1, <1>5, <1>6, <1>7, <1>8, <1>9 DEF two

\* The times of one recompute.
Fresh(start) ==
    /\ nextBackup' \in Nat /\ nextHousekeeping' \in Nat
    /\ cfg.enabled <=> nextBackup' # 0
    /\ cfg.enabled => nextBackup' = Max({DueBackup(start), clock})
    /\ cfg.house => /\ nextHousekeeping' > clock
                    /\ nextHousekeeping' % Day = HouseAt
                    /\ \A t \in Nat : t > clock /\ t % Day = HouseAt
                                         => nextHousekeeping' <= t

LEMMA RecomputeIs ==
    ASSUME TypeOK, NEW start \in Times, Recompute(start)
    PROVE  Fresh(start)
<1>1. clock \in Nat \ {0}
  BY TimeAssumption DEF TypeOK, Times
<1>2. DueBackup(start) \in Nat
  BY DueBackupIs
<1>3. /\ Max({DueBackup(start), clock}) \in Nat
      /\ Max({DueBackup(start), clock}) >= clock
  BY <1>1, <1>2, MaxOfTwo
<1>4. /\ DueHousekeeping \in Nat /\ DueHousekeeping > clock
      /\ DueHousekeeping % Day = HouseAt
      /\ \A t \in Nat : t > clock /\ t % Day = HouseAt
                           => DueHousekeeping <= t
  BY <1>1, NextHousekeeping
<1>5. cfg.enabled \in BOOLEAN /\ cfg.house \in BOOLEAN
  BY SettingsAssumption DEF TypeOK
<1>6. /\ nextBackup' = IF cfg.enabled THEN Max({DueBackup(start), clock})
                       ELSE 0
      /\ nextHousekeeping' = IF cfg.house THEN DueHousekeeping ELSE 0
  BY DEF Recompute
<1> QED
  BY <1>1, <1>3, <1>4, <1>5, <1>6 DEF Fresh

LEMMA WakeForIs ==
    ASSUME clock \in Nat, NEW b \in Nat, NEW h \in Nat
    PROVE  /\ WakeFor(b, h) \in Nat
           /\ b # 0 => WakeFor(b, h) <= Max({b, clock})
           /\ h # 0 => WakeFor(b, h) <= Max({h, clock})
<1> DEFINE x == clock + MaxSleep
           y == Max({b, clock})
           z == Max({h, clock})
<1>1. x \in Nat /\ y \in Nat /\ z \in Nat
  BY MaxOfTwo, SleepAssumption
<1>2. {x} \cup {Max({t, clock}) : t \in {b, h} \ {0}} =
        IF b # 0 /\ h # 0 THEN {x, y, z}
        ELSE IF b # 0 THEN {x, y, y}
        ELSE IF h # 0 THEN {x, z, z} ELSE {x, x, x}
  <2>1. CASE b # 0 /\ h # 0
    <3>1. {b, h} \ {0} = {b, h}
      BY <2>1
    <3> QED
      BY <2>1, <3>1
  <2>2. CASE b # 0 /\ h = 0
    <3>1. {b, h} \ {0} = {b}
      BY <2>2
    <3> QED
      BY <2>2, <3>1
  <2>3. CASE b = 0 /\ h # 0
    <3>1. {b, h} \ {0} = {h}
      BY <2>3
    <3> QED
      BY <2>3, <3>1
  <2>4. CASE b = 0 /\ h = 0
    <3>1. {b, h} \ {0} = {}
      BY <2>4
    <3> QED
      BY <2>4, <3>1
  <2> QED
    BY <2>1, <2>2, <2>3, <2>4
<1>3. WakeFor(b, h) = Min({x} \cup {Max({t, clock}) : t \in {b, h} \ {0}})
  BY DEF WakeFor
<1> HIDE DEF x, y, z
<1>4. CASE b # 0 /\ h # 0
  <2>1. WakeFor(b, h) = Min({x, y, z})
    BY <1>2, <1>3, <1>4
  <2>2. WakeFor(b, h) \in Nat /\ WakeFor(b, h) <= y /\ WakeFor(b, h) <= z
    BY <1>1, <2>1, MinOfThree
  <2> QED
    BY <2>2 DEF y, z
<1>5. CASE b # 0 /\ h = 0
  <2>1. WakeFor(b, h) = Min({x, y, y})
    BY <1>2, <1>3, <1>5
  <2> QED
    BY <1>1, <1>5, <2>1, MinOfThree DEF y
<1>6. CASE b = 0 /\ h # 0
  <2>1. WakeFor(b, h) = Min({x, z, z})
    BY <1>2, <1>3, <1>6
  <2> QED
    BY <1>1, <1>6, <2>1, MinOfThree DEF z
<1>7. CASE b = 0 /\ h = 0
  <2>1. WakeFor(b, h) = Min({x, x, x})
    BY <1>2, <1>3, <1>7
  <2> QED
    BY <1>1, <1>7, <2>1, MinOfThree
<1> QED
  BY <1>4, <1>5, <1>6, <1>7

\* The timer goes off no later than what it was set for.
LEMMA SetTimerIs ==
    ASSUME TypeOK, NEW start \in Times, Fresh(start), SetTimer
    PROVE  /\ wake' \in Nat /\ raced' \in BOOLEAN
           /\ ~raced' /\ cfg.enabled =>
                 wake' <= Max({DueBackup(start), clock})
           /\ ~raced' /\ cfg.house =>
                 wake' <= nextHousekeeping'
<1>1. clock \in Nat \ {0}
  BY TimeAssumption DEF TypeOK, Times
<1>2. nextBackup' \in Nat /\ nextHousekeeping' \in Nat
  BY DEF Fresh
<1>3. PICK b \in {nextBackup', 0}, h \in {nextHousekeeping', 0} :
        /\ wake' = WakeFor(b, h)
        /\ raced' = (b # nextBackup' \/ h # nextHousekeeping')
  BY DEF SetTimer
<1>4. b \in Nat /\ h \in Nat
  BY <1>2, <1>3
<1>5. wake' \in Nat /\ raced' \in BOOLEAN
  BY <1>1, <1>3, <1>4, WakeForIs
<1>6. ASSUME ~raced', cfg.enabled PROVE wake' <= Max({DueBackup(start), clock})
  <2>1. b = nextBackup' /\ b # 0
    BY <1>3, <1>6 DEF Fresh
  <2>2. wake' <= Max({b, clock})
    BY <1>1, <1>3, <1>4, <2>1, WakeForIs
  <2>3. b = Max({DueBackup(start), clock})
    BY <1>6, <2>1 DEF Fresh
  <2>4. DueBackup(start) \in Nat
    BY DueBackupIs
  <2>5. b >= clock
    BY <1>1, <2>3, <2>4, MaxOfTwo
  <2>6. Max({b, clock}) = b
    BY <1>1, <1>4, <2>5, MaxOfTwo
  <2> QED
    BY <2>2, <2>3, <2>6
<1>7. ASSUME ~raced', cfg.house PROVE wake' <= nextHousekeeping'
  <2>1. h = nextHousekeeping' /\ h > clock
    BY <1>3, <1>7 DEF Fresh
  <2>2. h # 0
    BY <1>1, <1>4, <2>1
  <2>3. wake' <= Max({h, clock})
    BY <1>1, <1>3, <1>4, <2>2, WakeForIs
  <2>4. Max({h, clock}) = h
    BY <1>1, <1>4, <2>1, MaxOfTwo
  <2> QED
    BY <2>1, <2>3, <2>4
<1> QED
  BY <1>5, <1>6, <1>7

----------------------------------------------------------------------------
(* The invariant.                                                          *)

\* Jobs are filed in the order in which they began.
Order ==
    /\ lastBackup <= clock
    /\ started <= clock
    /\ job.kind # "none" =>
          /\ pc # "down"
          /\ lastBackup <= job.start /\ started <= job.start
          /\ job.start <= clock

Awake == pc = "asleep" /\ ~updates

BackupTimer ==
    Awake /\ ~raced /\ cfg.enabled => wake <= Max({DueBackup(started), clock})

\* The loop knows of the next housekeeping, and its timer too.
HouseTimer ==
    Awake /\ cfg.house =>
        /\ nextHousekeeping # 0 /\ nextHousekeeping % Day = HouseAt
        /\ ~raced => wake <= nextHousekeeping
        /\ \A t \in Nat : t > clock /\ t % Day = HouseAt =>
              nextHousekeeping <= t

\* What is owed is on its way.
OnItsWay ==
    owed = "asleep" =>
        \/ pc = "asleep" /\ nextHousekeeping \in 1..clock
                         /\ (wake <= clock \/ raced)
        \/ pc = "backup" /\ dueHouse
        \/ pc = "house"

\* A backup's time keeps its distance from all that is known.
Distance ==
    pc \in {"starting", "asleep"} /\ ~saving /\ nextBackup # 0 =>
        /\ nextBackup >= started + Grace
        /\ fired # 0 => nextBackup >= fired + cfg.every
        /\ ~unseen /\ Max({lastBackup, newest}) # 0 =>
              nextBackup >= Max({lastBackup, newest}) + cfg.every

IInv ==
    TypeOK /\ Order /\ BackupTimer /\ HouseTimer /\ OnItsWay /\ Distance

LEMMA FreeIs ==
    Free \in [kind : JobKinds, start : Times] /\ Free.kind = "none"
BY TimeAssumption DEF Free, JobKinds, Times

LEMMA InitInv == Init => IInv
<1> USE TimeAssumption DEF Init
<1>1. Init => TypeOK
  <2>1. Init => clock \in Times \ {0} /\ 0 \in Times
    BY DEF Times
  <2>2. Init => job \in [kind : JobKinds, start : Times]
    BY FreeIs
  <2>3. Init => /\ cfg \in Settings
                /\ {lastBackup, newest, started, fired} \subseteq Times
                /\ {nextBackup, nextHousekeeping, until, wake} \subseteq Nat
    BY <2>1
  <2>4. Init => /\ pc = "down" /\ owed = "no"
                /\ {dueHouse, updates, saving, committed, unseen, raced}
                     \subseteq BOOLEAN
                /\ ~committed
    OBVIOUS
  <2> QED
    BY <2>1, <2>2, <2>3, <2>4 DEF TypeOK
<1>2. Init => Order
  BY DEF Order, Free
<1>3. Init => BackupTimer /\ HouseTimer /\ OnItsWay /\ Distance
  BY DEF BackupTimer, HouseTimer, OnItsWay, Distance, Awake
<1> QED
  BY <1>1, <1>2, <1>3 DEF IInv

\* Everything in sight is a number.
LEMMA Numbers ==
    ASSUME TypeOK
    PROVE  /\ clock \in Nat \ {0} /\ started \in Nat /\ fired \in Nat
           /\ lastBackup \in Nat /\ newest \in Nat /\ wake \in Nat
           /\ nextBackup \in Nat /\ nextHousekeeping \in Nat /\ until \in Nat
           /\ job.start \in Nat /\ cfg.every \in Nat \ {0}
           /\ cfg.window \in Nat
           /\ cfg.enabled \in BOOLEAN /\ cfg.house \in BOOLEAN
BY TimeAssumption, SettingsAssumption DEF TypeOK, Times

LEMMA TypeStep == TypeOK /\ Next => TypeOK'
<1> SUFFICES ASSUME TypeOK, Next PROVE TypeOK'
  OBVIOUS
<1> USE TimeAssumption DEF TypeOK, Times
<1>1. CASE Boot
  <2>1. Fresh(clock)
    BY <1>1, RecomputeIs DEF Boot
  <2> QED
    BY <1>1, <2>1 DEF Boot, Recompute, Fresh, disk, slot
<1>2. ASSUME Recompute(started), SetTimer
      PROVE  /\ nextBackup' \in Nat /\ nextHousekeeping' \in Nat
             /\ wake' \in Nat /\ unseen' = FALSE /\ raced' \in BOOLEAN
  <2>1. Fresh(started)
    BY <1>2, RecomputeIs
  <2> QED
    BY <1>2, <2>1, SetTimerIs DEF Fresh, Recompute
<1>3. CASE RunStarts
  BY <1>2, <1>3 DEF RunStarts, disk, slot
<1>4. CASE Notified
  BY <1>2, <1>4 DEF Notified, Moved, disk, slot
<1>5. CASE Settle
  BY <1>2, <1>5 DEF Settle, disk, slot
<1>6. CASE Wake
  <2>1. until' \in Nat
    <3>1. CASE Due(nextBackup)
      <4>1. Max({cfg.window - 1, 0}) \in Nat
        BY Numbers, MaxOfTwo
      <4> QED
        BY <1>6, <3>1, <4>1, Numbers DEF Wake
    <3>2. CASE ~Due(nextBackup)
      BY <1>6, <3>2 DEF Wake
    <3> QED
      BY <3>1, <3>2
  <2>2. dueHouse' \in BOOLEAN /\ fired' \in {fired, clock}
    BY <1>6 DEF Wake, Due
  <2> QED
    BY <1>6, <2>1, <2>2 DEF Wake, disk, slot
<1>7. CASE SubmitBackup
  BY <1>7 DEF SubmitBackup, SubmitOrSkip, JobKinds, disk
<1>8. CASE SubmitHousekeeping
  BY <1>8 DEF SubmitHousekeeping, SubmitOrSkip, JobKinds, disk
<1>9. CASE SaveSettings
  BY <1>9 DEF SaveSettings, slot
<1>10. CASE Refresh
  <2>1. Fresh(started)
    BY <1>10, RecomputeIs DEF Refresh
  <2> QED
    BY <1>10, <2>1 DEF Refresh, Recompute, Moved, Fresh, disk, slot
<1>11. ASSUME NEW kind \in {"manual", "other"}, StartJob(kind) PROVE TypeOK'
  BY <1>11 DEF StartJob, JobKinds, disk
<1>12. CASE Commit
  <2>1. newest' \in {newest, job.start}
    BY <1>12, Numbers, MaxOfTwo DEF Commit
  <2> QED
    BY <1>12, <2>1 DEF Commit, IsBackup
<1>13. CASE JobEnds
  BY <1>13, FreeIs DEF JobEnds, IsBackup
<1>14. CASE Crash
  <2>1. job' \in [kind : JobKinds, start : 0..MaxTime]
    BY <1>14, FreeIs DEF Crash
  <2>2. /\ clock' = clock /\ cfg' = cfg /\ lastBackup' = lastBackup
        /\ newest' = newest
    BY <1>14 DEF Crash, disk
  <2>3. {started', fired'} \subseteq 0..MaxTime
    BY <1>14 DEF Crash
  <2>4. {nextBackup', nextHousekeeping', until', wake'} \subseteq Nat
    BY <1>14 DEF Crash
  <2>5. /\ pc' = "down" /\ owed' = "no"
        /\ {dueHouse', updates', saving', committed', unseen', raced'}
             \subseteq BOOLEAN
        /\ ~committed'
    BY <1>14 DEF Crash
  <2> QED
    BY <2>1, <2>2, <2>3, <2>4, <2>5
<1>15. CASE Tick
  BY <1>15 DEF Tick, disk, slot
<1> QED
  BY <1>1, <1>3, <1>4, <1>5, <1>6, <1>7, <1>8, <1>9, <1>10, <1>11, <1>12,
     <1>13, <1>14, <1>15 DEF Next

LEMMA OrderStep == TypeOK /\ Order /\ Next => Order'
<1> SUFFICES ASSUME TypeOK, Order, Next PROVE Order'
  OBVIOUS
<1> USE Numbers DEF Order
<1>1. CASE Boot \/ RunStarts \/ Notified \/ Wake \/ Settle \/ Refresh
  BY <1>1 DEF Boot, RunStarts, Notified, Wake, Settle, Refresh, disk, slot,
              Recompute
<1>2. CASE SubmitBackup \/ SubmitHousekeeping
  BY <1>2 DEF SubmitBackup, SubmitHousekeeping, SubmitOrSkip, disk
<1>3. CASE SaveSettings
  BY <1>3 DEF SaveSettings, slot
<1>4. ASSUME NEW kind \in {"manual", "other"}, StartJob(kind) PROVE Order'
  BY <1>4 DEF StartJob, disk
<1>5. CASE Commit
  BY <1>5 DEF Commit
<1>6. CASE JobEnds
  BY <1>6 DEF JobEnds, Free, IsBackup
<1>7. CASE Crash
  BY <1>7 DEF Crash, Free, disk
<1>8. CASE Tick
  BY <1>8 DEF Tick, disk, slot
<1> QED
  BY <1>1, <1>2, <1>3, <1>4, <1>5, <1>6, <1>7, <1>8 DEF Next

\* A due time moves only away.
LEMMA DueGrows ==
    ASSUME TypeOK, fired' = fired, cfg' = cfg, started' = started,
           lastBackup' \in Nat, newest' \in Nat,
           lastBackup' = lastBackup \/ lastBackup' >= started,
           newest' = newest \/ newest' >= started,
           lastBackup' >= lastBackup, newest' >= newest
    PROVE  /\ DueBackup(started)' \in Nat
           /\ DueBackup(started)' >= DueBackup(started)
<1>1. DueBackup(started)' =
        Max({Base(started)' + cfg.every, started + Grace})
  BY DEF DueBackup
<1> DEFINE m == Max({lastBackup, newest, fired})
           n == Max({lastBackup', newest', fired})
<1>2. /\ Base(started) = IF m = 0 THEN started ELSE m
      /\ Base(started)' = IF n = 0 THEN started ELSE n
  BY DEF Base
<1>3. /\ m \in {lastBackup, newest, fired} /\ m \in Nat
      /\ m >= lastBackup /\ m >= newest /\ m >= fired
  BY Numbers, MaxOfThree
<1>4. n \in Nat /\ n >= lastBackup' /\ n >= newest' /\ n >= fired
  BY Numbers, MaxOfThree
<1>5. n >= m
  BY <1>3, <1>4, Numbers
<1>6. n # m => n >= started
  <2>1. fired' = fired /\ n \in {lastBackup', newest', fired}
    BY <1>4, Numbers, MaxOfThree
  <2> QED
    BY <1>3, <1>4, <1>5, <2>1, Numbers
<1> HIDE DEF m, n
<1>7. Base(started)' \in Nat /\ Base(started) \in Nat
  BY <1>2, <1>3, <1>4, Numbers
<1>8. Base(started)' >= Base(started)
  BY <1>2, <1>3, <1>4, <1>5, <1>6, Numbers
<1>9. /\ Base(started) + cfg.every \in Nat /\ started + Grace \in Nat
      /\ Base(started)' + cfg.every \in Nat
  BY <1>7, Numbers, SleepAssumption
<1>10. DueBackup(started) = Max({Base(started) + cfg.every, started + Grace})
  BY DEF DueBackup
<1> QED
  BY <1>1, <1>7, <1>8, <1>9, <1>10, MaxOfTwo, Numbers

LEMMA StartIs == TypeOK => started \in Times /\ clock \in Times
BY DEF TypeOK, Times

\* A time that was worked out just now keeps its distance.
LEMMA DistanceIs ==
    ASSUME TypeOK, NEW start \in Times, Fresh(start), started' = start,
           UNCHANGED <<clock, cfg, lastBackup, newest, fired>>
    PROVE  Distance'
<1> DEFINE d == DueBackup(start)
           l == Max({lastBackup, newest})
<1>1. /\ d \in Nat
      /\ d >= start + Grace
      /\ fired # 0 => d >= fired + cfg.every
      /\ l # 0 => d >= l + cfg.every
  BY DueBackupIs
<1>2. l \in Nat
  BY Numbers, MaxOfTwo
<1>3. Max({lastBackup, newest})' = l
  OBVIOUS
<1> HIDE DEF d, l
<1>4. nextBackup' # 0 => nextBackup' >= d
  <2>1. nextBackup' # 0 => nextBackup' = Max({d, clock})
    BY DEF Fresh, d
  <2> QED
    BY <1>1, <2>1, MaxOfTwo, Numbers
<1>5. nextBackup' \in Nat /\ start \in Nat /\ Grace \in Nat
  BY TimeAssumption, SleepAssumption DEF Fresh, Times
<1> QED
  BY <1>1, <1>2, <1>3, <1>4, <1>5, Numbers DEF Distance

\* What setting the timer establishes.
LEMMA TimerSet ==
    ASSUME TypeOK, Recompute(started), SetTimer,
           UNCHANGED <<clock, cfg, lastBackup, newest, fired, started>>
    PROVE  /\ BackupTimer' /\ HouseTimer'
           /\ ~saving' => Distance'
<1>1. started \in Times /\ clock \in Times
  BY StartIs
<1>2. Fresh(started)
  BY <1>1, RecomputeIs
<1>3. /\ ~raced' /\ cfg.enabled => wake' <= Max({DueBackup(started), clock})
      /\ ~raced' /\ cfg.house => wake' <= nextHousekeeping'
      /\ wake' \in Nat
  BY <1>1, <1>2, SetTimerIs
<1>4. Max({DueBackup(started), clock})' = Max({DueBackup(started), clock})
  BY DEF DueBackup, Base
<1>5. BackupTimer'
  BY <1>3, <1>4 DEF BackupTimer, Awake
<1>6. HouseTimer'
  BY <1>2, <1>3, Numbers DEF HouseTimer, Awake, Fresh
<1>7. Distance'
  BY <1>1, <1>2, DistanceIs
<1> QED
  BY <1>5, <1>6, <1>7

LEMMA BackupTimerStep == IInv /\ Next => BackupTimer'
<1> SUFFICES ASSUME IInv, Next PROVE BackupTimer'
  OBVIOUS
<1> USE DEF IInv
<1>1. CASE RunStarts \/ Notified \/ Settle
  BY <1>1, TimerSet DEF RunStarts, Notified, Settle, disk
<1>2. CASE Boot \/ Wake \/ SubmitBackup \/ SubmitHousekeeping \/ Crash
  BY <1>2 DEF Boot, Wake, SubmitBackup, SubmitHousekeeping, Crash, BackupTimer,
              Awake
<1>3. CASE SaveSettings
  BY <1>3 DEF SaveSettings, BackupTimer, Awake
<1>4. CASE Refresh \/ \E kind \in {"manual", "other"} : StartJob(kind)
  <2>1. UNCHANGED <<clock, cfg, lastBackup, newest, fired, started, pc,
                    updates, raced, wake>>
    BY <1>4 DEF Refresh, StartJob, disk
  <2>2. Max({DueBackup(started), clock})' = Max({DueBackup(started), clock})
    BY <2>1 DEF DueBackup, Base
  <2> QED
    BY <2>1, <2>2 DEF BackupTimer, Awake
<1>5. CASE Commit \/ JobEnds
  <2>1. UNCHANGED <<clock, cfg, fired, started, pc, updates, raced, wake>>
    BY <1>5 DEF Commit, JobEnds
  <2>2. /\ lastBackup' \in Nat /\ newest' \in Nat
        /\ lastBackup' >= lastBackup /\ newest' >= newest
        /\ lastBackup' = lastBackup \/ lastBackup' >= started
        /\ newest' = newest \/ newest' >= started
    <3>1. CASE Commit
      BY <3>1, Numbers, MaxOfTwo DEF Commit, IsBackup, Order
    <3>2. CASE JobEnds
      BY <3>2, Numbers DEF JobEnds, IsBackup, Order
    <3> QED
      BY <1>5, <3>1, <3>2
  <2>3. /\ DueBackup(started)' \in Nat
        /\ DueBackup(started)' >= DueBackup(started)
    BY <2>1, <2>2, DueGrows
  <2>4. DueBackup(started) \in Nat
    BY DueBackupIs, StartIs
  <2>5. Max({DueBackup(started), clock})' = Max({DueBackup(started)', clock})
    BY <2>1
  <2>6. Max({DueBackup(started), clock})' >= Max({DueBackup(started), clock})
    BY <2>3, <2>4, <2>5, MaxOfTwo, Numbers
  <2>7. /\ Max({DueBackup(started), clock})' \in Nat
        /\ Max({DueBackup(started), clock}) \in Nat
    BY <2>3, <2>4, <2>5, MaxOfTwo, Numbers
  <2> QED
    BY <2>1, <2>6, <2>7, Numbers DEF BackupTimer, Awake
<1>6. CASE Tick
  <2>1. /\ UNCHANGED <<cfg, lastBackup, newest, fired, started, pc, updates,
                       raced, wake>>
        /\ clock' = clock + 1
    BY <1>6 DEF Tick, disk
  <2>2. DueBackup(started)' = DueBackup(started)
    BY <2>1 DEF DueBackup, Base
  <2>3. DueBackup(started) \in Nat
    BY DueBackupIs, StartIs
  <2>4. Max({DueBackup(started), clock})' =
          Max({DueBackup(started), clock + 1})
    BY <2>1, <2>2
  <2>5. Max({DueBackup(started), clock})' >= Max({DueBackup(started), clock})
    BY <2>3, <2>4, MaxOfTwo, Numbers
  <2>6. /\ Max({DueBackup(started), clock})' \in Nat
        /\ Max({DueBackup(started), clock}) \in Nat
    BY <2>3, <2>4, MaxOfTwo, Numbers
  <2> QED
    BY <2>1, <2>5, <2>6, Numbers DEF BackupTimer, Awake
<1> QED
  BY <1>1, <1>2, <1>3, <1>4, <1>5, <1>6 DEF Next

LEMMA HouseTimerStep == IInv /\ Next => HouseTimer'
<1> SUFFICES ASSUME IInv, Next PROVE HouseTimer'
  OBVIOUS
<1> USE DEF IInv
<1>1. CASE RunStarts \/ Notified \/ Settle
  BY <1>1, TimerSet DEF RunStarts, Notified, Settle, disk
<1>2. CASE Boot \/ Wake \/ SubmitBackup \/ SubmitHousekeeping \/ Crash
  BY <1>2 DEF Boot, Wake, SubmitBackup, SubmitHousekeeping, Crash, HouseTimer,
              Awake
<1>3. CASE SaveSettings
  BY <1>3 DEF SaveSettings, HouseTimer, Awake
<1>4. CASE Refresh
  <2>1. Fresh(started)
    BY <1>4, RecomputeIs, StartIs DEF Refresh
  <2>2. UNCHANGED <<clock, cfg, pc, updates, raced, wake>>
    BY <1>4 DEF Refresh, disk
  <2> QED
    BY <2>1, <2>2, Numbers DEF Fresh, HouseTimer, Awake
<1>5. CASE \/ Commit \/ JobEnds
           \/ \E kind \in {"manual", "other"} : StartJob(kind)
  BY <1>5 DEF Commit, JobEnds, StartJob, HouseTimer, Awake, disk
<1>6. CASE Tick
  BY <1>6, Numbers DEF Tick, HouseTimer, Awake, disk
<1> QED
  BY <1>1, <1>2, <1>3, <1>4, <1>5, <1>6 DEF Next

LEMMA OnItsWayStep == IInv /\ Next => OnItsWay'
<1> SUFFICES ASSUME IInv, Next PROVE OnItsWay'
  OBVIOUS
<1> USE DEF IInv, OnItsWay
<1>1. CASE Boot \/ RunStarts \/ Notified \/ Settle \/ Refresh
  BY <1>1 DEF Boot, RunStarts, Notified, Settle, Refresh, Moved
<1>2. CASE Wake
  <2>1. /\ pc = "asleep" /\ UNCHANGED <<owed, saving, updates>>
        /\ dueHouse' = Due(nextHousekeeping)
        /\ pc' = "backup" \/ pc' = IF dueHouse' THEN "house" ELSE "settle"
    BY <1>2 DEF Wake
  <2>2. owed = "asleep" => Due(nextHousekeeping)
    BY <2>1, Numbers DEF Due
  <2>3. owed = "asleep" => dueHouse'
    BY <2>1, <2>2
  <2> QED
    BY <2>1, <2>3
<1>3. CASE SubmitBackup \/ SubmitHousekeeping
  BY <1>3 DEF SubmitBackup, SubmitHousekeeping
<1>4. CASE SaveSettings \/ Crash
  BY <1>4 DEF SaveSettings, Crash
<1>5. CASE \/ Commit \/ JobEnds
           \/ \E kind \in {"manual", "other"} : StartJob(kind)
  BY <1>5 DEF Commit, JobEnds, StartJob
<1>6. CASE Tick
  <2>1. CASE owed' # "asleep"
    BY <2>1
  <2>2. CASE owed = "asleep"
    BY <1>6, <2>2, Numbers DEF Tick
  <2>3. CASE owed' = "asleep" /\ owed # "asleep"
    <3>1. /\ pc = "asleep" /\ cfg.house /\ clock' = clock + 1
          /\ clock' % Day = HouseAt /\ ~updates /\ ~saving
          /\ UNCHANGED <<pc, updates, saving, nextHousekeeping, wake, raced>>
      BY <1>6, <2>3 DEF Tick
    <3>2. nextHousekeeping <= clock' /\ nextHousekeeping # 0
          /\ (~raced => wake <= clock')
      BY <3>1, Numbers DEF HouseTimer, Awake
    <3> QED
      BY <3>1, <3>2, Numbers DEF TypeOK
  <2> QED
    BY <2>1, <2>2, <2>3
<1> QED
  BY <1>1, <1>2, <1>3, <1>4, <1>5, <1>6 DEF Next

LEMMA DistanceStep == IInv /\ Next => Distance'
<1> SUFFICES ASSUME IInv, Next PROVE Distance'
  OBVIOUS
<1> USE DEF IInv
<1>1. CASE RunStarts \/ Notified \/ Settle \/ Refresh
  <2>1. Recompute(started) /\ UNCHANGED <<clock, disk, started, fired>>
    BY <1>1 DEF RunStarts, Notified, Settle, Refresh
  <2>2. Fresh(started)
    BY <2>1, RecomputeIs, StartIs
  <2> QED
    BY <2>1, <2>2, DistanceIs, StartIs DEF disk
<1>2. CASE Boot
  <2>1. Fresh(clock) /\ started' = clock /\ UNCHANGED <<clock, disk, fired>>
    BY <1>2, RecomputeIs, StartIs DEF Boot
  <2> QED
    BY <2>1, DistanceIs, StartIs DEF disk
<1>3. CASE Wake \/ SubmitBackup \/ SubmitHousekeeping \/ Crash \/ SaveSettings
  BY <1>3 DEF Wake, SubmitBackup, SubmitHousekeeping, Crash, SaveSettings,
              Distance
<1>4. CASE Commit
  BY <1>4 DEF Commit, Distance
<1>5. CASE JobEnds
  <2>1. CASE IsBackup
    BY <1>5, <2>1 DEF JobEnds, Distance
  <2>2. CASE ~IsBackup
    BY <1>5, <2>2 DEF JobEnds, Distance
  <2> QED
    BY <2>1, <2>2
<1>6. CASE Tick \/ \E kind \in {"manual", "other"} : StartJob(kind)
  BY <1>6 DEF Tick, StartJob, Distance, disk
<1> QED
  BY <1>1, <1>2, <1>3, <1>4, <1>5, <1>6 DEF Next

LEMMA Invariant == Spec => []IInv
<1>1. IInv /\ UNCHANGED vars => IInv'
  <2> SUFFICES ASSUME IInv, UNCHANGED vars PROVE IInv'
    OBVIOUS
  <2> USE DEF vars, disk, slot
  <2>1. TypeOK' /\ Order'
    BY DEF IInv, TypeOK, Order
  <2>2. BackupTimer' /\ HouseTimer'
    BY DEF IInv, BackupTimer, HouseTimer, Awake, DueBackup, Base
  <2>3. OnItsWay' /\ Distance'
    BY DEF IInv, OnItsWay, Distance
  <2> QED
    BY <2>1, <2>2, <2>3 DEF IInv
<1>2. IInv /\ [Next]_vars => IInv'
  BY <1>1, TypeStep, OrderStep, BackupTimerStep, HouseTimerStep, OnItsWayStep,
     DistanceStep DEF IInv
<1> QED
  BY <1>2, InitInv, PTL DEF Spec

----------------------------------------------------------------------------
(* What follows.                                                           *)

\* The scheduler keeps its types, for any settings, day and horizon.
THEOREM Typed == Spec => []TypeOK
<1>1. IInv => TypeOK
  BY DEF IInv
<1> QED
  BY <1>1, Invariant, PTL

\* A backup that is due is not slept over (Scheduler.untilNext), whatever the
\* interval, the jitter and the grace period.
THEOREM NotSleptOver == Spec => []Prompt
<1>1. IInv => Prompt
  <2> SUFFICES ASSUME IInv, Settled, cfg.enabled, ~saving
               PROVE  clock < DueBackup(started)
    BY DEF Prompt
  <2>1. wake <= Max({DueBackup(started), clock}) /\ clock < wake
    BY DEF IInv, BackupTimer, Awake, Settled
  <2>2. TypeOK
    BY DEF IInv
  <2>3. DueBackup(started) \in Nat
    BY <2>2, DueBackupIs, StartIs
  <2> QED
    BY <2>1, <2>2, <2>3, MaxOfTwo, Numbers
<1> QED
  BY <1>1, Invariant, PTL

\* A housekeeping time that the loop slept through is answered before the loop
\* sleeps on, unless somebody worked the times out anew in between, and the
\* loop then waits for the next time of day (recompute, untilNext, fireDue).
THEOREM NotForgotten == Spec => []Accounted
<1>1. IInv => Accounted
  <2> SUFFICES ASSUME IInv, Settled PROVE Accounted
    BY DEF Accounted
  <2> USE DEF IInv
  <2>1. owed # "asleep"
    BY Numbers DEF Settled, OnItsWay
  <2>2. ASSUME cfg.house PROVE nextHousekeeping = DueHousekeeping
    <3>1. /\ clock < wake /\ wake <= nextHousekeeping
          /\ nextHousekeeping % Day = HouseAt
          /\ \A t \in Nat : t > clock /\ t % Day = HouseAt =>
                nextHousekeeping <= t
      BY <2>2 DEF Settled, HouseTimer, Awake
    <3>2. nextHousekeeping > clock
      BY <3>1, Numbers
    <3>3. /\ DueHousekeeping \in Nat /\ DueHousekeeping > clock
          /\ DueHousekeeping % Day = HouseAt
          /\ DueHousekeeping <= nextHousekeeping
      BY <3>1, <3>2, Numbers, NextHousekeeping
    <3> QED
      BY <3>1, <3>3, Numbers
  <2> QED
    BY <2>1, <2>2 DEF Accounted
<1> QED
  BY <1>1, Invariant, PTL

\* Scheduled backups keep their distance, restarts included.
THEOREM Apart == Spec => Spaced
<1>1. IInv /\ [Next]_vars =>
        ((fired' > fired /\ ~saving) =>
          /\ fired # 0 => fired' >= fired + cfg.every
          /\ fired' >= started + Grace
          /\ Max({lastBackup, newest}) # 0 /\ ~unseen =>
                fired' >= Max({lastBackup, newest}) + cfg.every)
  <2> SUFFICES ASSUME IInv, [Next]_vars, fired' > fired, ~saving
               PROVE  /\ fired # 0 => fired' >= fired + cfg.every
                      /\ fired' >= started + Grace
                      /\ Max({lastBackup, newest}) # 0 /\ ~unseen =>
                            fired' >= Max({lastBackup, newest}) + cfg.every
    OBVIOUS
  <2>1. TypeOK
    BY DEF IInv
  <2>2. fired' # fired
    BY <2>1, Numbers
  <2>3. fired' = 0 \/ Wake
    BY <2>2 DEF Next, Boot, RunStarts, Notified, SubmitBackup,
                SubmitHousekeeping, Settle, SaveSettings, Refresh, StartJob,
                Commit, JobEnds, Crash, Tick, vars
  <2>4. Wake
    BY <2>1, <2>3, Numbers
  <2>5. /\ pc = "asleep" /\ fired' = clock
        /\ nextBackup # 0 /\ nextBackup <= clock
    BY <2>2, <2>4 DEF Wake, Due
  <2>6. Max({lastBackup, newest}) \in Nat
    BY <2>1, Numbers, MaxOfTwo
  <2> QED
    BY <2>1, <2>5, <2>6, Numbers, SleepAssumption DEF IInv, Distance
<1> QED
  BY <1>1, Invariant, PTL DEF Spec, Spaced
=============================================================================
