---------------------------- MODULE Panel_proofs ----------------------------
(***************************************************************************)
(* Proofs about JobRunner, for any number of jobs and any length of the    *)
(* history, that Panel, which adds the stream and the page, implements it, *)
(* so that the page's presence costs the runner none of its promises, and  *)
(* that the page sees the events in order, for any ring and any channel.   *)
(***************************************************************************)
EXTENDS Panel, TLAPS, WellFoundedInduction

Busy == {"working", "returned", "erred"}

\* Ids are given out in order, and the job in the slot is the last one.
Slot ==
    /\ current # 0 => current = counter
    /\ \A j \in Jobs : /\ body[j] \in Busy <=> current = j
                       /\ state[j] = "running" <=> current = j
                       /\ body[j] = "none" <=> j > counter
                       /\ state[j] = "none" <=> j > counter

\* A cancel that was accepted has reached the context of the job.
Cancelled ==
    \A j \in accepted : \/ state[j] = "running" /\ ctxDone[j]
                        \/ state[j] = "cancelled"

Closed ==
    /\ shutdown # "no" => closed
    /\ shutdown = "done" => \A j \in Jobs : body[j] \in {"none", "gone"}

\* The history is the last jobs that were filed, without a gap.
Filed == IF current = 0 THEN counter ELSE counter - 1
Gapless ==
    /\ Len(history) = IF Filed < History THEN Filed ELSE History
    /\ \A i \in 1..Len(history) : history[i] = Filed - Len(history) + i

Known == byID = Range(history) \cup ({current} \ {0})

IInv == TypeOK /\ Slot /\ Cancelled /\ Closed /\ Gapless /\ Known

----------------------------------------------------------------------------
(* What is remembered of a history.                                        *)

\* The end of a sequence, no longer than History.
LEMMA RememberedOf ==
    ASSUME NEW s \in Seq(Jobs)
    PROVE  LET n == IF Len(s) > History THEN History ELSE Len(s)
           IN  /\ Remembered(s) \in Seq(Jobs)
               /\ Len(Remembered(s)) = n
               /\ \A i \in 1..n : Remembered(s)[i] = s[Len(s) - n + i]
<1> USE HistoryAssumption
<1>1. CASE Len(s) > History
  <2> DEFINE m == Len(s) - History + 1
  <2>1. m \in 1..Len(s) /\ Len(s) \in Nat
    BY <1>1
  <2>2. Remembered(s) = SubSeq(s, m, Len(s))
    BY <1>1 DEF Remembered
  <2>3. /\ Remembered(s) \in Seq(Jobs)
        /\ Len(Remembered(s)) = Len(s) - m + 1
        /\ \A i \in 1..(Len(s) - m + 1) : Remembered(s)[i] = s[m + i - 1]
    BY <2>1, <2>2
  <2> QED
    BY <1>1, <2>1, <2>3
<1>2. CASE ~(Len(s) > History)
  <2>1. Remembered(s) = SubSeq(s, 1, Len(s))
    BY <1>2 DEF Remembered
  <2>2. Remembered(s) = s
    BY <2>1
  <2> QED
    BY <1>2, <2>2
<1> QED
  BY <1>1, <1>2

----------------------------------------------------------------------------
(* The steps of JobRunner.                                                 *)

LEMMA InitInv == Init => IInv
<1> SUFFICES ASSUME Init PROVE IInv
  OBVIOUS
<1> USE MaxJobsAssumption, HistoryAssumption DEF Init
<1>1. TypeOK
  <2>1. history \in Seq(Jobs) /\ Len(history) <= History
    OBVIOUS
  <2>2. /\ state \in [Jobs -> {"none", "running", "succeeded", "failed",
                              "cancelled"}]
        /\ body \in [Jobs -> {"none", "working", "returned", "erred", "filed",
                             "gone"}]
    OBVIOUS
  <2>3. cancelling \in [Jobs -> BOOLEAN] /\ ctxDone \in [Jobs -> BOOLEAN]
    OBVIOUS
  <2>4. counter \in 0..MaxJobs /\ current \in 0..MaxJobs
    OBVIOUS
  <2>5. byID \subseteq Jobs /\ accepted \subseteq Jobs
    OBVIOUS
  <2>6. /\ closed \in BOOLEAN
        /\ shutdown \in {"no", "waiting", "done", "gaveUp"}
    OBVIOUS
  <2> QED
    BY <2>1, <2>2, <2>3, <2>4, <2>5, <2>6 DEF TypeOK
<1>2. Slot
  BY DEF Slot, Busy, Jobs
<1>3. Cancelled /\ Closed
  BY DEF Cancelled, Closed
<1>4. Gapless
  BY DEF Gapless, Filed
<1>5. Known
  BY DEF Known, Range
<1> QED
  BY <1>1, <1>2, <1>3, <1>4, <1>5 DEF IInv

\* A job gets the next id and the slot.
LEMMA SubmitStep == IInv /\ Submit => IInv'
<1> SUFFICES ASSUME IInv, Submit PROVE IInv'
  OBVIOUS
<1> USE MaxJobsAssumption, HistoryAssumption DEF IInv, Submit, Jobs
<1>1. counter + 1 \in Jobs /\ counter' = counter + 1
  BY DEF TypeOK
<1>2. TypeOK'
  BY <1>1 DEF TypeOK
<1>3. Slot'
  BY <1>1 DEF TypeOK, Slot, Busy
<1>4. Cancelled'
  <2> SUFFICES ASSUME NEW j \in accepted PROVE
          \/ state'[j] = "running" /\ ctxDone[j]
          \/ state'[j] = "cancelled"
    BY DEF Cancelled
  <2>1. state[j] # "none"
    BY DEF Cancelled
  <2>2. j # counter + 1
    BY <1>1, <2>1 DEF TypeOK, Slot
  <2> QED
    BY <1>1, <2>2 DEF TypeOK, Cancelled
<1>5. Closed'
  BY DEF Closed
<1>6. Gapless'
  <2>1. Filed' = Filed
    BY <1>1 DEF TypeOK, Filed
  <2> QED
    BY <2>1 DEF Gapless
<1>7. Known'
  BY <1>1 DEF TypeOK, Known
<1> QED
  BY <1>2, <1>3, <1>4, <1>5, <1>6, <1>7

\* fn is back; nothing else has changed.
LEMMA ReturnStep ==
    ASSUME IInv, NEW j \in Jobs, BodyReturns(j)
    PROVE  IInv'
<1> USE DEF IInv, BodyReturns
<1>1. TypeOK'
  BY DEF TypeOK
<1>2. Slot'
  BY DEF TypeOK, Slot, Busy
<1>3. Cancelled' /\ Gapless' /\ Known'
  BY DEF Cancelled, Gapless, Filed, Known
<1>4. Closed'
  BY DEF Closed
<1> QED
  BY <1>1, <1>2, <1>3, <1>4

\* The end of run: outcome, history, slot.
LEMMA FileStep ==
    ASSUME IInv, NEW j \in Jobs, File(j)
    PROVE  IInv'
<1> USE MaxJobsAssumption, HistoryAssumption DEF IInv, File
<1>1. current = j /\ counter = j /\ state[j] = "running"
  BY DEF TypeOK, Slot, Busy, Jobs
<1> DEFINE added == Append(history, j)
<1>2. /\ history \in Seq(Jobs) /\ added \in Seq(Jobs)
      /\ Len(added) = Len(history) + 1
      /\ \A i \in 1..Len(history) : added[i] = history[i]
      /\ added[Len(history) + 1] = j
  BY DEF TypeOK
<1> DEFINE n == IF Len(added) > History THEN History ELSE Len(added)
<1>3. /\ history' \in Seq(Jobs) /\ Len(history') = n
      /\ \A i \in 1..n : history'[i] = added[Len(added) - n + i]
  BY <1>2, RememberedOf
<1> HIDE DEF added, n
<1>4. TypeOK'
  <2>1. Len(history') <= History
    BY <1>2, <1>3 DEF n
  <2>2. Outcome(j) \in {"cancelled", "failed", "succeeded"}
    BY DEF Outcome
  <2> QED
    BY <1>3, <2>1, <2>2 DEF TypeOK
<1>5. Slot'
  <2>1. Outcome(j) \notin {"running", "none"}
    BY DEF Outcome
  <2> QED
    BY <1>1, <2>1 DEF TypeOK, Slot, Busy, Jobs
<1>6. Cancelled'
  <2>1. j \in accepted => Outcome(j) = "cancelled"
    BY <1>1 DEF Cancelled, Outcome
  <2> QED
    BY <2>1 DEF TypeOK, Cancelled
<1>7. Closed'
  BY DEF Closed
<1>8. Gapless'
  <2>1. Filed = counter - 1 /\ Filed' = counter /\ counter \in Nat \ {0}
    BY <1>1 DEF Filed, TypeOK, Jobs
  <2>2. Len(added) = IF counter - 1 < History THEN counter ELSE History + 1
    BY <1>2, <2>1 DEF Gapless
  <2>3. n = IF counter < History THEN counter ELSE History
    BY <2>1, <2>2 DEF n
  <2>4. \A i \in 1..Len(added) : added[i] = counter - Len(added) + i
    <3> SUFFICES ASSUME NEW i \in 1..Len(added)
                 PROVE  added[i] = counter - Len(added) + i
      OBVIOUS
    <3>1. Len(history) \in Nat /\ i \in Nat
      BY <1>2
    <3>2. CASE i = Len(added)
      BY <1>1, <1>2, <2>1, <3>1, <3>2
    <3>3. CASE i # Len(added)
      <4>1. i \in 1..Len(history) /\ added[i] = history[i]
        BY <1>2, <3>1, <3>3
      <4>2. history[i] = counter - 1 - Len(history) + i
        BY <2>1, <4>1 DEF Gapless
      <4> QED
        BY <1>2, <2>1, <3>1, <4>1, <4>2
    <3> QED
      BY <3>2, <3>3
  <2>5. \A i \in 1..n : history'[i] = counter - n + i
    <3> SUFFICES ASSUME NEW i \in 1..n PROVE history'[i] = counter - n + i
      OBVIOUS
    <3>1. /\ n \in Nat /\ Len(added) \in Nat /\ i \in Nat
          /\ Len(added) - n + i \in 1..Len(added)
      BY <2>1, <2>2, <2>3
    <3>2. added[Len(added) - n + i]
              = counter - Len(added) + (Len(added) - n + i)
      BY <2>4, <3>1
    <3> QED
      BY <1>3, <2>1, <3>1, <3>2
  <2> QED
    BY <1>3, <2>1, <2>3, <2>5 DEF Gapless
<1>9. Known'
  <2>1. Range(added) = Range(history) \cup {j}
    <3>1. DOMAIN added = 1..Len(added) /\ DOMAIN history = 1..Len(history)
      BY <1>2
    <3>2. 1..Len(added) = 1..Len(history) \cup {Len(history) + 1}
      BY <1>2
    <3>3. ASSUME NEW x \in Range(added) PROVE x \in Range(history) \cup {j}
      <4>1. PICK i \in 1..Len(added) : x = added[i]
        BY <3>1 DEF Range
      <4> QED
        BY <1>2, <3>1, <3>2, <4>1 DEF Range
    <3>4. ASSUME NEW x \in Range(history) PROVE x \in Range(added)
      <4>1. PICK i \in 1..Len(history) : x = history[i]
        BY <3>1 DEF Range
      <4> QED
        BY <1>2, <3>1, <3>2, <4>1 DEF Range
    <3>5. j \in Range(added)
      BY <1>2, <3>1, <3>2 DEF Range
    <3> QED
      BY <3>3, <3>4, <3>5
  <2>2. Range(history') \subseteq Range(added)
    <3> SUFFICES ASSUME NEW i \in 1..n PROVE history'[i] \in Range(added)
      BY <1>3 DEF Range
    <3>1. Len(added) \in Nat /\ n \in 0..Len(added) /\ i \in Nat
      BY <1>2 DEF n
    <3>2. Len(added) - n + i \in 1..Len(added)
      BY <3>1
    <3>3. added[Len(added) - n + i] \in Range(added)
      BY <1>2, <3>2 DEF Range
    <3> QED
      BY <1>3, <3>3
  <2>3. byID = Range(added)
    BY <1>1, <2>1 DEF Known, Jobs
  <2>4. byID' = Range(history')
    BY <2>2, <2>3 DEF added
  <2> QED
    BY <2>4 DEF Known
<1> QED
  BY <1>4, <1>5, <1>6, <1>7, <1>8, <1>9

\* The goroutine is gone.
LEMMA DoneStep ==
    ASSUME IInv, NEW j \in Jobs, WgDone(j)
    PROVE  IInv'
<1> USE DEF IInv, WgDone
<1>1. TypeOK'
  BY DEF TypeOK
<1>2. Slot'
  BY DEF TypeOK, Slot, Busy
<1>3. Cancelled' /\ Gapless' /\ Known'
  BY DEF Cancelled, Gapless, Filed, Known
<1>4. Closed'
  BY DEF TypeOK, Closed
<1> QED
  BY <1>1, <1>2, <1>3, <1>4

\* Only the job in the slot can be cancelled.
LEMMA CancelStep ==
    ASSUME IInv, NEW j \in Jobs, Cancel(j)
    PROVE  IInv'
<1> USE DEF IInv, Cancel
<1>1. TypeOK'
  BY DEF TypeOK
<1>2. Slot' /\ Closed' /\ Gapless' /\ Known'
  BY DEF Slot, Closed, Gapless, Filed, Known
<1>3. Cancelled'
  BY DEF TypeOK, Slot, Cancelled
<1> QED
  BY <1>1, <1>2, <1>3

LEMMA ShutdownStep ==
    IInv /\ (BeginShutdown \/ EndShutdown \/ GiveUp) => IInv'
<1> SUFFICES ASSUME IInv, BeginShutdown \/ EndShutdown \/ GiveUp PROVE IInv'
  OBVIOUS
<1> USE DEF IInv, BeginShutdown, EndShutdown, GiveUp
<1>1. TypeOK'
  BY DEF TypeOK
<1>2. Slot' /\ Gapless' /\ Known'
  BY DEF Slot, Gapless, Filed, Known
<1>3. Cancelled'
  BY DEF TypeOK, Cancelled
<1>4. Closed'
  BY DEF Closed
<1> QED
  BY <1>1, <1>2, <1>3, <1>4

LEMMA Step == IInv /\ [Next]_vars => IInv'
<1> SUFFICES ASSUME IInv, [Next]_vars PROVE IInv'
  OBVIOUS
<1>1. CASE UNCHANGED vars
  BY <1>1 DEF vars, IInv, TypeOK, Slot, Cancelled, Closed, Gapless, Filed,
              Known
<1> QED
  BY <1>1, SubmitStep, ReturnStep, FileStep, DoneStep, CancelStep,
     ShutdownStep DEF Next

LEMMA Invariant == Spec => []IInv
  BY InitInv, Step, PTL DEF Spec

----------------------------------------------------------------------------
(* What follows.                                                           *)

LEMMA Consequences ==
    IInv => TypeOK /\ CancelHonoured /\ Findable /\ QuietAfterShutdown
<1> SUFFICES ASSUME IInv
             PROVE  TypeOK /\ CancelHonoured /\ Findable /\ QuietAfterShutdown
  OBVIOUS
<1> USE MaxJobsAssumption, HistoryAssumption DEF IInv
<1>1. CancelHonoured
  BY DEF Cancelled, CancelHonoured
<1>2. QuietAfterShutdown
  BY DEF Closed, QuietAfterShutdown
<1>3. Findable
  <2> SUFFICES ASSUME NEW j \in Jobs, body[j] \in {"filed", "gone"},
                      counter - j < History
               PROVE  j \in Range(history)
    BY DEF Findable, Known
  <2>1. j \in 1..Filed /\ Filed \in Nat /\ counter - Filed \in {0, 1}
    <3>1. j # current /\ ~(j > counter)
      BY DEF Slot, Busy
    <3>2. j \in Nat \ {0}
      BY DEF Jobs
    <3>3. counter \in Nat /\ (current = 0 \/ current = counter)
      BY DEF TypeOK, Slot
    <3> QED
      BY <3>1, <3>2, <3>3 DEF Filed
  <2> DEFINE i == j - (Filed - Len(history))
  <2>2. Len(history) = IF Filed < History THEN Filed ELSE History
    BY DEF Gapless
  <2>3. counter \in Nat /\ j \in Nat
    BY DEF TypeOK, Jobs
  <2>4. i \in 1..Len(history)
    BY <2>1, <2>2, <2>3
  <2>5. history[i] = Filed - Len(history) + i
    BY <2>4 DEF Gapless
  <2>6. history[i] = j
    BY <2>1, <2>2, <2>3, <2>5
  <2>7. DOMAIN history = 1..Len(history)
    BY DEF TypeOK
  <2> QED
    BY <2>4, <2>6, <2>7 DEF Range
<1> QED
  BY <1>1, <1>2, <1>3

----------------------------------------------------------------------------
(* The page is a bystander: every step of Panel is one of JobRunner or     *)
(* leaves it alone.                                                        *)

\* jobs.go: what is published is published in the step that changes the job,
\* and nothing a page does reaches the runner.
THEOREM Bystander == PanelSpec => Spec
<1>1. PanelInit => Init
  BY DEF PanelInit
<1>2. [PanelNext]_all => [Next]_vars
  <2> SUFFICES ASSUME [PanelNext]_all PROVE [Next]_vars
    OBVIOUS
  <2>1. CASE Start \/ CloseWatchers
    BY <2>1 DEF Start, CloseWatchers, Next
  <2>2. CASE Quietly
    BY <2>2 DEF Quietly, Next
  <2>3. CASE Link
    BY <2>3 DEF Link, Connect, Receive, Disconnect, Dropped, Refresh,
               RefreshFails
  <2>4. ASSUME NEW j \in Jobs, Report(j) \/ PressCancel(j) \/ End(j)
        PROVE  [Next]_vars
    BY <2>4 DEF Report, PressCancel, End, Next
  <2>5. CASE UNCHANGED all
    BY <2>5 DEF all
  <2> QED
    BY <2>1, <2>2, <2>3, <2>4, <2>5 DEF PanelNext
<1> QED
  BY <1>1, <1>2, PTL DEF PanelSpec, Spec

\* A cancel that was answered with nil decides the outcome (jobs.go, Cancel
\* and run), with any number of jobs and pages coming and going.
THEOREM Honoured == PanelSpec => []CancelHonoured
<1>1. IInv => CancelHonoured
  BY Consequences
<1> QED
  BY <1>1, Bystander, Invariant, PTL

\* byID and the history agree, and the last History jobs can be fetched.
THEOREM Found == PanelSpec => []Findable
<1>1. IInv => Findable
  BY Consequences
<1> QED
  BY <1>1, Bystander, Invariant, PTL

\* Nothing runs any more when Shutdown has returned nil.
THEOREM Quiet == PanelSpec => []QuietAfterShutdown
<1>1. IInv => QuietAfterShutdown
  BY Consequences
<1> QED
  BY <1>1, Bystander, Invariant, PTL

----------------------------------------------------------------------------
(* The stream, for any length of the ring and of the channel.              *)

N == Len(published)

\* The numbers in the channel go up by one, except after a reset, which goes
\* back; they begin with the one the page expects and end with the last one
\* published.
Numbered ==
    /\ \A i \in 1..Len(chan) : chan[i].seq \in 1..N
    /\ \A i \in 2..Len(chan) :
          /\ chan[i].kind # "reset"
          /\ chan[i - 1].kind = "reset" \/ chan[i].seq = chan[i - 1].seq + 1
          /\ chan[i].seq <= chan[i - 1].seq + 1
    /\ chan # <<>> /\ chan[1].kind # "reset" =>
          IF expected = 0 THEN chan[1].seq <= lastId + 1
          ELSE expected = chan[1].seq
    /\ open => IF chan = <<>> THEN lastId = N /\ expected \in {0, N + 1}
               ELSE chan[Len(chan)].seq = N

Progress ==
    /\ lastId <= N /\ expected <= N + 1
    /\ ~connected => chan = <<>> /\ ~open

\* A refresh that knows of a job knows of one that there is.
Asked == \A r \in Polls : poll[r].step = "listed" => poll[r].from \in 1..N

Flow == Stream!TypeOK /\ Numbered /\ Progress /\ Asked /\ ~torn /\ ~doubled

LEMMA StreamBounds ==
    MaxSeq \in Nat /\ EventBuffer \in Nat \ {0} /\ ChanCap \in Nat \ {0}
BY MaxSeqAssumption, EventBufferAssumption, ChanCapAssumption

LEMMA FlowInit == Stream!Init => Flow
<1> SUFFICES ASSUME Stream!Init PROVE Flow
  OBVIOUS
<1> USE StreamBounds DEF Stream!Init
<1>1. Stream!TypeOK
  <2>1. published \in Seq(Stream!Kinds) /\ Len(published) <= MaxSeq
    OBVIOUS
  <2>2. chan \in Seq(Stream!Message) /\ Len(chan) <= ChanCap
    OBVIOUS
  <2>3. lastId \in 0..MaxSeq /\ expected \in 0..(MaxSeq + 1)
    OBVIOUS
  <2>4. /\ {open, connected, misled, torn, doubled} \subseteq BOOLEAN
        /\ view \in {"none", "start", "end"}
        /\ replied = {} /\ appended = {} /\ missing = {}
    OBVIOUS
  <2>5. poll \in [Polls -> [step : Stream!Steps, from : 0..MaxSeq,
                           upto : 0..MaxSeq]]
    BY DEF Stream!Idle, Stream!Steps
  <2> QED
    BY <2>1, <2>2, <2>3, <2>4, <2>5 DEF Stream!TypeOK
<1>2. Numbered /\ Progress /\ Asked
  BY DEF Numbered, Progress, Asked, Stream!Idle, N
<1> QED
  BY <1>1, <1>2 DEF Flow

\* One more event, and a message for it if there is room.
LEMMA PublishFlow ==
    ASSUME Flow, NEW kind \in Stream!Kinds, Stream!Publish(kind)
    PROVE  Flow'
<1> USE StreamBounds
<1> DEFINE e == [kind |-> kind, seq |-> N + 1]
<1>0. /\ published' = Append(published, kind) /\ N < MaxSeq
      /\ \/ /\ open /\ Len(chan) < ChanCap
            /\ chan' = Append(chan, e) /\ open' = open
         \/ chan' = chan /\ open' = FALSE
      /\ UNCHANGED <<connected, lastId, view, poll, replied, appended,
                     expected, misled, missing, torn, doubled>>
  BY DEF Stream!Publish, Stream!seq, Stream!page, Stream!observer, N
<1>t. /\ published \in Seq(Stream!Kinds) /\ N \in Nat
      /\ chan \in Seq(Stream!Message) /\ Len(chan) \in Nat
      /\ Len(chan) <= ChanCap /\ expected \in 0..(MaxSeq + 1)
      /\ lastId \in 0..MaxSeq
  BY DEF Flow, Stream!TypeOK, N
<1>1. published' \in Seq(Stream!Kinds) /\ N' = N + 1
  BY <1>0, <1>t DEF N
<1>2. e \in Stream!Message /\ kind # "reset"
  BY <1>0, <1>t DEF Stream!Message, Stream!Kinds
<1>3. e.seq = N + 1 /\ e.kind = kind
  OBVIOUS
<1> HIDE DEF e
<1>4. CASE /\ open /\ Len(chan) < ChanCap
           /\ chan' = Append(chan, e) /\ open' = open
  <2>1. /\ chan' \in Seq(Stream!Message) /\ Len(chan') = Len(chan) + 1
        /\ \A i \in 1..Len(chan) : chan'[i] = chan[i]
        /\ chan'[Len(chan) + 1] = e
    BY <1>4, <1>t, <1>2
  <2>2. Stream!TypeOK'
    BY <1>0, <1>1, <1>4, <1>t, <2>1 DEF Flow, Stream!TypeOK, N
  <2>3. Numbered'
    <3>1. \A i \in 1..Len(chan') : chan'[i].seq \in 1..N'
      <4> SUFFICES ASSUME NEW i \in 1..Len(chan') PROVE chan'[i].seq \in 1..N'
        OBVIOUS
      <4>1. CASE i \in 1..Len(chan)
        <5>1. chan'[i] = chan[i] /\ chan[i].seq \in 1..N
          BY <2>1, <4>1 DEF Flow, Numbered
        <5> QED
          BY <1>1, <1>t, <5>1
      <4>2. CASE i = Len(chan) + 1
        BY <1>1, <1>3, <1>t, <2>1, <4>2
      <4> QED
        BY <1>t, <2>1, <4>1, <4>2
    <3>2. ASSUME NEW i \in 2..Len(chan')
          PROVE  /\ chan'[i].kind # "reset"
                 /\ \/ chan'[i - 1].kind = "reset"
                    \/ chan'[i].seq = chan'[i - 1].seq + 1
                 /\ chan'[i].seq <= chan'[i - 1].seq + 1
      <4>1. CASE i <= Len(chan)
        <5>1. /\ i \in 2..Len(chan) /\ chan'[i] = chan[i]
              /\ chan'[i - 1] = chan[i - 1]
          BY <1>t, <2>1, <4>1
        <5> QED
          BY <5>1 DEF Flow, Numbered
      <4>2. CASE i = Len(chan) + 1
        <5>1. chan # <<>> /\ chan'[i] = e /\ chan'[i - 1] = chan[Len(chan)]
          BY <1>t, <2>1, <4>2
        <5>2. chan[Len(chan)].seq = N
          BY <1>4, <5>1 DEF Flow, Numbered
        <5> QED
          BY <1>2, <1>3, <1>t, <5>1, <5>2
      <4> QED
        BY <1>t, <2>1, <4>1, <4>2
    <3>3. chan' # <<>> /\ chan'[Len(chan')].seq = N'
      BY <1>1, <1>3, <1>t, <2>1
    <3>4. chan'[1].kind = "reset"
          \/ IF expected' = 0 THEN chan'[1].seq <= lastId' + 1
             ELSE expected' = chan'[1].seq
      <4>1. CASE chan = <<>>
        <5>1. expected \in {0, N + 1} /\ lastId = N /\ chan'[1] = e
          BY <1>4, <4>1, <2>1 DEF Flow, Numbered
        <5> QED
          BY <1>0, <1>3, <1>t, <5>1
      <4>2. CASE chan # <<>>
        <5>1. chan'[1] = chan[1]
          BY <1>t, <2>1, <4>2
        <5> QED
          BY <1>0, <4>2, <5>1 DEF Flow, Numbered
      <4> QED
        BY <4>1, <4>2
    <3> QED
      BY <3>1, <3>2, <3>3, <3>4 DEF Numbered
  <2>4. Progress' /\ Asked'
    BY <1>0, <1>1, <1>4, <1>t DEF Flow, Progress, Asked
  <2> QED
    BY <1>0, <2>2, <2>3, <2>4 DEF Flow
<1>5. CASE chan' = chan /\ open' = FALSE
  <2>4. Len(published') <= MaxSeq
    BY <1>0, <1>1, <1>t DEF N
  <2>1. Stream!TypeOK'
    BY <1>0, <1>1, <1>5, <2>4 DEF Flow, Stream!TypeOK
  <2>2. Numbered'
    BY <1>0, <1>1, <1>5, <1>t DEF Flow, Numbered
  <2>3. Progress' /\ Asked'
    BY <1>0, <1>1, <1>5, <1>t DEF Flow, Progress, Asked
  <2> QED
    BY <1>0, <2>1, <2>2, <2>3 DEF Flow
<1> QED
  BY <1>0, <1>4, <1>5

\* What a new watcher is handed.
LEMMA ReplayIs ==
    ASSUME Flow
    PROVE  LET r == Stream!Replay(lastId)
               first == Stream!First(lastId)
           IN  /\ r \in Seq(Stream!Message) /\ Len(r) <= ChanCap
               /\ \A i \in 1..Len(r) : r[i].seq \in 1..N
               /\ \A i \in 2..Len(r) :
                     /\ r[i].kind # "reset"
                     /\ r[i - 1].kind = "reset" \/ r[i].seq = r[i - 1].seq + 1
                     /\ r[i].seq <= r[i - 1].seq + 1
               /\ r # <<>> => /\ r[1].kind = "reset" \/ r[1].seq = first
                              /\ r[Len(r)].seq = N
               /\ r = <<>> => first = N + 1
<1> USE StreamBounds
<1> DEFINE r == Stream!Replay(lastId)
           first == Stream!First(lastId)
           n == N + 1 - first
           left == (n - 1) % ChanCap
<1>t. /\ N \in 0..MaxSeq /\ lastId \in 0..N
      /\ \A i \in 1..N : published[i] \in Stream!Kinds
  BY DEF Flow, Stream!TypeOK, Progress, N
<1>1. first \in 1..(N + 1)
  BY <1>t DEF Stream!First, Stream!Oldest, Stream!seq, N
<1>2. n \in 0..N
  BY <1>1, <1>t
<1>3. ASSUME NEW i \in 1..N
      PROVE  /\ Stream!Event(i) \in Stream!Message
             /\ Stream!Event(i).seq = i /\ Stream!Event(i).kind # "reset"
  BY <1>t DEF Stream!Event, Stream!Message, Stream!Kinds
<1>4. CASE n <= ChanCap
  <2>1. r = [i \in 1..n |-> Stream!Event(N - n + i)]
    BY <1>4 DEF Stream!Replay, Stream!seq, N
  <2> HIDE DEF r, first
  <2>2. \A i \in 1..n : N - n + i \in 1..N
    BY <1>2, <1>t
  <2>3. r \in Seq(Stream!Message) /\ Len(r) = n
    BY <1>2, <1>3, <2>1, <2>2
  <2>4. \A i \in 1..n : /\ r[i].seq = N - n + i /\ r[i].kind # "reset"
    BY <1>3, <2>1, <2>2
  <2>5. \A i \in 2..n : i \in 1..n /\ i - 1 \in 1..n
    BY <1>2
  <2>6. \A i \in 2..n : /\ r[i].seq = r[i - 1].seq + 1
                        /\ r[i].seq <= r[i - 1].seq + 1
    BY <1>2, <1>t, <2>4, <2>5
  <2>7. r # <<>> => r[1].seq = first /\ r[n].seq = N
    <3> SUFFICES ASSUME n # 0 PROVE r[1].seq = first /\ r[n].seq = N
      BY <2>3
    <3>1. 1 \in 1..n /\ n \in 1..n
      BY <1>2
    <3> QED
      BY <1>1, <1>t, <2>4, <3>1
  <2>8. r = <<>> => first = N + 1
    BY <1>1, <1>t, <2>3
  <2>9. \A i \in 1..n : r[i].seq \in 1..N
    BY <2>2, <2>4
  <2>10. \A i \in 2..n : r[i].kind # "reset"
    BY <2>4, <2>5
  <2> HIDE DEF n
  <2> QED
    BY <1>4, <2>3, <2>6, <2>7, <2>8, <2>9, <2>10 DEF r, first
<1>5. CASE ~(n <= ChanCap)
  <2> DEFINE reset == [kind |-> "reset", seq |-> N]
  <2>1. r = [i \in 1..left + 1 |-> IF i = 1 THEN reset
                                  ELSE Stream!Event(N - left + i - 1)]
    BY <1>5 DEF Stream!Replay, Stream!seq, N
  <2>2. left \in 0..(ChanCap - 1) /\ left <= n - 1
    BY <1>2, <1>5
  <2> HIDE DEF r, first, left
  <2>3. N \in 1..N /\ N \in Nat
    BY <1>2, <1>5, <1>t
  <2>4. reset \in Stream!Message /\ reset.seq = N /\ reset.kind = "reset"
    BY <1>t DEF Stream!Message
  <2> HIDE DEF reset
  <2>5. \A i \in 2..left + 1 : N - left + i - 1 \in 1..N
    BY <1>2, <1>t, <2>2
  <2>6. \A i \in 1..left + 1 : i = 1 \/ i \in 2..left + 1
    BY <2>2
  <2>7. r \in Seq(Stream!Message) /\ Len(r) = left + 1
    BY <1>3, <2>1, <2>2, <2>4, <2>5, <2>6
  <2>8. r[1] = reset
    BY <2>1, <2>2
  <2>9. \A i \in 2..left + 1 : /\ r[i].seq = N - left + i - 1
                               /\ r[i].kind # "reset"
    BY <1>3, <2>1, <2>2, <2>5
  <2>10. \A i \in 2..left + 1 : /\ \/ r[i - 1].kind = "reset"
                                   \/ r[i].seq = r[i - 1].seq + 1
                                /\ r[i].seq <= r[i - 1].seq + 1
    <3> SUFFICES ASSUME NEW i \in 2..left + 1
                 PROVE  /\ \/ r[i - 1].kind = "reset"
                           \/ r[i].seq = r[i - 1].seq + 1
                        /\ r[i].seq <= r[i - 1].seq + 1
      OBVIOUS
    <3>1. CASE i = 2
      <4>1. r[2].seq <= N + 1 /\ r[2 - 1] = reset
        BY <2>2, <2>3, <2>5, <2>8, <2>9, <3>1
      <4> QED
        BY <2>4, <3>1, <4>1
    <3>2. CASE i # 2
      <4>1. i - 1 \in 2..left + 1
        BY <2>2, <3>2
      <4> QED
        BY <2>2, <2>3, <2>9, <4>1
    <3> QED
      BY <3>1, <3>2
  <2>11. r[left + 1].seq = N
    <3>1. CASE left = 0
      BY <2>4, <2>8, <3>1
    <3>2. CASE left # 0
      <4>1. left + 1 \in 2..left + 1
        BY <2>2, <3>2
      <4> QED
        BY <2>2, <2>3, <2>9, <4>1
    <3> QED
      BY <3>1, <3>2
  <2>12. \A i \in 1..left + 1 : r[i].seq \in 1..N
    BY <2>3, <2>4, <2>5, <2>6, <2>8, <2>9
  <2>13. r # <<>> /\ Len(r) <= ChanCap
    BY <2>2, <2>7
  <2> QED
    BY <2>4, <2>7, <2>8, <2>9, <2>10, <2>11, <2>12, <2>13 DEF r, first
<1> QED
  BY <1>4, <1>5

\* The lines of the log are events.
LEMMA LoggedIs == Flow => Stream!Logged \subseteq Stream!Seqs
<1> SUFFICES ASSUME Flow PROVE 1..Len(published) \subseteq 1..MaxSeq
  BY DEF Stream!Logged, Stream!Seqs, Stream!seq
<1> QED
  BY StreamBounds DEF Flow, Stream!TypeOK

LEMMA ConnectFlow == Flow /\ Stream!Connect => Flow'
<1> SUFFICES ASSUME Flow, Stream!Connect PROVE Flow'
  OBVIOUS
<1> USE StreamBounds
<1>0. /\ connected' = TRUE /\ open' = TRUE /\ chan' = Stream!Replay(lastId)
      /\ expected' = IF lastId + 1 < Stream!Oldest THEN Stream!Oldest
                     ELSE lastId + 1
      /\ UNCHANGED <<published, lastId, view, poll, replied, appended, torn,
                     doubled>>
  BY DEF Stream!Connect, Stream!page
<1>t. N \in 0..MaxSeq /\ lastId \in 0..N
  BY DEF Flow, Stream!TypeOK, Progress, N
<1>1. expected' = Stream!First(lastId) /\ expected' \in 1..(N + 1)
  BY <1>0, <1>t DEF Stream!First, Stream!Oldest, Stream!seq, N
<1>2. N' = N
  BY <1>0 DEF N
<1>3. Stream!TypeOK'
  <2>1. expected' \in 0..(MaxSeq + 1)
    BY <1>1, <1>t
  <2>2. chan' \in Seq(Stream!Message) /\ Len(chan') <= ChanCap
    BY <1>0, ReplayIs
  <2>3. missing' \subseteq Stream!Seqs
    <3>1. missing' \subseteq missing \cup Stream!Logged
      BY DEF Stream!Connect
    <3> QED
      BY <3>1, LoggedIs DEF Flow, Stream!TypeOK
  <2>4. misled' \in BOOLEAN
    BY DEF Stream!Connect, Flow, Stream!TypeOK
  <2> QED
    BY <1>0, <2>1, <2>2, <2>3, <2>4 DEF Flow, Stream!TypeOK
<1>4. Numbered'
  <2>1. /\ \A i \in 1..Len(chan') : chan'[i].seq \in 1..N
        /\ \A i \in 2..Len(chan') :
              /\ chan'[i].kind # "reset"
              /\ \/ chan'[i - 1].kind = "reset"
                 \/ chan'[i].seq = chan'[i - 1].seq + 1
              /\ chan'[i].seq <= chan'[i - 1].seq + 1
        /\ chan' # <<>> => /\ \/ chan'[1].kind = "reset"
                              \/ chan'[1].seq = Stream!First(lastId)
                           /\ chan'[Len(chan')].seq = N
        /\ chan' = <<>> => Stream!First(lastId) = N + 1
    BY <1>0, ReplayIs
  <2>2. Stream!First(lastId) = N + 1 => lastId = N
    BY <1>t DEF Stream!First, Stream!Oldest, Stream!seq, N
  <2> QED
    BY <1>0, <1>1, <1>2, <2>1, <2>2 DEF Numbered
<1>5. Progress' /\ Asked'
  BY <1>0, <1>1, <1>2, <1>t DEF Progress, Asked, Flow
<1> QED
  BY <1>0, <1>3, <1>4, <1>5 DEF Flow

LEMMA ReceiveFlow == Flow /\ Stream!Receive => Flow'
<1> SUFFICES ASSUME Flow, Stream!Receive PROVE Flow'
  OBVIOUS
<1> USE StreamBounds
<1> DEFINE m == Head(chan)
<1>t. /\ N \in 0..MaxSeq /\ lastId \in 0..N /\ expected \in 0..(MaxSeq + 1)
      /\ chan \in Seq(Stream!Message) /\ Len(chan) \in Nat
      /\ Len(chan) <= ChanCap /\ ~torn /\ ~doubled
  BY DEF Flow, Stream!TypeOK, Progress, N
<1>0. /\ connected /\ chan # <<>> /\ chan' = Tail(chan)
      /\ lastId' = m.seq
      /\ UNCHANGED <<published, open, connected, poll, replied>>
  BY DEF Stream!Receive
<1>1. m = chan[1] /\ m \in Stream!Message /\ m.seq \in 1..N
  BY <1>0, <1>t DEF Flow, Numbered
<1>2. /\ chan' \in Seq(Stream!Message) /\ Len(chan') = Len(chan) - 1
      /\ \A i \in 1..Len(chan') : chan'[i] = chan[i + 1]
  BY <1>0, <1>t
<1>3. /\ expected' = IF m.kind = "reset" THEN 0 ELSE m.seq + 1
      /\ ~torn' /\ ~doubled'
  <2>1. CASE m.kind = "reset"
    BY <1>t, <2>1 DEF Stream!Receive, Stream!Reset
  <2>2. CASE m.kind # "reset"
    <3>1. expected \in {0, m.seq}
      BY <1>0, <1>1, <2>2 DEF Flow, Numbered
    <3>2. expected' = m.seq + 1
      BY <2>2 DEF Stream!Receive, Stream!See
    <3>3. /\ torn' = (torn \/ (expected # 0 /\ m.seq > expected))
          /\ doubled' = (doubled \/ m.seq < expected)
      BY <2>2 DEF Stream!Receive, Stream!See
    <3>4. ~(expected # 0 /\ m.seq > expected) /\ ~(m.seq < expected)
      BY <1>1, <1>t, <3>1
    <3> HIDE DEF m
    <3>5. ~torn' /\ ~doubled'
      BY <1>t, <3>3, <3>4
    <3> QED
      BY <2>2, <3>2, <3>5
  <2> QED
    BY <2>1, <2>2
<1> HIDE DEF m
<1>4. N' = N
  BY <1>0 DEF N
<1>5. Stream!TypeOK'
  <2>1. lastId' \in 0..MaxSeq /\ expected' \in 0..(MaxSeq + 1)
    BY <1>0, <1>1, <1>3, <1>t
  <2>2. view' \in {"none", "start", "end"} /\ misled' \in BOOLEAN
        /\ torn' \in BOOLEAN /\ doubled' \in BOOLEAN
    <3>1. CASE m.kind = "reset"
      BY <1>t, <3>1 DEF Flow, Stream!TypeOK, Stream!Receive, Stream!Reset, m
    <3>2. CASE m.kind # "reset"
      BY <1>1, <1>t, <3>2 DEF Flow, Stream!TypeOK, Stream!Receive,
         Stream!See, Stream!Message, Stream!Kinds, m
    <3> QED
      BY <3>1, <3>2
  <2>3. appended' \subseteq Stream!Seqs /\ missing' \subseteq Stream!Seqs
    <3>1. CASE m.kind = "reset"
      <4>1. /\ appended' = appended
            /\ missing' \subseteq missing \cup Stream!Logged
        BY <3>1 DEF Stream!Receive, Stream!Reset, m
      <4> QED
        BY <4>1, LoggedIs DEF Flow, Stream!TypeOK
    <3>2. CASE m.kind # "reset"
      <4>1. /\ appended' \in {appended, appended \cup {m.seq}}
            /\ missing' = missing
        BY <3>2 DEF Stream!Receive, Stream!See, m
      <4>2. m.seq \in Stream!Seqs
        BY <1>1, <1>t DEF Stream!Seqs
      <4> QED
        BY <4>1, <4>2 DEF Flow, Stream!TypeOK
    <3> QED
      BY <3>1, <3>2
  <2>4. Len(chan') <= ChanCap
    BY <1>2, <1>t
  <2> QED
    BY <1>0, <1>2, <2>1, <2>2, <2>3, <2>4 DEF Flow, Stream!TypeOK
<1>6. Numbered'
  <2>1. ASSUME NEW i \in 1..Len(chan') PROVE chan'[i].seq \in 1..N
    <3>1. chan'[i] = chan[i + 1] /\ i + 1 \in 1..Len(chan)
      BY <1>2, <1>t
    <3> QED
      BY <3>1 DEF Flow, Numbered
  <2>2. ASSUME NEW i \in 2..Len(chan')
        PROVE  /\ chan'[i].kind # "reset"
               /\ \/ chan'[i - 1].kind = "reset"
                  \/ chan'[i].seq = chan'[i - 1].seq + 1
               /\ chan'[i].seq <= chan'[i - 1].seq + 1
    <3>1. /\ chan'[i] = chan[i + 1] /\ chan'[i - 1] = chan[i]
          /\ i + 1 \in 2..Len(chan) /\ (i + 1) - 1 = i
      BY <1>2, <1>t
    <3>2. /\ chan[i + 1].kind # "reset"
          /\ \/ chan[(i + 1) - 1].kind = "reset"
             \/ chan[i + 1].seq = chan[(i + 1) - 1].seq + 1
          /\ chan[i + 1].seq <= chan[(i + 1) - 1].seq + 1
      BY <3>1 DEF Flow, Numbered
    <3> QED
      BY <3>1, <3>2
  <2>3. chan' # <<>> => IF expected' = 0 THEN chan'[1].seq <= lastId' + 1
                        ELSE expected' = chan'[1].seq
    <3> SUFFICES ASSUME chan' # <<>>
                 PROVE  IF expected' = 0 THEN chan'[1].seq <= lastId' + 1
                        ELSE expected' = chan'[1].seq
      OBVIOUS
    <3>1. 2 \in 2..Len(chan) /\ chan'[1] = chan[2] /\ 2 - 1 = 1
      BY <1>2, <1>t
    <3>2. /\ chan[2 - 1].kind = "reset" \/ chan[2].seq = chan[2 - 1].seq + 1
          /\ chan[2].seq <= chan[2 - 1].seq + 1
      BY <3>1 DEF Flow, Numbered
    <3> QED
      BY <1>0, <1>1, <1>3, <3>1, <3>2
  <2>4. open' => IF chan' = <<>>
                   THEN lastId' = N /\ expected' \in {0, N + 1}
                 ELSE chan'[Len(chan')].seq = N
    <3> SUFFICES ASSUME open
                 PROVE  IF chan' = <<>>
                          THEN lastId' = N /\ expected' \in {0, N + 1}
                        ELSE chan'[Len(chan')].seq = N
      BY <1>0
    <3>1. chan[Len(chan)].seq = N
      BY <1>0 DEF Flow, Numbered
    <3>2. CASE chan' = <<>>
      <4>1. Len(chan) = 1
        BY <1>2, <1>t, <3>2
      <4> QED
        BY <1>0, <1>1, <1>3, <3>1, <3>2, <4>1
    <3>3. CASE chan' # <<>>
      <4>1. Len(chan') \in 1..Len(chan') /\ Len(chan') + 1 = Len(chan)
        BY <1>2, <1>t, <3>3
      <4> QED
        BY <1>2, <3>1, <3>3, <4>1
    <3> QED
      BY <3>2, <3>3
  <2> QED
    BY <1>4, <2>1, <2>2, <2>3, <2>4 DEF Numbered
<1>7. Progress' /\ Asked'
  BY <1>0, <1>1, <1>3, <1>4, <1>t DEF Progress, Asked, Flow
<1> QED
  BY <1>3, <1>5, <1>6, <1>7 DEF Flow

\* The connection breaks or ends.
LEMMA LostFlow == Flow /\ (Stream!Disconnect \/ Stream!Dropped) => Flow'
<1> SUFFICES ASSUME Flow, Stream!Disconnect \/ Stream!Dropped PROVE Flow'
  OBVIOUS
<1> USE DEF Flow, Numbered, Progress, Asked, N, Stream!TypeOK, Stream!page,
        Stream!observer
<1>1. CASE Stream!Disconnect
  <2>1. /\ chan' \in Seq(Stream!Message)
        /\ Len(chan') <= ChanCap /\ Len(chan') = 0
    BY <1>1, StreamBounds DEF Stream!Disconnect
  <2>2. Stream!TypeOK'
    BY <1>1, <2>1 DEF Stream!Disconnect
  <2>3. /\ UNCHANGED <<published, lastId, poll, expected, torn, doubled>>
        /\ chan' = <<>> /\ open' = FALSE
    BY <1>1 DEF Stream!Disconnect
  <2> QED
    BY <2>1, <2>2, <2>3
<1>2. CASE Stream!Dropped
  BY <1>2 DEF Stream!Dropped
<1> QED
  BY <1>1, <1>2

\* A set of numbers has a least one.
LEMMA Least ==
    ASSUME NEW T \in SUBSET Nat, T # {}
    PROVE  \E n \in T : \A m \in T : n <= m
<1> DEFINE R == OpToRel(<, Nat)
<1>1. IsWellFoundedOn(R, Nat)
  BY NatLessThanWellFounded, Zenon
<1>2. \A m, n \in Nat : m < n => <<m, n>> \in R
  BY DEF OpToRel
<1> HIDE DEF R
<1>3. PICK n \in T : \A m \in T : ~(<<m, n>> \in R)
  BY <1>1, WFMin
<1>4. \A m \in T : ~(m < n)
  BY <1>2, <1>3
<1> QED
  BY <1>3, <1>4

\* The job that runs has a first event.
LEMMA FirstIs ==
    ASSUME Flow, Stream!Running
    PROVE  Stream!FirstOfRunning \in 1..N
<1>t. N \in Nat /\ Stream!seq = N
  BY DEF Flow, Stream!TypeOK, N, Stream!seq
<1> DEFINE T == {n \in 1..N : Stream!OneJob(n, N)}
<1>1. T \in SUBSET Nat /\ T # {}
  BY <1>t DEF Stream!Running
<1>2. PICK n \in T : \A m \in T : n <= m
  BY <1>1, Least
<1>3. n = 1 \/ published[n - 1] = "end"
  <2> SUFFICES ASSUME n # 1, published[n - 1] # "end" PROVE FALSE
    OBVIOUS
  <2>1. n - 1 \in 1..N /\ n \in 1..N
    BY <1>t
  <2>2. Stream!OneJob(n - 1, N)
    BY <1>t, <2>1 DEF Stream!OneJob
  <2> QED
    BY <1>2, <2>1, <2>2
<1> QED
  BY <1>2, <1>3, <1>t DEF Stream!FirstOfRunning

\* And there is a last one so far of each.
LEMMA LastIs ==
    ASSUME Flow, NEW from \in 1..N
    PROVE  Stream!LastSince(from) \in from..N
<1>t. N \in Nat /\ Stream!seq = N
  BY DEF Flow, Stream!TypeOK, N, Stream!seq
<1> DEFINE T == {n \in from..N : n = N \/ published[n] = "end"}
<1>1. T \in SUBSET Nat /\ N \in T
  BY <1>t
<1>2. PICK n \in T : \A m \in T : n <= m
  BY <1>1, Least
<1>3. Stream!OneJob(from, n - 1)
  <2> SUFFICES ASSUME NEW e \in from..(n - 1), published[e] = "end"
               PROVE  FALSE
    BY DEF Stream!OneJob
  <2>1. e \in T /\ e < n
    BY <1>t
  <2> QED
    BY <1>2, <2>1
<1> QED
  BY <1>2, <1>3, <1>t DEF Stream!LastSince

\* The page asks, is told, and shows it.
LEMMA RefreshFlow ==
    ASSUME Flow, NEW r \in Polls, Stream!Refreshing(r) \/ Stream!Fail(r)
    PROVE  Flow'
<1> USE StreamBounds
<1> DEFINE Poll == [step : Stream!Steps, from : 0..MaxSeq, upto : 0..MaxSeq]
<1>t. /\ N \in 0..MaxSeq /\ Stream!Idle \in Poll
      /\ poll \in [Polls -> Poll]
  BY DEF Flow, Stream!TypeOK, Stream!Idle, Stream!Steps, N
<1> DEFINE Sound(to) ==
      to \in Poll /\ (to.step = "listed" => to.from \in 1..N)
<1>1. Sound(Stream!Idle)
  BY <1>t DEF Stream!Idle
<1>2. ASSUME NEW to, Sound(to), NEW step, Stream!Goes(r, step, to)
      PROVE  /\ poll' \in [Polls -> Poll] /\ Asked'
             /\ UNCHANGED <<published, chan, open, connected, lastId>>
  <2>1. /\ poll' = [poll EXCEPT ![r] = to]
        /\ UNCHANGED <<published, chan, open, connected, lastId>>
    BY <1>2 DEF Stream!Goes
  <2> QED
    BY <1>2, <1>t, <2>1 DEF Flow, Asked, N
<1>3. /\ poll' \in [Polls -> Poll] /\ Asked'
      /\ UNCHANGED <<published, chan, open, connected, lastId>>
  <2>1. CASE Stream!Ask(r)
    <3>1. Sound([Stream!Idle EXCEPT !.step = "asking"])
      BY <1>t DEF Stream!Idle, Stream!Steps
    <3> QED
      BY <1>2, <2>1, <3>1 DEF Stream!Ask
  <2>2. CASE Stream!List(r)
    <3>1. CASE Stream!Running
      <4> DEFINE first == Stream!FirstOfRunning
                 to == [Stream!Idle EXCEPT !.step = "listed",
                                           !.from = first]
      <4>1. first \in 1..N
        BY <3>1, FirstIs
      <4>2. Stream!Goes(r, "asking", to)
        BY <2>2, <3>1 DEF Stream!List
      <4> HIDE DEF first
      <4>3. first \in 0..MaxSeq
        BY <1>t, <4>1
      <4>4. Sound(to)
        BY <1>t, <4>1, <4>3 DEF Stream!Idle, Stream!Steps
      <4> QED
        BY <1>2, <4>2, <4>4
    <3>2. CASE ~Stream!Running
      BY <1>1, <1>2, <2>2, <3>2 DEF Stream!List
    <3> QED
      BY <3>1, <3>2
  <2>3. CASE Stream!Tell(r)
    <3>1. poll[r] \in Poll /\ poll[r].from \in 1..N
      BY <1>t, <2>3 DEF Flow, Asked, Stream!Tell, Stream!Goes
    <3>2. Stream!LastSince(poll[r].from) \in 0..MaxSeq
      BY <1>t, <3>1, LastIs
    <3>3. Sound([poll[r] EXCEPT !.step = "told",
                                !.upto = Stream!LastSince(poll[r].from)])
      BY <3>1, <3>2 DEF Stream!Steps
    <3> QED
      BY <1>2, <2>3, <3>3 DEF Stream!Tell
  <2>4. CASE Stream!Show(r) \/ Stream!Fail(r)
    BY <1>1, <1>2, <2>4 DEF Stream!Show, Stream!Fail
  <2> QED
    BY <2>1, <2>2, <2>3, <2>4 DEF Stream!Refreshing
<1> HIDE DEF Poll, Sound
<1>4. /\ UNCHANGED <<expected, torn, doubled>>
      /\ view' \in {"none", "start", "end"} /\ misled' \in BOOLEAN
      /\ replied' \subseteq Stream!Seqs /\ appended' \subseteq Stream!Seqs
      /\ missing' \subseteq Stream!Seqs
  <2>1. CASE Stream!Show(r)
    <3>1. Stream!Logged \subseteq Stream!Seqs
      BY LoggedIs
    <3> QED
      BY <2>1, <3>1 DEF Flow, Stream!TypeOK, Stream!Show, Stream!Lines
  <2>2. CASE ~Stream!Show(r)
    BY <2>2 DEF Flow, Stream!TypeOK, Stream!Refreshing, Stream!Ask,
       Stream!List, Stream!Tell, Stream!Fail, Stream!Hidden, Stream!observer
  <2> QED
    BY <2>1, <2>2
<1>5. Stream!TypeOK'
  BY <1>3, <1>4 DEF Flow, Stream!TypeOK, Poll
<1>6. Numbered' /\ Progress'
  BY <1>3, <1>4 DEF Flow, Numbered, Progress, N
<1> QED
  BY <1>3, <1>4, <1>5, <1>6 DEF Flow

LEMMA Flows == PanelSpec => []Flow
<1>1. PanelInit => Flow
  BY FlowInit DEF PanelInit
<1>2. Flow /\ [PanelNext]_all => Flow'
  <2> SUFFICES ASSUME Flow, [PanelNext]_all PROVE Flow'
    OBVIOUS
  <2>1. ASSUME NEW kind \in {"start", "log", "end"}, Stream!Publish(kind)
        PROVE  Flow'
    BY <2>1, PublishFlow DEF Stream!Kinds
  <2>2. CASE Start
    BY <2>1, <2>2 DEF Start
  <2>3. ASSUME NEW j \in Jobs, Report(j) \/ PressCancel(j) \/ End(j)
        PROVE  Flow'
    BY <2>1, <2>3 DEF Report, PressCancel, End
  <2>4. CASE CloseWatchers
    <3>1. /\ open' = FALSE
          /\ UNCHANGED <<published, chan, connected, lastId, view, poll,
                         replied, appended, expected, misled, missing, torn,
                         doubled>>
      BY <2>4 DEF CloseWatchers
    <3> QED
      BY <3>1 DEF Flow, Numbered, Progress, Asked, N, Stream!TypeOK
  <2>5. CASE Quietly \/ UNCHANGED all
    <3>1. UNCHANGED stream
      BY <2>5 DEF Quietly, all
    <3> QED
      BY <3>1 DEF stream, Flow, Numbered, Progress, Asked, N, Stream!TypeOK
  <2>6. CASE Link
    BY <2>6, ConnectFlow, ReceiveFlow, LostFlow, RefreshFlow
       DEF Link, Connect, Receive, Disconnect, Dropped, Refresh, RefreshFails
  <2> QED
    BY <2>2, <2>3, <2>4, <2>5, <2>6 DEF PanelNext
<1> QED
  BY <1>1, <1>2, PTL DEF PanelSpec

\* Every variable of the runner, the stream and the page has its type; the
\* channel never holds more than it can.
THEOREM Typed == PanelSpec => []PanelTypeOK
<1>1. IInv /\ Flow => PanelTypeOK
  BY Consequences DEF Flow, PanelTypeOK
<1> QED
  BY <1>1, Bystander, Invariant, Flows, PTL

\* The stream brings the events one by one, but for those the ring no longer
\* holds, whatever the ring and the channel hold and however often the
\* connection breaks.
THEOREM InOrder == PanelSpec => []Seamless
<1>1. Flow => Seamless
  BY DEF Flow, Seamless, Stream!Seamless
<1> QED
  BY <1>1, Flows, PTL

----------------------------------------------------------------------------
(* The log on screen.                                                      *)

\* A message says what was published under its number.
Truthful ==
    \A i \in 1..Len(chan) :
        chan[i].kind = "reset" \/ chan[i].kind = published[chan[i].seq]

\* What the page has come past is on screen or known to be missing, and what
\* a reconnect has carried it past is missing.
Accounted ==
    \A n \in Stream!Logged :
        /\ n <= lastId => n \in replied \cup appended \cup missing
        /\ lastId < n /\ n < expected => n \in missing

Kept == Truthful /\ Accounted

LEMMA PublishKept ==
    ASSUME Flow, Kept, NEW kind \in Stream!Kinds, Stream!Publish(kind)
    PROVE  Kept'
<1> DEFINE e == [kind |-> kind, seq |-> N + 1]
<1>0. /\ published' = Append(published, kind)
      /\ \/ chan' = Append(chan, e)
         \/ chan' = chan
      /\ UNCHANGED <<lastId, replied, appended, expected, missing>>
  BY DEF Stream!Publish, Stream!seq, Stream!page, Stream!observer, N
<1>t. /\ published \in Seq(Stream!Kinds) /\ N \in Nat
      /\ chan \in Seq(Stream!Message)
      /\ \A i \in 1..Len(chan) : chan[i].seq \in 1..N
      /\ lastId \in 0..N /\ expected \in 0..(N + 1)
  BY DEF Flow, Stream!TypeOK, Numbered, Progress, N
<1>1. /\ N' = N + 1 /\ published'[N + 1] = kind
      /\ \A n \in 1..N : published'[n] = published[n]
  BY <1>0, <1>t DEF N
<1>2. Truthful'
  <2> SUFFICES ASSUME NEW i \in 1..Len(chan')
               PROVE  \/ chan'[i].kind = "reset"
                      \/ chan'[i].kind = published'[chan'[i].seq]
    BY DEF Truthful
  <2>1. CASE i \in 1..Len(chan)
    <3>1. chan'[i] = chan[i]
      BY <1>0, <1>t, <2>1
    <3> QED
      BY <1>1, <1>t, <2>1, <3>1 DEF Kept, Truthful
  <2>2. CASE i \notin 1..Len(chan)
    <3>1. chan'[i] = e
      BY <1>0, <1>t, <2>2
    <3> QED
      BY <1>1, <3>1
  <2> QED
    BY <2>1, <2>2
<1>3. Accounted'
  <2> SUFFICES ASSUME NEW n \in Stream!Logged'
               PROVE  /\ n <= lastId =>
                             n \in replied \cup appended \cup missing
                      /\ lastId < n /\ n < expected => n \in missing
    BY <1>0 DEF Accounted
  <2>1. CASE n \notin 1..N
    <3>1. n = N + 1
      BY <1>1, <1>t, <2>1 DEF Stream!Logged, Stream!seq, N
    <3> QED
      BY <1>t, <3>1
  <2>2. CASE n \in 1..N
    <3>1. n \in Stream!Logged
      BY <1>1, <2>2 DEF Stream!Logged, Stream!seq, N
    <3> QED
      BY <3>1 DEF Kept, Accounted
  <2> QED
    BY <2>1, <2>2
<1> QED
  BY <1>2, <1>3 DEF Kept

\* A watcher is handed what was published.
LEMMA ReplayTrue ==
    ASSUME Flow
    PROVE  LET r == Stream!Replay(lastId)
           IN  \A i \in 1..Len(r) :
                   r[i].kind = "reset" \/ r[i].kind = published[r[i].seq]
<1> USE StreamBounds
<1> DEFINE r == Stream!Replay(lastId)
           n == N + 1 - Stream!First(lastId)
           left == (n - 1) % ChanCap
<1>t. N \in 0..MaxSeq /\ lastId \in 0..N
  BY DEF Flow, Stream!TypeOK, Progress, N
<1>1. n \in 0..N
  BY <1>t DEF Stream!First, Stream!Oldest, Stream!seq, N
<1>2. \A i : LET m == Stream!Event(i) IN m.kind = published[m.seq]
  BY DEF Stream!Event
<1>3. CASE n <= ChanCap
  <2>1. r = [i \in 1..n |-> Stream!Event(N - n + i)]
    BY <1>3 DEF Stream!Replay, Stream!seq, N
  <2> HIDE DEF r, n
  <2> QED
    BY <1>1, <1>2, <2>1 DEF r
<1>4. CASE ~(n <= ChanCap)
  <2>1. r = [i \in 1..left + 1 |->
                IF i = 1 THEN [kind |-> "reset", seq |-> N]
                ELSE Stream!Event(N - left + i - 1)]
    BY <1>4 DEF Stream!Replay, Stream!seq, N
  <2>2. left \in Nat
    BY <1>1, <1>4
  <2> HIDE DEF r, left
  <2> QED
    BY <1>2, <2>1, <2>2 DEF r
<1> QED
  BY <1>3, <1>4

LEMMA ConnectKept == Flow /\ Kept /\ Stream!Connect => Kept'
<1> SUFFICES ASSUME Flow, Kept, Stream!Connect PROVE Kept'
  OBVIOUS
<1>0. /\ chan' = Stream!Replay(lastId)
      /\ expected' = IF lastId + 1 < Stream!Oldest THEN Stream!Oldest
                     ELSE lastId + 1
      /\ missing' = missing \cup {n \in Stream!Logged :
                                     lastId < n /\ n < Stream!Oldest}
      /\ UNCHANGED <<published, lastId, replied, appended>>
  BY DEF Stream!Connect, Stream!page
<1>1. Truthful'
  BY <1>0, ReplayTrue DEF Truthful
<1>2. Accounted'
  <2>1. /\ lastId \in Nat /\ N \in Nat /\ Stream!Oldest \in Nat
        /\ Stream!Logged \subseteq 1..N /\ Stream!Logged' = Stream!Logged
    BY <1>0, StreamBounds
       DEF Flow, Stream!TypeOK, Stream!Oldest, Stream!Logged, Stream!seq, N
  <2> SUFFICES ASSUME NEW n \in Stream!Logged
               PROVE  /\ n <= lastId =>
                             n \in replied \cup appended \cup missing'
                      /\ lastId < n /\ n < expected' => n \in missing'
    BY <1>0, <2>1 DEF Accounted
  <2>2. lastId < n /\ n < expected' => n < Stream!Oldest
    BY <1>0, <2>1
  <2> QED
    BY <1>0, <2>1, <2>2 DEF Kept, Accounted
<1> QED
  BY <1>1, <1>2 DEF Kept

LEMMA ReceiveKept == Flow /\ Kept /\ Stream!Receive => Kept'
<1> SUFFICES ASSUME Flow, Kept, Stream!Receive PROVE Kept'
  OBVIOUS
<1> DEFINE m == Head(chan)
<1>t. /\ N \in Nat /\ lastId \in Nat /\ expected \in Nat
      /\ chan \in Seq(Stream!Message) /\ Stream!Logged \subseteq 1..N
  BY DEF Flow, Stream!TypeOK, Stream!Logged, Stream!seq, N
<1>0. /\ chan # <<>> /\ chan' = Tail(chan) /\ lastId' = m.seq
      /\ UNCHANGED <<published, replied>> /\ Stream!Logged' = Stream!Logged
  BY DEF Stream!Receive, Stream!Logged, Stream!seq
<1>1. /\ m = chan[1] /\ m.seq \in 1..N
      /\ m.kind = "reset" \/ m.kind = published[m.seq]
  BY <1>0, <1>t DEF Flow, Numbered, Kept, Truthful
<1>2. Truthful'
  <2>1. /\ Len(chan') = Len(chan) - 1
        /\ \A i \in 1..Len(chan') : /\ chan'[i] = chan[i + 1]
                                    /\ i + 1 \in 1..Len(chan)
    BY <1>0, <1>t
  <2> QED
    BY <1>0, <2>1 DEF Kept, Truthful
<1>3. CASE m.kind = "reset"
  <2>1. /\ expected' = 0 /\ appended' = appended
        /\ missing' = missing \cup {n \in Stream!Logged :
                                       lastId < n /\ n <= m.seq}
    BY <1>3 DEF Stream!Receive, Stream!Reset
  <2> HIDE DEF m
  <2> SUFFICES ASSUME NEW n \in Stream!Logged, n <= m.seq
               PROVE  n \in replied \cup appended \cup missing'
    BY <1>0, <1>2, <1>t, <2>1 DEF Kept, Accounted
  <2> QED
    BY <1>t, <2>1 DEF Kept, Accounted
<1>4. CASE m.kind # "reset"
  <2>1. /\ expected' = m.seq + 1 /\ missing' = missing
        /\ appended' = IF m.kind = "log" THEN appended \cup {m.seq}
                       ELSE appended
    BY <1>4 DEF Stream!Receive, Stream!See
  <2>2. IF expected = 0 THEN m.seq <= lastId + 1 ELSE expected = m.seq
    BY <1>0, <1>1, <1>4 DEF Flow, Numbered
  <2> HIDE DEF m
  <2> SUFFICES ASSUME NEW n \in Stream!Logged, n <= m.seq
               PROVE  n \in replied \cup appended' \cup missing
    BY <1>0, <1>1, <1>2, <1>t, <2>1 DEF Kept, Accounted
  <2>3. CASE n = m.seq
    BY <1>1, <1>4, <2>1, <2>3 DEF Stream!Logged
  <2>4. CASE n # m.seq
    <3>1. n <= lastId \/ (lastId < n /\ n < expected)
      BY <1>1, <1>t, <2>2, <2>4
    <3> QED
      BY <2>1, <3>1 DEF Kept, Accounted
  <2> QED
    BY <2>3, <2>4
<1> QED
  BY <1>3, <1>4

\* A reply may take lines off the screen; they are missing then.
LEMMA RefreshKept ==
    ASSUME Flow, Kept, NEW r \in Polls, Stream!Refreshing(r) \/ Stream!Fail(r)
    PROVE  Kept'
<1>1. UNCHANGED <<published, chan, lastId, expected>>
  BY DEF Stream!Refreshing, Stream!Ask, Stream!List, Stream!Tell, Stream!Show,
         Stream!Fail, Stream!Goes, Stream!Hidden, Stream!observer
<1>2. Truthful' /\ Stream!Logged' = Stream!Logged
  BY <1>1 DEF Kept, Truthful, Stream!Logged, Stream!seq
<1>3. CASE Stream!Show(r)
  <2> DEFINE job == poll[r].from..poll[r].upto
  <2>1. /\ replied' = Stream!Logged \cap job
        /\ missing' = missing \cup {n \in Stream!Logged \ job : n <= lastId}
    BY <1>3 DEF Stream!Show, Stream!Lines
  <2> HIDE DEF job
  <2> SUFFICES ASSUME NEW n \in Stream!Logged
               PROVE  /\ n <= lastId => n \in replied' \cup missing'
                      /\ lastId < n /\ n < expected => n \in missing'
    BY <1>1, <1>2 DEF Kept, Accounted
  <2> QED
    BY <2>1 DEF Kept, Accounted
<1>4. CASE ~Stream!Show(r)
  <2>1. UNCHANGED <<replied, appended, missing>>
    BY <1>4 DEF Stream!Refreshing, Stream!Ask, Stream!List, Stream!Tell,
       Stream!Fail, Stream!Hidden, Stream!observer
  <2> QED
    BY <1>1, <1>2, <2>1 DEF Kept, Accounted
<1> QED
  BY <1>3, <1>4

LEMMA Keeps == PanelSpec => []Kept
<1>1. PanelInit => Kept
  BY DEF PanelInit, Stream!Init, Kept, Truthful, Accounted, Stream!Logged,
         Stream!seq
<1>2. Flow /\ Kept /\ [PanelNext]_all => Kept'
  <2> SUFFICES ASSUME Flow, Kept, [PanelNext]_all PROVE Kept'
    OBVIOUS
  <2>1. ASSUME NEW kind \in {"start", "log", "end"}, Stream!Publish(kind)
        PROVE  Kept'
    BY <2>1, PublishKept DEF Stream!Kinds
  <2>2. CASE Start
    BY <2>1, <2>2 DEF Start
  <2>3. ASSUME NEW j \in Jobs, Report(j) \/ PressCancel(j) \/ End(j)
        PROVE  Kept'
    BY <2>1, <2>3 DEF Report, PressCancel, End
  <2>4. CASE \/ CloseWatchers \/ Quietly \/ UNCHANGED all
             \/ Dropped
    <3>1. UNCHANGED <<published, chan, lastId, replied, appended, expected,
                      missing>>
      BY <2>4 DEF CloseWatchers, Quietly, stream, all, Dropped,
                  Stream!Dropped, Stream!page, Stream!observer
    <3> QED
      BY <3>1 DEF Kept, Truthful, Accounted, Stream!Logged, Stream!seq
  <2>5. CASE Disconnect
    <3>1. /\ UNCHANGED <<published, lastId, replied, appended, expected,
                         missing>>
          /\ chan' = <<>>
      BY <2>5 DEF Disconnect, Stream!Disconnect, Stream!page, Stream!observer
    <3> QED
      BY <3>1 DEF Kept, Truthful, Accounted, Stream!Logged, Stream!seq
  <2>6. CASE Connect \/ Receive
    BY <2>6, ConnectKept, ReceiveKept DEF Connect, Receive
  <2>7. ASSUME NEW r \in Polls, Refresh(r) \/ RefreshFails(r) PROVE Kept'
    BY <2>7, RefreshKept DEF Refresh, RefreshFails
  <2> QED
    BY <2>2, <2>3, <2>4, <2>5, <2>6, <2>7 DEF PanelNext, Link
<1> QED
  BY <1>1, <1>2, Flows, PTL DEF PanelSpec

\* Whatever the page has come past of the log is on screen, from the stream or
\* from a reply, or was taken by the ring, a reset or a reply (Plugin.js,
\* refresh and appendLog).
THEOREM LogOnScreen == PanelSpec => []LinesKept
<1>1. Flow /\ Kept => LinesKept
  BY DEF Kept, Accounted, LinesKept, Stream!LinesKept
<1> QED
  BY <1>1, Flows, Keeps, PTL
=============================================================================
