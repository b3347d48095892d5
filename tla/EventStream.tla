---------------------------- MODULE EventStream ----------------------------
(***************************************************************************)
(* The progress of jobs on its way to the tab: the event ring and the      *)
(* watchers of jobs.Runner, the handler that copies a watcher's channel to *)
(* a connection (web/events.go), and the page at the other end, whose      *)
(* EventSource reconnects with the last id it saw (assets/Plugin.js).      *)
(*                                                                         *)
(* An event's content is given by its sequence number: what was published  *)
(* as number n is entry n of `published'.  The page is one tab.  Besides    *)
(* listening it asks (refresh): whether a job runs, then for that job and  *)
(* its log, and shows what it is told whenever that comes, over whatever   *)
(* the stream has shown meanwhile.                                         *)
(***************************************************************************)
EXTENDS Integers, Sequences

CONSTANTS
    MaxSeq,     \* bound: events published in one behaviour
    EventBuffer,\* Options.EventBuffer: events kept for replay (1024)
    ChanCap,    \* the capacity of a watcher's channel (64)
    Polls       \* the calls of refresh() that may be under way

VARIABLES
    published,  \* every event so far: a job that runs ("start", again when
                \* it is cancelled or progresses), one that has ended ("end"),
                \* or a line of the log ("log")
    chan,       \* the watcher's channel, a queue of messages
    open,       \* the channel is open and the watcher still listed
    connected,  \* the page's request is being served
    lastId,     \* the last id the page saw; 0 before the first
    view,       \* the page's currentJob: "none", "start" (running) or "end"
    poll,       \* each refresh(): how far it is, and the first and the last
                \* event of the job it was told of
    replied, appended,  \* the lines on screen: of the last reply, and added
                        \* from the stream since
    \* What an observer remembers.
    expected,   \* the number the page should see next; 0 if any will do
    misled,     \* a reset went out, or a late reply has undone what the stream
                \* had shown, and no job event has reached the page since
    missing,    \* lines that the page was too late for, or that a reset or a
                \* late reply took from it
    torn,       \* the page saw a number it should not have seen yet
    doubled     \* the stream brought the page a number a second time

observer == <<expected, misled, missing, torn, doubled>>
page == <<lastId, view, poll, replied, appended>>
vars == <<published, chan, open, connected, page, observer>>

Seqs == 1..MaxSeq
Kinds == {"start", "log", "end"}
Message == [kind : Kinds \cup {"reset"}, seq : 0..MaxSeq]

Steps == {"idle", "asking", "listed", "told"}
Idle == [step |-> "idle", from |-> 0, upto |-> 0]

TypeOK ==
    /\ published \in Seq(Kinds) /\ Len(published) <= MaxSeq
    /\ chan \in Seq(Message) /\ Len(chan) <= ChanCap
    /\ open \in BOOLEAN
    /\ connected \in BOOLEAN
    /\ lastId \in 0..MaxSeq
    /\ view \in {"none", "start", "end"}
    /\ poll \in [Polls -> [step : Steps, from : 0..MaxSeq, upto : 0..MaxSeq]]
    /\ replied \subseteq Seqs /\ appended \subseteq Seqs
    /\ expected \in 0..(MaxSeq + 1)
    /\ misled \in BOOLEAN
    /\ missing \subseteq Seqs
    /\ torn \in BOOLEAN
    /\ doubled \in BOOLEAN

Init ==
    /\ published = <<>>
    /\ chan = <<>> /\ open = FALSE /\ connected = FALSE
    /\ lastId = 0 /\ view = "none"
    /\ poll = [r \in Polls |-> Idle] /\ replied = {} /\ appended = {}
    /\ expected = 0 /\ misled = FALSE /\ missing = {}
    /\ torn = FALSE /\ doubled = FALSE

----------------------------------------------------------------------------
(* The runner.                                                             *)

seq == Len(published)
Event(n) == [kind |-> published[n], seq |-> n]

Logged == {n \in 1..seq : published[n] = "log"}

\* No job has ended from the one number to the other.
OneJob(m, n) == \A e \in m..n : published[e] # "end"

\* The job in the slot has started and not ended.
Running == \E n \in 1..seq : published[n] = "start" /\ OneJob(n, seq)

\* A variant of Publish: what does not fit is dropped, not the watcher.
PublishLossy(kind) ==
    /\ seq < MaxSeq
    /\ kind # "start" => Running
    /\ published' = Append(published, kind)
    /\ chan' = IF open /\ Len(chan) < ChanCap
                 THEN Append(chan, [kind |-> kind, seq |-> seq + 1])
                 ELSE chan
    /\ UNCHANGED <<open, connected, page, observer>>

\* publishLocked: stamp, ring, fan out; a watcher that is full is dropped.
Publish(kind) ==
    /\ seq < MaxSeq
    /\ kind # "start" => Running
    /\ published' = Append(published, kind)
    /\ IF open /\ Len(chan) < ChanCap
         THEN chan' = Append(chan, [kind |-> kind, seq |-> seq + 1])
              /\ open' = open
         ELSE chan' = chan /\ open' = FALSE
    /\ UNCHANGED <<connected, page, observer>>

\* The oldest event in the ring.
Oldest == IF seq > EventBuffer THEN seq - EventBuffer + 1 ELSE 1

\* Variants of First: the last seen event once more; one is skipped.
FirstAgain(since) == IF since < Oldest THEN Oldest ELSE since
FirstSkipping(since) == IF since < Oldest THEN Oldest ELSE since + 2

\* eventsAfterLocked: the first event after since that the ring still holds.
First(since) == IF since < Oldest THEN Oldest ELSE since + 1

\* Subscribe's loop over the backlog: an event that finds the channel full
\* empties it and is replaced by a reset that carries the newest number, and
\* the loop goes on.  So a backlog that is too long is cut into lengths of the
\* channel, each begun by the event that did not fit, and only the last is
\* there when the loop ends.
Replay(since) ==
    LET n == seq + 1 - First(since)
        left == (n - 1) % ChanCap
    IN  IF n <= ChanCap THEN [i \in 1..n |-> Event(seq - n + i)]
        ELSE [i \in 1..left + 1 |->
                 IF i = 1 THEN [kind |-> "reset", seq |-> seq]
                 ELSE Event(seq - left + i - 1)]

----------------------------------------------------------------------------
(* The connection.                                                         *)

\* Subscribe.  A page that was away for longer than the ring reaches gets what
\* is left of it; nothing tells it that the oldest of it is not the next.
Connect ==
    /\ ~connected
    /\ connected' = TRUE
    /\ open' = TRUE
    /\ chan' = Replay(lastId)
    /\ expected' = IF lastId + 1 < Oldest THEN Oldest ELSE lastId + 1
    /\ missing' = missing \cup {n \in Logged : lastId < n /\ n < Oldest}
    /\ misled' = (misled \/ \E i \in 1..Len(chan') : chan'[i].kind = "reset")
    /\ UNCHANGED <<published, page, torn, doubled>>

\* A reset reaches the page, which has no handler for it; but the browser
\* remembers its number.
Reset ==
    /\ expected' = 0
    /\ missing' = missing \cup {n \in Logged : lastId < n
                                               /\ n <= Head(chan).seq}
    /\ UNCHANGED <<view, appended, misled, torn, doubled>>

\* An event does: the state of the job, or a line to append.
See(kind, n) ==
    /\ expected' = n + 1
    /\ torn' = (torn \/ (expected # 0 /\ n > expected))
    /\ doubled' = (doubled \/ n < expected)
    /\ IF kind = "log"
         THEN appended' = appended \cup {n} /\ UNCHANGED <<view, misled>>
         ELSE view' = kind /\ misled' = FALSE /\ UNCHANGED appended
    /\ UNCHANGED missing

\* One message reaches the page.
Receive ==
    /\ connected /\ chan # <<>>
    /\ chan' = Tail(chan)
    /\ lastId' = Head(chan).seq
    /\ IF Head(chan).kind = "reset" THEN Reset
       ELSE See(Head(chan).kind, Head(chan).seq)
    /\ UNCHANGED <<published, open, connected, poll, replied>>

\* The connection breaks; what was under way is lost.
Disconnect ==
    /\ connected
    /\ connected' = FALSE /\ open' = FALSE /\ chan' = <<>>
    /\ UNCHANGED <<published, page, observer>>

\* The runner dropped the watcher: the handler drains the channel and ends.
Dropped ==
    /\ connected /\ ~open /\ chan = <<>>
    /\ connected' = FALSE
    /\ UNCHANGED <<published, chan, open, page, observer>>

----------------------------------------------------------------------------
(* refresh(): from a timer, after a save, and when a job has ended.        *)

Goes(r, step, to) ==
    /\ poll[r].step = step
    /\ poll' = [poll EXCEPT ![r] = to]
    /\ UNCHANGED <<published, chan, open, connected, lastId>>

Hidden == UNCHANGED <<view, replied, appended, observer>>

\* The page asks for the jobs, unless it believes that it is showing one that
\* runs ...
Ask(r) ==
    /\ view # "start"
    /\ Goes(r, "idle", [Idle EXCEPT !.step = "asking"])
    /\ Hidden

FirstOfRunning ==
    CHOOSE n \in 1..seq : /\ OneJob(n, seq)
                          /\ n = 1 \/ published[n - 1] = "end"

\* ... for the one that runs, if there is one ...
List(r) ==
    /\ Goes(r, "asking", IF Running THEN [Idle EXCEPT !.step = "listed",
                                                      !.from = FirstOfRunning]
                         ELSE Idle)
    /\ Hidden

\* The last event there is of the job that began with this one.
LastSince(from) ==
    CHOOSE n \in from..seq : /\ OneJob(from, n - 1)
                             /\ n = seq \/ published[n] = "end"

\* ... and is told how that is by now, or that it is forgotten ...
Tell(r) ==
    /\ Goes(r, "listed", [poll[r] EXCEPT !.step = "told",
                                         !.upto = LastSince(poll[r].from)])
    /\ Hidden

\* A variant of Lines: all but the last event's.
LinesButLast(from, upto) == Logged \cap (from..(upto - 1))

\* The log of a job.
Lines(from, upto) == Logged \cap (from..upto)

\* ... and shows that when it comes, whatever it shows by then.
Show(r) ==
    LET from == poll[r].from
        upto == poll[r].upto
    IN  /\ Goes(r, "told", Idle)
        /\ view' = IF published[upto] = "end" THEN "end" ELSE "start"
        /\ replied' = Lines(from, upto) /\ appended' = {}
        /\ missing' = missing \cup {n \in Logged \ (from..upto) : n <= lastId}
        /\ misled' = (misled \/ upto < lastId)
        /\ UNCHANGED <<expected, torn, doubled>>

Fail(r) == Goes(r, "told", Idle) /\ Hidden

----------------------------------------------------------------------------

Refreshing(r) == Ask(r) \/ List(r) \/ Tell(r) \/ Show(r)

Next ==
    \/ \E kind \in Kinds : Publish(kind)
    \/ Connect \/ Receive \/ Disconnect \/ Dropped
    \/ \E r \in Polls : Refreshing(r) \/ Fail(r)

Spec == Init /\ [][Next]_vars

----------------------------------------------------------------------------
(* What is checked.                                                        *)

\* What the stream brings is contiguous as far as the ring reaches back: a
\* slow watcher and a broken connection tear nothing, an overlong backlog is
\* announced by a reset (jobs.go:336), nothing comes twice, and nothing that
\* the ring still holds when the page comes back is left out.  What the ring
\* no longer holds is gone without a word.
Seamless == ~torn /\ ~doubled

\* A line of the job that runs, of those that the page has come past, is on
\* screen, from the stream or from a reply (perhaps from both, and then it is
\* there twice), unless it was overwritten in the ring while the page was away,
\* went with a reset, or was taken off by a reply that came late or was about
\* the job before.
LinesKept ==
    \A n \in Logged :
        n <= lastId /\ OneJob(n, seq) =>
            n \in replied \cup appended \cup missing
=============================================================================
