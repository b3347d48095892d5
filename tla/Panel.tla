------------------------------- MODULE Panel -------------------------------
(***************************************************************************)
(* jobs.Runner as a whole and the page that watches it: JobRunner's slot,  *)
(* history and shutdown composed with EventStream's ring, watchers and     *)
(* connection.  What the runner publishes it publishes under the mutex, in *)
(* the step that changes the job.                                          *)
(***************************************************************************)
EXTENDS JobRunner

CONSTANTS MaxSeq, EventBuffer, ChanCap, Polls  \* as in EventStream

ASSUME MaxSeqAssumption == MaxSeq \in Nat
ASSUME EventBufferAssumption == EventBuffer \in Nat \ {0}
ASSUME ChanCapAssumption == ChanCap \in Nat \ {0}

VARIABLES published, chan, open, connected, lastId, view, poll, replied,
          appended, expected, misled, missing, torn, doubled

Stream == INSTANCE EventStream

stream == <<published, chan, open, connected, lastId, view, poll, replied,
            appended, expected, misled, missing, torn, doubled>>
all == <<vars, stream>>

PanelTypeOK == TypeOK /\ Stream!TypeOK

PanelInit == Init /\ Stream!Init

\* Bounds: the end of the job in the slot can always be published.
Room == Len(published) + 2 <= MaxSeq

Start == Submit /\ Room /\ Stream!Publish("start")
\* A job reports its progress, or logs a line.
Report(j) ==
    /\ body[j] = "working" /\ Room
    /\ Stream!Publish("log") \/ Stream!Publish("start")
    /\ UNCHANGED vars
PressCancel(j) == Cancel(j) /\ Room /\ Stream!Publish("start")
End(j) == File(j) /\ Stream!Publish("end")

\* Shutdown closes the watchers when the goroutines are gone.
CloseWatchers ==
    /\ EndShutdown
    /\ open' = FALSE
    /\ UNCHANGED <<published, chan, connected, lastId, view, poll, replied,
                   appended, expected, misled, missing, torn, doubled>>

Quietly ==
    /\ \/ \E j \in Jobs : BodyReturns(j) \/ WgDone(j)
       \/ BeginShutdown \/ GiveUp
    /\ UNCHANGED stream

\* A request for events that comes when the shutdown has begun is over at once:
\* its context is the daemon's.  The others are served until Shutdown is over.
Connect == ~closed /\ Stream!Connect /\ UNCHANGED vars
Receive == Stream!Receive /\ UNCHANGED vars
Dropped == Stream!Dropped /\ UNCHANGED vars
Disconnect == Stream!Disconnect /\ UNCHANGED vars
Refresh(r) ==
    /\ shutdown \in {"no", "waiting"}
    /\ Stream!Refreshing(r) /\ UNCHANGED vars
Show(r) == Refresh(r) /\ Stream!Show(r)
HangUp == closed /\ Disconnect
RefreshFails(r) == Stream!Fail(r) /\ UNCHANGED vars

Link ==
    \/ Connect \/ Receive \/ Disconnect \/ Dropped
    \/ \E r \in Polls : Refresh(r) \/ RefreshFails(r)

PanelNext ==
    \/ Start \/ CloseWatchers \/ Quietly \/ Link
    \/ \E j \in Jobs : Report(j) \/ PressCancel(j) \/ End(j)

\* A body watches its context (every long loop checks it), so a cancelled
\* one returns, and the goroutine that ran it is scheduled.  EventSource
\* reconnects by itself, the handler and the browser deliver what is there,
\* and the page polls; not all of its requests fail.
PanelFairness ==
    /\ WF_all(\E j \in Jobs : ctxDone[j] /\ BodyReturns(j) /\ UNCHANGED stream)
    /\ WF_all(\E j \in Jobs : End(j))
    /\ WF_all(\E j \in Jobs : WgDone(j) /\ UNCHANGED stream)
    /\ WF_all(Connect) /\ SF_all(Receive) /\ WF_all(Dropped) /\ WF_all(HangUp)
    /\ \A r \in Polls : WF_all(Refresh(r)) /\ SF_all(Show(r))

PanelSpec == PanelInit /\ [][PanelNext]_all /\ PanelFairness

----------------------------------------------------------------------------
(* What is checked, besides CancelHonoured, Findable, QuietAfterShutdown.  *)

\* What the stream brings a page is contiguous as far as the ring reaches back,
\* and nothing comes twice (EventStream).
Seamless == Stream!Seamless

\* The lines of the job that runs are on screen, but for those that a reset, a
\* late reply or the ring took away (EventStream).
LinesKept == Stream!LinesKept

\* Once the connection is good, a job in the slot comes to be shown as running,
\* and no other stays on screen as running: unless the page was misled, by a
\* reset, which takes events with it and which it does not handle, or by a
\* reply that came after the news of the job's end.  Then it shows a job that
\* has ended until the next one sends an event.
PageCatchesUp ==
    (<>[]connected) =>
        <>[](/\ current # 0 => view = "start"
             /\ view = "start" => current # 0 \/ misled)

\* Whoever presses the button sees the job end, and the slot become free.
CancelUnwinds ==
    <>[](\A j \in accepted : state[j] = "cancelled" /\ current # j)

\* A shutdown comes to an end: the goroutines go, in time or not.
ShutdownReturns ==
    <>[](closed => \A j \in Jobs : body[j] \in {"none", "gone"})
=============================================================================
