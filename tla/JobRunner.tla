----------------------------- MODULE JobRunner -----------------------------
(***************************************************************************)
(* jobs.Runner: the daemon's one job slot, its history, cancelling and     *)
(* shutting down.  A job's body is a goroutine of its own: it returns or   *)
(* panics whenever it likes, and what it returned is filed a moment later, *)
(* under the mutex.  A cancel or the shutdown may come at any time between *)
(* these steps.  Every step that the code runs under the mutex is one      *)
(* action.                                                                 *)
(***************************************************************************)
EXTENDS Naturals, Sequences, Functions

CONSTANTS
    MaxJobs,    \* bound: how many jobs are ever submitted
    History     \* Options.History: finished jobs that are remembered

ASSUME MaxJobsAssumption == MaxJobs \in Nat
ASSUME HistoryAssumption == History \in Nat \ {0}

Jobs == 1..MaxJobs

VARIABLES
    counter,    \* r.counter: the last id given out
    current,    \* r.current: the id of the job in the slot; 0 for nil
    state,      \* job.State, "none" before the job exists
    cancelling, \* job.Cancelling
    ctxDone,    \* the job's context is cancelled
    body,       \* its goroutine: what fn did, and how far run() got
    history,    \* r.history, oldest first
    byID,       \* the keys of r.byID
    closed,     \* r.closed
    shutdown,   \* where Shutdown is: "no", "waiting", "done" or "gaveUp"
    accepted    \* ghost: the jobs for which Cancel returned nil

vars == <<counter, current, state, cancelling, ctxDone, body, history, byID,
          closed, shutdown, accepted>>

TypeOK ==
    /\ counter \in 0..MaxJobs
    /\ current \in 0..MaxJobs
    /\ state \in [Jobs -> {"none", "running", "succeeded", "failed",
                           "cancelled"}]
    /\ cancelling \in [Jobs -> BOOLEAN]
    /\ ctxDone \in [Jobs -> BOOLEAN]
    /\ body \in [Jobs -> {"none", "working", "returned", "erred", "filed",
                          "gone"}]
    /\ history \in Seq(Jobs) /\ Len(history) <= History
    /\ byID \subseteq Jobs
    /\ closed \in BOOLEAN
    /\ shutdown \in {"no", "waiting", "done", "gaveUp"}
    /\ accepted \subseteq Jobs

Init ==
    /\ counter = 0
    /\ current = 0
    /\ state = [j \in Jobs |-> "none"]
    /\ cancelling = [j \in Jobs |-> FALSE]
    /\ ctxDone = [j \in Jobs |-> FALSE]
    /\ body = [j \in Jobs |-> "none"]
    /\ history = <<>>
    /\ byID = {}
    /\ closed = FALSE
    /\ shutdown = "no"
    /\ accepted = {}

----------------------------------------------------------------------------

\* A variant of Submit: a runner that is shutting down still takes jobs.
SubmitWhileClosed ==
    /\ current = 0
    /\ counter < MaxJobs
    /\ counter' = counter + 1
    /\ current' = counter'
    /\ state' = [state EXCEPT ![counter'] = "running"]
    /\ body' = [body EXCEPT ![counter'] = "working"]
    /\ byID' = byID \cup {counter'}
    /\ UNCHANGED <<cancelling, ctxDone, history, closed, shutdown, accepted>>

\* A busy slot answers ErrBusy and a closed runner an error of its own; both
\* change nothing.
Submit ==
    /\ ~closed
    /\ current = 0
    /\ counter < MaxJobs
    /\ counter' = counter + 1
    /\ current' = counter'
    /\ state' = [state EXCEPT ![counter'] = "running"]
    /\ body' = [body EXCEPT ![counter'] = "working"]
    /\ byID' = byID \cup {counter'}
    /\ UNCHANGED <<cancelling, ctxDone, history, closed, shutdown, accepted>>

\* fn returns, with or without an error; a recovered panic is an error.
BodyReturns(j) ==
    /\ body[j] = "working"
    /\ \E outcome \in {"returned", "erred"} :
          body' = [body EXCEPT ![j] = outcome]
    /\ UNCHANGED <<counter, current, state, cancelling, ctxDone, history, byID,
                   closed, shutdown, accepted>>

\* A variant of Outcome: an error decides before the cancel does.
OutcomeByError(j) ==
    CASE body[j] = "erred" -> "failed"
      [] body[j] # "erred" /\ ctxDone[j] -> "cancelled"
      [] OTHER -> "succeeded"

\* A cancelled context wins, over an error as well as over a result.
Outcome(j) ==
    CASE ctxDone[j] -> "cancelled"
      [] ~ctxDone[j] /\ body[j] = "erred" -> "failed"
      [] OTHER -> "succeeded"

\* A variant of Remembered: cut from the wrong end.
RememberFirst(s) == SubSeq(s, 1, IF Len(s) < History THEN Len(s) ELSE History)

\* forgetOldLocked
Remembered(s) ==
    SubSeq(s, IF Len(s) > History THEN Len(s) - History + 1 ELSE 1, Len(s))

\* run, once fn is back: the outcome is decided and filed, the slot freed.
File(j) ==
    /\ body[j] \in {"returned", "erred"}
    /\ state' = [state EXCEPT ![j] = Outcome(j)]
    /\ cancelling' = [cancelling EXCEPT ![j] = FALSE]
    /\ ctxDone' = [ctxDone EXCEPT ![j] = TRUE]
    /\ current' = 0
    /\ history' = Remembered(Append(history, j))
    /\ byID' = byID \ (Range(Append(history, j)) \ Range(history'))
    /\ body' = [body EXCEPT ![j] = "filed"]
    /\ UNCHANGED <<counter, closed, shutdown, accepted>>

\* The deferred wg.Done, after the mutex.
WgDone(j) ==
    /\ body[j] = "filed"
    /\ body' = [body EXCEPT ![j] = "gone"]
    /\ UNCHANGED <<counter, current, state, cancelling, ctxDone, history, byID,
                   closed, shutdown, accepted>>

\* A variant of Cancel: it only sets the flag.
CancelFlagOnly(j) ==
    /\ current = j
    /\ cancelling' = [cancelling EXCEPT ![j] = TRUE]
    /\ accepted' = accepted \cup {j}
    /\ UNCHANGED <<counter, current, state, ctxDone, body, history, byID,
                   closed, shutdown>>

\* Anything but the job in the slot is answered with an error.
Cancel(j) ==
    /\ current = j
    /\ cancelling' = [cancelling EXCEPT ![j] = TRUE]
    /\ ctxDone' = [ctxDone EXCEPT ![j] = TRUE]
    /\ accepted' = accepted \cup {j}
    /\ UNCHANGED <<counter, current, state, body, history, byID, closed,
                   shutdown>>

\* A variant of BeginShutdown: the running job is left alone.
BeginShutdownPolitely ==
    /\ shutdown = "no"
    /\ closed' = TRUE
    /\ shutdown' = "waiting"
    /\ UNCHANGED <<counter, current, state, cancelling, ctxDone, body, history,
                   byID, accepted>>

\* Shutdown closes the runner and cancels the job in the slot ...
BeginShutdown ==
    /\ shutdown = "no"
    /\ closed' = TRUE
    /\ shutdown' = "waiting"
    /\ cancelling' = [j \in Jobs |-> cancelling[j] \/ j = current]
    /\ ctxDone' = [j \in Jobs |-> ctxDone[j] \/ j = current]
    /\ UNCHANGED <<counter, current, state, body, history, byID, accepted>>

\* ... waits for the goroutines (wg.Wait) ...
EndShutdown ==
    /\ shutdown = "waiting"
    /\ \A j \in Jobs : body[j] \in {"none", "gone"}
    /\ shutdown' = "done"
    /\ UNCHANGED <<counter, current, state, cancelling, ctxDone, body, history,
                   byID, closed, accepted>>

\* ... or runs out of its 30 seconds.
GiveUp ==
    /\ shutdown = "waiting"
    /\ shutdown' = "gaveUp"
    /\ UNCHANGED <<counter, current, state, cancelling, ctxDone, body, history,
                   byID, closed, accepted>>

----------------------------------------------------------------------------

Next ==
    \/ Submit
    \/ \E j \in Jobs : BodyReturns(j) \/ File(j) \/ WgDone(j) \/ Cancel(j)
    \/ BeginShutdown \/ EndShutdown \/ GiveUp

Spec == Init /\ [][Next]_vars

----------------------------------------------------------------------------
(* What is checked.                                                        *)

\* Cancel that was answered with nil ends in "cancelled", whatever the body
\* made of it and however late it came.
CancelHonoured ==
    \A j \in accepted : state[j] \in {"running", "cancelled"}

\* Every job that is running or among the last ones can be fetched, and no
\* other: byID and the history agree (the tab asks for jobs it has listed).
Findable ==
    /\ byID = Range(history) \cup ({current} \ {0})
    /\ \A j \in Jobs :
          (body[j] \in {"filed", "gone"} /\ counter - j < History)
              => j \in byID

\* Once Shutdown has returned nil nothing runs any more: the process may exit
\* without leaving a hold or a half-written file behind.
QuietAfterShutdown ==
    shutdown = "done" => \A j \in Jobs : body[j] \in {"none", "gone"}
=============================================================================
