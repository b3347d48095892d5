----------------------------- MODULE AmpSession -----------------------------
(***************************************************************************)
(* amp.Client shared by the daemon's goroutines (the overview's polls, the *)
(* quiescer, a watchdog): one session for all, a login when there is none, *)
(* and one more try when AMP says "Unauthorized Access", which it says of  *)
(* a session it has forgotten and of a method the account may not call.    *)
(* A borrowed client (stop and start, the sign-in) has a session of its    *)
(* own and no credentials.  Every post may be lost, or answered too late.  *)
(*                                                                         *)
(* AMP's side is what amp/fake says of it.                                 *)
(***************************************************************************)
EXTENDS Naturals, FiniteSets

CONSTANTS
    Calls,
    Borrowed,   \* calls on a client that only has somebody's panel session
    Forbidden,  \* calls of a method that the account may not call
    MaxSessions \* bound: how many sessions AMP hands out

CallsAssumption ==
    /\ Borrowed \subseteq Calls /\ Forbidden \subseteq Calls
    /\ MaxSessions \in Nat

NoSession == 0
Panel == MaxSessions + 1        \* the panel session of who is signed in
Sessions == 1..MaxSessions

VARIABLES
    \* AMP.
    logins,     \* how many sessions were handed out
    valid,      \* those it still knows
    wire,       \* a call's request: "none", "sent", or AMP's answer to it
    carried,    \* how often it was carried out
    \* The daemon.
    session,    \* sessionState.session
    pc,         \* where each call is
    mine,       \* Call's local `session', or what its login was given
    retried,    \* it is past the first try
    result,
    \* What an observer remembers.
    dropped,    \* the session that was cleared last
    spoilt,     \* valid sessions that were cleared over a forbidden method
    blamed      \* the sessions a call failed by

ampVars == <<logins, valid, wire, carried>>
vars == <<ampVars, session, pc, mine, retried, result, dropped, spoilt,
          blamed>>

PCs == {"read", "login", "store", "reread", "post", "posted", "clear", "done"}

TypeOK ==
    /\ logins \in 0..MaxSessions
    /\ valid \subseteq (1..logins) \cup {Panel}
    /\ wire \in [Calls -> {"none", "sent", "ok", "unauthorized"}]
    /\ carried \in [Calls -> Nat]
    /\ session \in 0..logins
    /\ pc \in [Calls -> PCs]
    /\ mine \in [Calls -> 0..Panel]
    /\ retried \in [Calls -> BOOLEAN]
    /\ result \in [Calls -> {"none", "ok", "refused", "failed"}]
    /\ dropped \in 0..logins
    /\ spoilt \subseteq 1..logins
    /\ blamed \in [Calls -> SUBSET (0..Panel)]

Init ==
    /\ logins = 0 /\ valid = {Panel}
    /\ wire = [c \in Calls |-> "none"]
    /\ carried = [c \in Calls |-> 0]
    /\ session = NoSession
    /\ pc = [c \in Calls |-> IF c \in Borrowed THEN "post" ELSE "read"]
    /\ mine = [c \in Calls |-> IF c \in Borrowed THEN Panel ELSE NoSession]
    /\ retried = [c \in Calls |-> FALSE]
    /\ result = [c \in Calls |-> "none"]
    /\ dropped = NoSession /\ spoilt = {}
    /\ blamed = [c \in Calls |-> {}]

----------------------------------------------------------------------------

Goto(c, next) == pc' = [pc EXCEPT ![c] = next]

Return(c, r) == Goto(c, "done") /\ result' = [result EXCEPT ![c] = r]

\* sessionOrLogin: what the state holds, else a login.
Read(c) ==
    /\ pc[c] = "read"
    /\ mine' = [mine EXCEPT ![c] = session]
    /\ Goto(c, IF session = NoSession THEN "login" ELSE "post")
    /\ UNCHANGED <<ampVars, session, retried, result, dropped, spoilt, blamed>>

\* Login, as far as AMP's answer; it may get lost, and so may the request.  AMP
\* says no to a login in its answer, "rather than by HTTP status"
\* (client.go:152); a status of 401 or 403, of which the caller is told as
\* ErrUnauthorized, is "failed" here like any login that comes to nothing.
Login(c) ==
    /\ pc[c] = "login"
    /\ \/ /\ logins < MaxSessions
          /\ logins' = logins + 1
          /\ valid' = valid \cup {logins'}
          /\ \/ /\ mine' = [mine EXCEPT ![c] = logins']
                /\ Goto(c, "store")
                /\ UNCHANGED result
             \/ Return(c, "failed") /\ UNCHANGED mine
       \/ Return(c, "failed") /\ UNCHANGED <<logins, valid, mine>>
    /\ UNCHANGED <<wire, carried, session, retried, dropped, spoilt, blamed>>

Store(c) ==
    /\ pc[c] = "store"
    /\ session' = mine[c]
    /\ Goto(c, "reread")
    /\ UNCHANGED <<ampVars, mine, retried, result, dropped, spoilt, blamed>>

\* By now it may be another's login, or nothing at all.
Reread(c) ==
    /\ pc[c] = "reread"
    /\ mine' = [mine EXCEPT ![c] = session]
    /\ Goto(c, "post")
    /\ UNCHANGED <<ampVars, session, retried, result, dropped, spoilt, blamed>>

Post(c) ==
    /\ pc[c] = "post"
    /\ wire' = [wire EXCEPT ![c] = "sent"]
    /\ Goto(c, "posted")
    /\ blamed' = [blamed EXCEPT ![c] =
            @ \cup {IF mine[c] = NoSession THEN dropped ELSE mine[c]}]
    /\ UNCHANGED <<logins, valid, carried, session, mine, retried, result,
                   dropped, spoilt>>

\* A variant of Receive: any error is worth another try.
ReceiveStubbornly(c) ==
    /\ pc[c] = "posted"
    /\ \/ wire[c] = "ok" /\ Return(c, "ok")
       \/ /\ retried[c] \/ c \in Borrowed
          /\ Return(c, "failed")
       \/ /\ ~retried[c] /\ c \notin Borrowed
          /\ Goto(c, "clear") /\ UNCHANGED result
    /\ UNCHANGED <<ampVars, session, mine, retried, dropped, spoilt, blamed>>

\* post returns: an answer, or an error that says nothing of what AMP did.
Receive(c) ==
    /\ pc[c] = "posted"
    /\ \/ wire[c] = "ok" /\ Return(c, "ok")
       \/ /\ wire[c] = "unauthorized"
          /\ IF retried[c] \/ c \in Borrowed
               THEN Return(c, "refused")
               ELSE Goto(c, "clear") /\ UNCHANGED result
       \/ Return(c, "failed")
    /\ UNCHANGED <<ampVars, session, mine, retried, dropped, spoilt, blamed>>

\* A variant of Clear: whatever the state holds by now is dropped.
ClearAnyway(c) ==
    /\ pc[c] = "clear"
    /\ session' = NoSession
    /\ dropped' = IF session = NoSession THEN dropped ELSE session
    /\ spoilt' = IF c \in Forbidden THEN spoilt \cup ({mine[c]} \cap valid)
                 ELSE spoilt
    /\ retried' = [retried EXCEPT ![c] = TRUE]
    /\ Goto(c, "read")
    /\ UNCHANGED <<ampVars, mine, result, blamed>>

\* Only the session that was refused is dropped, and only if it is still the
\* one in use.
Clear(c) ==
    /\ pc[c] = "clear"
    /\ IF session = mine[c]
         THEN /\ session' = NoSession
              /\ dropped' = IF session = NoSession THEN dropped ELSE session
              /\ spoilt' = IF c \in Forbidden
                             THEN spoilt \cup ({session} \cap valid)
                             ELSE spoilt
         ELSE UNCHANGED <<session, dropped, spoilt>>
    /\ retried' = [retried EXCEPT ![c] = TRUE]
    /\ Goto(c, "read")
    /\ UNCHANGED <<ampVars, mine, result, blamed>>

----------------------------------------------------------------------------
(* AMP.                                                                    *)

\* A request arrives, perhaps long after its caller has given up.
Handle(c) ==
    /\ wire[c] = "sent"
    /\ IF mine[c] \in valid /\ c \notin Forbidden
         THEN /\ wire' = [wire EXCEPT ![c] = "ok"]
              /\ carried' = [carried EXCEPT ![c] = @ + 1]
         ELSE /\ wire' = [wire EXCEPT ![c] = "unauthorized"]
              /\ UNCHANGED carried
    /\ UNCHANGED <<logins, valid, session, pc, mine, retried, result, dropped,
                   spoilt, blamed>>

\* AMP restarts, or a session has been unused for too long.
Expire(s) ==
    /\ s \in valid
    /\ valid' = valid \ {s}
    /\ UNCHANGED <<logins, wire, carried, session, pc, mine, retried, result,
                   dropped, spoilt, blamed>>

Step(c) ==
    \/ Read(c) \/ Login(c) \/ Store(c) \/ Reread(c) \/ Post(c) \/ Receive(c)
    \/ Clear(c) \/ Handle(c)

Next == (\E c \in Calls : Step(c)) \/ (\E s \in valid : Expire(s))

Spec == Init /\ [][Next]_vars

----------------------------------------------------------------------------

Contract == INSTANCE AmpCall

\* The client keeps AmpCall, although it tries twice: nothing it sends twice
\* was carried out the first time.
CallKept == Contract!Spec

\* "Callers do not normally see it" (client.go:32): a permitted call on the
\* daemon's own client is refused only if two sessions were lost under it,
\* one after the other, because AMP forgot them or because a call that was
\* not permitted made the client throw them away.
Unseen ==
    \A c \in Calls \ (Borrowed \cup Forbidden) : result[c] = "refused" =>
        /\ Cardinality(blamed[c]) = 2
        /\ \A s \in blamed[c] : s \in Sessions /\ s \notin valid \ spoilt
=============================================================================
