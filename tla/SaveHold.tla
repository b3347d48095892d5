------------------------------ MODULE SaveHold ------------------------------
(***************************************************************************)
(* What a quiescer promises about the game server it silenced: a hold is   *)
(* claimed exactly once, by the release path or by the watchdog and never  *)
(* by both, and whoever claimed it asks for save-on exactly once.  Only    *)
(* the death of the process drops a hold without asking.                   *)
(***************************************************************************)
EXTENDS Naturals

CONSTANT Runs

VARIABLES
    hold,       \* for each run: "free", "held", "claimed" or "over"
    asked       \* for each run: how often save-on was asked for

Init ==
    /\ hold = [r \in Runs |-> "free"]
    /\ asked = [r \in Runs |-> 0]

\* The server acknowledged save-off.
Acquire(r) ==
    /\ hold[r] = "free"
    /\ hold' = [hold EXCEPT ![r] = "held"]
    /\ UNCHANGED asked

\* Somebody takes it upon himself to send save-on.
Claim(r) ==
    /\ hold[r] = "held"
    /\ hold' = [hold EXCEPT ![r] = "claimed"]
    /\ UNCHANGED asked

\* save-on was sent, whatever came of it.
Settle(r) ==
    /\ hold[r] = "claimed"
    /\ hold' = [hold EXCEPT ![r] = "over"]
    /\ asked' = [asked EXCEPT ![r] = @ + 1]

\* The process died.
Die ==
    /\ hold' = [r \in Runs |-> IF hold[r] = "free" THEN "free" ELSE "over"]
    /\ UNCHANGED asked

Next == Die \/ \E r \in Runs : Acquire(r) \/ Claim(r) \/ Settle(r)

Spec == Init /\ [][Next]_<<hold, asked>>
=============================================================================
