------------------------------ MODULE Register ------------------------------
(***************************************************************************)
(* What settings.Store promises: a register that outlives its process.  A  *)
(* change is made in one step or not at all, one at a time, and never once *)
(* it was refused; whoever reads waits for the change that is being made,  *)
(* and then gets what is on disk.  Only a loss of power goes back, to a    *)
(* value that was there since the directory last reached the platter.      *)
(***************************************************************************)
CONSTANTS
    Updates,    \* the changes; each is a value of the register
    Seed,       \* the first value
    Nothing     \* no value

VARIABLES
    value,      \* what the daemon would find if it started now
    since,      \* what it might find after a loss of power
    served,     \* what a reader gets; Nothing if it has to wait
    outcome     \* "open", "made", "refused", or "unknown" once its maker died

vars == <<value, since, served, outcome>>

Init ==
    /\ value = Seed /\ since = {Seed} /\ served = Seed
    /\ outcome = [u \in Updates |-> "open"]

Take ==
    /\ served # Nothing
    /\ served' = Nothing
    /\ UNCHANGED <<value, since, outcome>>

Make(u) ==
    /\ served = Nothing /\ outcome[u] = "open"
    /\ value' = u
    /\ since' = since \cup {u}
    /\ outcome' = [outcome EXCEPT ![u] = "made"]
    /\ UNCHANGED served

Refuse(u) ==
    /\ served = Nothing /\ outcome[u] = "open"
    /\ served' = value
    /\ outcome' = [outcome EXCEPT ![u] = "refused"]
    /\ UNCHANGED <<value, since>>

Give ==
    /\ served = Nothing
    /\ served' = value
    /\ UNCHANGED <<value, since, outcome>>

\* The directory is written back.
Settle == since' = {value} /\ UNCHANGED <<value, served, outcome>>

Die ==
    /\ served' = Nothing
    /\ \E S \in SUBSET {u \in Updates : outcome[u] \in {"open", "made"}} :
          outcome' = [u \in Updates |->
                        IF u \in S THEN "unknown" ELSE outcome[u]]

Crash == Die /\ UNCHANGED <<value, since>>
PowerLoss == Die /\ value' \in since /\ since' = {value'}

Next ==
    \/ \E u \in Updates : Make(u) \/ Refuse(u)
    \/ Take \/ Give \/ Settle \/ Crash \/ PowerLoss

Spec == Init /\ [][Next]_vars
=============================================================================
