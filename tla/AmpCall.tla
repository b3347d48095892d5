------------------------------- MODULE AmpCall -------------------------------
(***************************************************************************)
(* What a caller of the AMP API may rely on: a call is carried out at most *)
(* once, perhaps after its caller has given up on it; "ok" says that it    *)
(* was, "refused" that it was not and will not be, "failed" leaves it      *)
(* open.  The calls of Quiesce rest on this.                               *)
(***************************************************************************)
EXTENDS Naturals

CONSTANT Calls

VARIABLES
    result,     \* "none", "ok", "refused", "failed"
    carried     \* the calls AMP has carried out

vars == <<result, carried>>

Init ==
    /\ result = [c \in Calls |-> "none"]
    /\ carried = [c \in Calls |-> 0]

CarryOut(c) ==
    /\ carried[c] = 0 /\ result[c] \in {"none", "failed"}
    /\ carried' = [carried EXCEPT ![c] = 1]
    /\ UNCHANGED result

Return(c, r) ==
    /\ result[c] = "none"
    /\ r = "ok" => carried[c] = 1
    /\ r = "refused" => carried[c] = 0
    /\ result' = [result EXCEPT ![c] = r]
    /\ UNCHANGED carried

Next == \E c \in Calls :
    CarryOut(c) \/ \E r \in {"ok", "refused", "failed"} : Return(c, r)

Spec == Init /\ [][Next]_vars
=============================================================================
