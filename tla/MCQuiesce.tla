----------------------------- MODULE MCQuiesce -----------------------------
(***************************************************************************)
(* Instances of Quiesce for TLC.  Two runs are enough for a watchdog to    *)
(* outlive its run into the next one.                                      *)
(***************************************************************************)
EXTENDS Quiesce

OneRun == {1}
TwoRuns == {1, 2}
AllFaults == FaultKinds
=============================================================================
