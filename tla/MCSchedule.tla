----------------------------- MODULE MCSchedule -----------------------------
(***************************************************************************)
(* Instances of Schedule for TLC.                                          *)
(***************************************************************************)
EXTENDS Schedule

\* Two intervals, with and without jitter, and each part switched off.
SomeSettings == {
    [enabled |-> TRUE, every |-> 3, window |-> 2, house |-> TRUE],
    [enabled |-> TRUE, every |-> 2, window |-> 0, house |-> FALSE],
    [enabled |-> FALSE, every |-> 3, window |-> 0, house |-> TRUE] }
=============================================================================
