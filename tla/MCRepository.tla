---------------------------- MODULE MCRepository ----------------------------
(***************************************************************************)
(* Instances of Repository for TLC.  Each snapshot id is used once, so the *)
(* number of ids bounds the number of backups in one behaviour.            *)
(***************************************************************************)
EXTENDS Repository

CONSTANTS o1, o2

TwoObjects == {o1, o2}
OneObject == {o1}
TwoSnaps == 1..2
=============================================================================
