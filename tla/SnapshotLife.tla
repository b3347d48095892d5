---------------------------- MODULE SnapshotLife ----------------------------
(***************************************************************************)
(* What the repository promises about a snapshot: it is published whole,   *)
(* it can be forgotten and taken back while it is in the trash, and only a *)
(* purge of the trash ever makes it unrestorable.  In particular a live    *)
(* snapshot never loses its data, and lost data never comes back.  Of a    *)
(* snapshot whose files were torn apart nothing is promised, and it stays  *)
(* so; nor of one that is built on such a one.                             *)
(***************************************************************************)
CONSTANT Snaps

VARIABLE life       \* for each snapshot: "none", "live", "trashed",
                    \* "gone" or "torn"

Init == life = [s \in Snaps |-> "none"]

Move(s, from, to) == life[s] = from /\ life' = [life EXCEPT ![s] = to]

Publish(s) == Move(s, "none", "live")
Forget(s) == Move(s, "live", "trashed")
Unforget(s) == Move(s, "trashed", "live")
Purge(s) == Move(s, "trashed", "gone")

Tear(s) == life[s] # "torn" /\ Move(s, life[s], "torn")

Next ==
    \E s \in Snaps :
        Publish(s) \/ Forget(s) \/ Unforget(s) \/ Purge(s) \/ Tear(s)

Spec == Init /\ [][Next]_life
=============================================================================
