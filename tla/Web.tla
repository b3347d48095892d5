--------------------------------- MODULE Web ---------------------------------
(***************************************************************************)
(* The parts of the web server (web.Deps) that keep a state of their own:  *)
(* the cache of snapshot trees and the building of one, the cached totals, *)
(* the AMP client, and the settings tab with its sessions and its store.   *)
(* The jobs and their events are Panel's.                                  *)
(*                                                                         *)
(* No two of these parts share a variable, so what one of them does is not *)
(* changed by steps of the others in between, and a behaviour is taken     *)
(* here to exercise one `part' of the server only.                         *)
(***************************************************************************)
EXTENDS Naturals

CONSTANTS
    Requests, Snapshots, Large, MaxTrees,       \* as in Trees
    Files, Dirs, Sizes,                         \* as in TreeShape
    Pages, Polls, pageOf, MaxVersion,           \* as in Totals
    Calls, Borrowed, Forbidden, MaxSessions,    \* as in AmpSession
    Updates, Seed, Torn, Tabs, MaxSignIns       \* as in Editor

VARIABLES
    part,
    listed, stage, wants, slot, cache, used, now, once, built,
    index, unread, byPath, children, phase,
    version, value, at, loading, paying, refreshing, since, begun, given,
    reply, shown, unsaid,
    logins, valid, wire, carried, session, pc, mine, retried, result, dropped,
    spoilt, blamed,
    file, synced, mayFind, up, lock, upc, cur, spc, note, looked,
    issued, owner, alive, cookie, answer, csrf, request, by

Cache == INSTANCE Trees
Shape == INSTANCE TreeShape
Stats == INSTANCE Totals
Amp == INSTANCE AmpSession
Tab == INSTANCE Editor

ASSUME ConstantsAssumption ==
    /\ Cache!TreesAssumption /\ Shape!ShapeAssumption
    /\ Stats!TotalsAssumption /\ Amp!CallsAssumption
    /\ Tab!VersionsAssumption /\ Tab!TabsAssumption

cacheVars == <<listed, stage, wants, slot, cache, used, now, once, built>>
shapeVars == <<index, unread, byPath, children, phase>>
statsVars == <<version, value, at, loading, paying, refreshing, since, begun,
               given, reply, shown, unsaid>>
ampVars == <<logins, valid, wire, carried, session, pc, mine, retried, result,
             dropped, spoilt, blamed>>
tabVars == <<file, synced, mayFind, up, lock, upc, cur, spc, note, looked,
             issued, owner, alive, cookie, answer, csrf, request, by>>
web == <<part, cacheVars, shapeVars, statsVars, ampVars, tabVars>>

Init ==
    /\ part \in {"trees", "tree", "totals", "amp", "settings"}
    /\ Cache!Init /\ Stats!Init /\ Amp!Init /\ Tab!EditorInit
    /\ Shape!Init /\ (part # "tree" => index = {})

Browse ==
    /\ part = "trees" /\ Cache!Next
    /\ UNCHANGED <<part, shapeVars, statsVars, ampVars, tabVars>>

Grow ==
    /\ part = "tree" /\ Shape!Next
    /\ UNCHANGED <<part, cacheVars, statsVars, ampVars, tabVars>>

Counting ==
    /\ part = "totals"
    /\ UNCHANGED <<part, cacheVars, shapeVars, ampVars, tabVars>>
Count == Counting /\ Stats!Next

AskAmp ==
    /\ part = "amp" /\ Amp!Next
    /\ UNCHANGED <<part, cacheVars, shapeVars, statsVars, tabVars>>

Edit ==
    /\ part = "settings" /\ Tab!EditorNext
    /\ UNCHANGED <<part, cacheVars, shapeVars, statsVars, ampVars>>

Next == Browse \/ Grow \/ Count \/ AskAmp \/ Edit

\* An open overview polls, and not all of its requests fail.  Walks end, and
\* not all of them in an error; a minute passes; the job that changed
\* something goes on to its invalidate.
Fairness ==
    /\ \A r \in Polls :
        /\ WF_web(Counting /\ (Stats!Pay(r) \/ Stats!Serve(r)))
        /\ SF_web(Counting /\ Stats!Paid(r) /\ at' = "fresh")
        /\ SF_web(Counting /\ Stats!Arrive(r))
    /\ SF_web(Counting /\ Stats!Refreshed /\ at' = "fresh")
    /\ WF_web(Counting /\ Stats!Ages) /\ WF_web(Counting /\ Stats!invalidate)

Spec == Init /\ [][Next]_web /\ Fairness

----------------------------------------------------------------------------
(* What is checked: what each part promises, see there.                    *)

\* A failed build of a tree is dropped from the cache (Trees).
FailureLeaves == Cache!FailureLeaves

\* A tree is whole and its totals add up (TreeShape).
AddsUp == Shape!AddsUp

\* The totals never go back in time (Totals).
NeverBackwards == Stats!NeverBackwards

\* Once the repository comes to rest every page that goes on polling comes to
\* show what is true, even if the invalidate met a walk that had begun before
\* the change, if refreshes fail now and then, and if replies overtake each
\* other.
Settles == \A p \in Pages : <>[](part = "totals" => shown[p] = version)

\* No call is carried out twice or answered wrongly (AmpSession).
CallKept == Amp!CallKept

\* A caller does not see that a session went stale (AmpSession).
Unseen == Amp!Unseen

\* The settings are changed in one step or not at all (SettingsStore).
Atomic == Tab!Atomic

\* No change of the settings is lost on its way (SettingsStore).
Heard == Tab!Heard

\* A change is filed under the name of whoever made it (Editor).
Authored == Tab!Authored
=============================================================================
