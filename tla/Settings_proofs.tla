--------------------------- MODULE Settings_proofs ---------------------------
(***************************************************************************)
(* Proofs about the settings tab and the settings store as a part of Web,  *)
(* for any number of changes, tabs and sessions.                           *)
(***************************************************************************)
EXTENDS Web, TLAPS

\* The states of an Update that holds the store's lock.
Busy == {"locked", "written", "synced", "renamed"}

(* The inductive invariant.                                                *)

\* Only what is on the platter may be found after a loss of power.
Safe == file \in mayFind /\ mayFind \subseteq synced

LockHeld ==
    /\ \A u \in Updates : upc[u] \in Busy <=> lock = u
    /\ lock # Seed => up

Ready ==
    \A u \in Updates :
        /\ upc[u] \in {"synced", "renamed"} => u \in synced
        /\ upc[u] = "renamed" => file = u

\* Between rename and publish, and only there, file and daemon differ.
InForce == up => file = cur \/ \E u \in Updates : upc[u] = "renamed"

\* A change that was not made is nowhere to be found.
Unmade ==
    \A u \in Updates :
        upc[u] \in {"new", "locked", "written", "synced", "rejected"} =>
            u \notin mayFind /\ u # cur

Watching == up <=> spc # "down"

StoreInv ==
    /\ Tab!TypeOK
    /\ Safe /\ LockHeld /\ Ready /\ InForce /\ Unmade /\ Watching
    /\ Heard

\* What a tab holds is the token of a session of its own, and so is what it
\* sends.
OwnToken ==
    /\ \A t \in Tabs : csrf[t] # 0 => owner[csrf[t]] = t
    /\ \A t \in Tabs : answer[t] # 0 => owner[answer[t]] = t
    /\ \A u \in Updates : request[u].tab # Tab!NoTab =>
        /\ request[u].csrf \in 1..issued
        /\ owner[request[u].csrf] = request[u].tab

AuthTypeOK ==
    /\ issued \in Tab!Ids
    /\ owner \in [1..MaxSignIns -> Tabs \cup {Tab!NoTab}]
    /\ alive \subseteq 1..issued
    /\ cookie \in 0..issued
    /\ answer \in [Tabs -> 0..issued]
    /\ csrf \in [Tabs -> 0..issued]

RequestTypeOK ==
    request \in [Updates -> [tab : Tabs \cup {Tab!NoTab}, cookie : Tab!Ids,
                             csrf : Tab!Ids]]

ByTypeOK == by \in [Updates -> Tabs \cup {Tab!NoTab}]

TabInv ==
    AuthTypeOK /\ RequestTypeOK /\ ByTypeOK /\ OwnToken /\ Authored
----------------------------------------------------------------------------
(* The store.                                                              *)

LEMMA StoreInit == ASSUME Init PROVE StoreInv
BY ConstantsAssumption
   DEF Init, Tab!EditorInit, Tab!Init, StoreInv, Tab!TypeOK, Safe, LockHeld,
       Ready, InForce, Unmade, Watching, Heard, Tab!Heard, Busy, Tab!Versions,
       Tab!VersionsAssumption

UpdateStates ==
    Busy \cup {"new", "published", "saved", "panicked", "rejected", "dead"}

\* An Update goes on to another state.
LEMMA GotoTyped ==
    ASSUME Tab!TypeOK, NEW u \in Updates, NEW next \in UpdateStates,
           Tab!Goto(u, next)
    PROVE  /\ upc' \in [Updates -> UpdateStates]
           /\ upc'[u] = next
           /\ \A v \in Updates \ {u} : upc'[v] = upc[v]
BY DEF Tab!TypeOK, Tab!Goto, UpdateStates, Busy

LEMMA UpdateKeeps ==
    ASSUME StoreInv, NEW u \in Updates, Tab!Begin(u) \/ Tab!UpdateStep(u)
    PROVE  StoreInv'
<1> DEFINE Others == /\ upc' \in [Updates -> UpdateStates]
                     /\ \A v \in Updates \ {u} : upc'[v] = upc[v]
<1>1. Tab!TypeOK
  BY DEF StoreInv
<1> USE ConstantsAssumption
    DEF StoreInv, Tab!TypeOK, Safe, LockHeld, Ready, InForce, Unmade,
        Watching, Heard, Tab!Heard, Busy, UpdateStates, Tab!Versions,
        Tab!disk, Tab!watcher, Tab!VersionsAssumption
<1>2. CASE Tab!Begin(u)
  <2>1. Others /\ upc'[u] = "locked"
    BY ONLY <1>1, <1>2, GotoTyped, u \in Updates DEF Tab!Begin, UpdateStates
  <2> QED
    BY <1>2, <2>1 DEF Tab!Begin
<1>3. CASE Tab!Reject(u)
  <2>1. Others /\ upc'[u] = "rejected"
    BY ONLY <1>1, <1>3, GotoTyped, u \in Updates DEF Tab!Reject, UpdateStates
  <2> QED
    BY <1>3, <2>1 DEF Tab!Reject
<1>4. CASE Tab!WriteTemp(u)
  <2>1. Others /\ upc'[u] = "written"
    BY ONLY <1>1, <1>4, GotoTyped, u \in Updates
       DEF Tab!WriteTemp, UpdateStates
  <2> QED
    BY <1>4, <2>1 DEF Tab!WriteTemp
<1>5. CASE Tab!Sync(u)
  <2>1. Others /\ upc'[u] = "synced"
    BY ONLY <1>1, <1>5, GotoTyped, u \in Updates DEF Tab!Sync, UpdateStates
  <2> QED
    BY <1>5, <2>1 DEF Tab!Sync
<1>6. CASE Tab!Rename(u)
  <2>1. Others /\ upc'[u] = "renamed"
    BY ONLY <1>1, <1>6, GotoTyped, u \in Updates DEF Tab!Rename, UpdateStates
  <2> QED
    BY <1>6, <2>1 DEF Tab!Rename
<1>7. CASE Tab!Publish(u)
  <2>1. /\ Others
        /\ upc'[u] \in {"published", "saved", "panicked"}
        /\ upc'[u] = "published" <=>
                upc[u] = "renamed" /\ spc \in {"asleep", "looking"}
    BY ONLY <1>1, <1>7, GotoTyped, u \in Updates DEF Tab!Publish, UpdateStates
  <2> QED
    BY <1>7, <2>1 DEF Tab!Publish
<1>8. CASE Tab!Notify(u)
  <2>1. /\ Others
        /\ upc'[u] \in {"published", "saved", "panicked"}
        /\ upc'[u] = "published" <=>
                upc[u] = "renamed" /\ spc \in {"asleep", "looking"}
    BY ONLY <1>1, <1>8, GotoTyped, u \in Updates DEF Tab!Notify, UpdateStates
  <2> QED
    BY <1>8, <2>1 DEF Tab!Notify
<1> QED
  BY <1>2, <1>3, <1>4, <1>5, <1>6, <1>7, <1>8 DEF Tab!UpdateStep

LEMMA WatcherKeeps ==
    ASSUME StoreInv,
           \/ Tab!RunStarts \/ Tab!WakeUp \/ Tab!Look \/ Tab!Leave
           \/ Tab!WriteBack
    PROVE  StoreInv'
<1> USE DEF StoreInv, Tab!TypeOK, Safe, LockHeld, Ready, InForce, Unmade,
            Watching, Heard, Tab!Heard, Tab!disk, Tab!watcher
<1>1. CASE Tab!RunStarts
  BY <1>1 DEF Tab!RunStarts
<1>2. CASE Tab!WakeUp
  BY <1>2 DEF Tab!WakeUp
<1>3. CASE Tab!Look
  BY <1>3 DEF Tab!Look
<1>4. CASE Tab!Leave
  BY <1>4 DEF Tab!Leave
<1>5. CASE Tab!WriteBack
  BY <1>5, ConstantsAssumption
     DEF Tab!WriteBack, Tab!Versions, Tab!VersionsAssumption
<1> QED
  BY <1>1, <1>2, <1>3, <1>4, <1>5

\* The process dies, alone or with the machine, and starts again.
LEMMA RestartsKeep ==
    ASSUME StoreInv, Tab!Crash \/ Tab!PowerLoss \/ Tab!Open PROVE StoreInv'
<1> USE ConstantsAssumption
    DEF StoreInv, Tab!TypeOK, Safe, LockHeld, Ready, InForce, Unmade,
        Watching, Heard, Tab!Heard, Busy, Tab!Versions, Tab!disk,
        Tab!watcher, Tab!VersionsAssumption
<1>1. CASE Tab!Crash
  BY <1>1 DEF Tab!Crash, Tab!Stop
<1>2. CASE Tab!PowerLoss
  BY <1>2 DEF Tab!PowerLoss, Tab!Stop
<1>3. CASE Tab!Open
  BY <1>3 DEF Tab!Open
<1> QED
  BY <1>1, <1>2, <1>3

\* What the tabs do on their own is nothing to the store.
LEMMA StoreStutters ==
    ASSUME StoreInv, UNCHANGED Tab!vars PROVE StoreInv'
BY DEF Tab!vars, StoreInv, Tab!TypeOK, Safe, LockHeld, Ready, InForce, Unmade,
       Watching, Heard, Tab!Heard, Tab!Versions, Tab!disk, Tab!watcher

LEMMA StoreStep == ASSUME StoreInv, Tab!EditorNext PROVE StoreInv'
<1>1. CASE UNCHANGED Tab!vars
  BY <1>1, StoreStutters
<1>2. ASSUME NEW u \in Updates, Tab!EditorBegin(u) \/ Tab!UpdateStep(u)
      PROVE  StoreInv'
  BY <1>2, UpdateKeeps DEF Tab!EditorBegin
<1>3. CASE Tab!Crash \/ Tab!PowerLoss
  BY <1>3, RestartsKeep
<1>4. CASE \/ Tab!RunStarts \/ Tab!WakeUp \/ Tab!Look \/ Tab!Leave
           \/ Tab!Open \/ Tab!WriteBack
  BY <1>4, RestartsKeep, WatcherKeeps
<1> QED
  BY <1>1, <1>2, <1>3, <1>4
     DEF Tab!EditorNext, Tab!Exchange, Tab!SetCookie, Tab!Expire, Tab!Send,
         Tab!Admit, Tab!Refuse

----------------------------------------------------------------------------
(* The tabs.                                                               *)

LEMMA TabInit == ASSUME Init PROVE TabInv
BY ConstantsAssumption
   DEF Init, Tab!EditorInit, TabInv, AuthTypeOK, RequestTypeOK, ByTypeOK,
       OwnToken, Authored, Tab!Authored, Tab!Ids, Tab!NoTab, Tab!NoRequest,
       Tab!TabsAssumption

LEMMA TabStutters ==
    ASSUME TabInv, UNCHANGED <<Tab!auth, request, by>> PROVE TabInv'
BY DEF Tab!auth, TabInv, AuthTypeOK, RequestTypeOK, ByTypeOK, OwnToken,
       Authored, Tab!Authored

LEMMA ExchangeKeeps ==
    ASSUME TabInv, NEW t \in Tabs, Tab!Exchange(t) PROVE TabInv'
<1>1. /\ issued \in Nat /\ MaxSignIns \in Nat /\ issued' = issued + 1
      /\ issued' \in 1..MaxSignIns
  BY ConstantsAssumption
     DEF Tab!Exchange, TabInv, AuthTypeOK, Tab!Ids, Tab!TabsAssumption
<1>2. AuthTypeOK'
  BY <1>1 DEF Tab!Exchange, TabInv, AuthTypeOK, Tab!Ids
<1>3. /\ owner'[issued'] = t
      /\ \A i \in 1..issued : owner'[i] = owner[i]
  BY <1>1 DEF Tab!Exchange, TabInv, AuthTypeOK
<1>4. OwnToken'
  BY <1>1, <1>3 DEF Tab!Exchange, TabInv, AuthTypeOK, OwnToken
<1>5. RequestTypeOK' /\ ByTypeOK' /\ Authored'
  BY DEF Tab!Exchange, TabInv, RequestTypeOK, ByTypeOK, Authored,
         Tab!Authored
<1> QED
  BY <1>2, <1>4, <1>5 DEF TabInv

LEMMA SetCookieKeeps ==
    ASSUME TabInv, NEW t \in Tabs, Tab!SetCookie(t) PROVE TabInv'
<1>1. AuthTypeOK'
  BY DEF Tab!SetCookie, TabInv, AuthTypeOK, Tab!Ids
<1>2. /\ csrf'[t] = answer[t] /\ answer'[t] = 0
      /\ \A s \in Tabs \ {t} : csrf'[s] = csrf[s] /\ answer'[s] = answer[s]
  BY DEF Tab!SetCookie, TabInv, AuthTypeOK
<1>3. OwnToken'
  BY <1>2 DEF Tab!SetCookie, TabInv, OwnToken
<1> QED
  BY <1>1, <1>3
     DEF Tab!SetCookie, TabInv, RequestTypeOK, ByTypeOK, Authored,
         Tab!Authored

LEMMA ExpireKeeps ==
    ASSUME TabInv, NEW i \in alive, Tab!Expire(i) PROVE TabInv'
BY DEF Tab!Expire, TabInv, AuthTypeOK, RequestTypeOK, ByTypeOK, OwnToken,
       Authored, Tab!Authored

LEMMA SendKeeps ==
    ASSUME TabInv, NEW t \in Tabs, NEW u \in Updates, Tab!Send(t, u)
    PROVE  TabInv'
<1> DEFINE r == [tab |-> t, cookie |-> cookie, csrf |-> csrf[t]]
<1>1. /\ issued \in 0..MaxSignIns /\ csrf[t] \in 1..issued
      /\ owner[csrf[t]] = t /\ t # Tab!NoTab
      /\ cookie \in 0..issued /\ MaxSignIns \in Nat
  BY ConstantsAssumption
     DEF Tab!Send, TabInv, AuthTypeOK, OwnToken, Tab!Ids, Tab!NoTab,
         Tab!TabsAssumption
<1>2. r \in [tab : Tabs \cup {Tab!NoTab}, cookie : Tab!Ids, csrf : Tab!Ids]
  BY <1>1 DEF Tab!Ids
<1>3. /\ RequestTypeOK'
      /\ request'[u] = r
      /\ \A v \in Updates \ {u} : request'[v] = request[v]
  BY <1>2 DEF Tab!Send, TabInv, RequestTypeOK
<1>4. OwnToken'
  BY <1>1, <1>3 DEF Tab!Send, Tab!auth, TabInv, OwnToken
<1>5. by[u] = Tab!NoTab
  BY DEF Tab!Send, TabInv, ByTypeOK, Authored, Tab!Authored
<1>6. Authored'
  BY <1>3, <1>5 DEF Tab!Send, TabInv, Authored, Tab!Authored
<1> QED
  BY <1>3, <1>4, <1>6 DEF Tab!Send, Tab!auth, TabInv, AuthTypeOK, ByTypeOK

LEMMA AdmitKeeps ==
    ASSUME TabInv, NEW u \in Updates, Tab!Admit(u) PROVE TabInv'
<1>1. owner[request[u].cookie] = request[u].tab
  BY DEF Tab!Admit, Tab!guard, TabInv, OwnToken
<1>2. request[u].tab \in Tabs \cup {Tab!NoTab}
  BY DEF TabInv, RequestTypeOK
<1>3. by' = [by EXCEPT ![u] = request[u].tab]
  BY <1>1 DEF Tab!Admit
<1>4. ByTypeOK' /\ Authored'
  BY <1>2, <1>3
     DEF Tab!Admit, TabInv, ByTypeOK, Authored, Tab!Authored
<1> QED
  BY <1>4 DEF Tab!Admit, Tab!auth, TabInv, AuthTypeOK, RequestTypeOK, OwnToken

\* Requests that are withdrawn.
LEMMA NoRequestTyped ==
    /\ Tab!NoRequest \in
            [tab : Tabs \cup {Tab!NoTab}, cookie : Tab!Ids, csrf : Tab!Ids]
    /\ Tab!NoRequest.tab = Tab!NoTab
BY ConstantsAssumption
   DEF Tab!NoRequest, Tab!Ids, Tab!TabsAssumption

LEMMA RefuseKeeps ==
    ASSUME TabInv, NEW u \in Updates, Tab!Refuse(u) PROVE TabInv'
<1>1. /\ RequestTypeOK'
      /\ request'[u] = Tab!NoRequest
      /\ \A v \in Updates \ {u} : request'[v] = request[v]
  BY NoRequestTyped DEF Tab!Refuse, TabInv, RequestTypeOK
<1>2. AuthTypeOK'
  BY DEF Tab!Refuse, TabInv, AuthTypeOK, Tab!Ids
<1>3. OwnToken' /\ Authored' /\ ByTypeOK'
  BY <1>1, NoRequestTyped
     DEF Tab!Refuse, TabInv, OwnToken, Authored, Tab!Authored, ByTypeOK
<1> QED
  BY <1>1, <1>2, <1>3 DEF TabInv

LEMMA RestartKeeps == ASSUME TabInv, Tab!Restart PROVE TabInv'
<1>1. /\ RequestTypeOK'
      /\ \A u \in Updates : request'[u] = IF upc[u] = "new"
                                          THEN Tab!NoRequest ELSE request[u]
  BY NoRequestTyped DEF Tab!Restart, TabInv, RequestTypeOK
<1>2. AuthTypeOK'
  BY DEF Tab!Restart, TabInv, AuthTypeOK
<1>3. OwnToken'
  BY <1>1, NoRequestTyped DEF Tab!Restart, TabInv, OwnToken
<1>4. ByTypeOK' /\ Authored'
  BY <1>1 DEF Tab!Restart, TabInv, ByTypeOK, Authored, Tab!Authored
<1> QED
  BY <1>1, <1>2, <1>3, <1>4 DEF TabInv

LEMMA TabStep == ASSUME TabInv, Tab!EditorNext PROVE TabInv'
<1>1. CASE UNCHANGED <<Tab!auth, request, by>>
  BY <1>1, TabStutters
<1>2. ASSUME NEW t \in Tabs,
             \/ Tab!Exchange(t) \/ Tab!SetCookie(t)
             \/ \E u \in Updates : Tab!Send(t, u)
      PROVE  TabInv'
  BY <1>2, ExchangeKeeps, SetCookieKeeps, SendKeeps
<1>3. ASSUME NEW u \in Updates, Tab!Admit(u) \/ Tab!Refuse(u) PROVE TabInv'
  BY <1>3, AdmitKeeps, RefuseKeeps
<1> QED
  BY <1>1, <1>2, <1>3, ExpireKeeps, RestartKeeps
     DEF Tab!EditorNext, Tab!EditorBegin

----------------------------------------------------------------------------
(* The theorems.                                                           *)

LEMMA Settings == Spec => [](StoreInv /\ TabInv)
<1>1. Init => StoreInv /\ TabInv
  BY StoreInit, TabInit
<1>2. ASSUME StoreInv, TabInv, [Next]_web PROVE StoreInv' /\ TabInv'
  <2>1. CASE Edit
    BY <1>2, <2>1, StoreStep, TabStep DEF Edit
  <2>2. CASE UNCHANGED tabVars
    BY <1>2, <2>2, StoreStutters, TabStutters
       DEF tabVars, Tab!vars, Tab!disk, Tab!watcher, Tab!auth
  <2> QED
    BY <1>2, <2>1, <2>2
       DEF Next, Browse, Grow, Count, Counting, AskAmp, web
<1> QED
  BY <1>1, <1>2, PTL DEF Spec

\* The settings store, its watcher, the sessions and the requests are what
\* they were declared to be.
THEOREM Typed == Spec => []Tab!EditorTypeOK
<1>1. StoreInv /\ TabInv => Tab!EditorTypeOK
  BY DEF StoreInv, TabInv, AuthTypeOK, RequestTypeOK, ByTypeOK,
         Tab!EditorTypeOK
<1> QED
  BY <1>1, Settings, PTL

\* Whenever the daemon dies or the power is lost, the settings file is a
\* whole version, and outside the store's lock it is the one in force;
\* nothing is left of a change that was refused (Store.Update).
THEOREM FileIsWhole == Spec => []Tab!Whole
<1>1. StoreInv => Tab!Whole
  BY ConstantsAssumption
     DEF StoreInv, Tab!TypeOK, Safe, LockHeld, InForce, Unmade, Busy,
         Tab!Whole, Tab!Versions, Tab!VersionsAssumption
<1> QED
  BY <1>1, Settings, PTL

\* No change of the settings is lost on its way to the scheduler, although
\* nobody waits for it to be taken (Store.Update, Scheduler.Run).
THEOREM ChangeIsHeard == Spec => []Heard
<1>1. StoreInv => Heard
  BY DEF StoreInv
<1> QED
  BY <1>1, Settings, PTL

\* A change is filed under the name of whoever made it, although the tabs of
\* a browser share the cookie (Server.guard, handlePutSettings).
THEOREM ChangeIsAuthored == Spec => []Authored
<1>1. TabInv => Authored
  BY DEF TabInv
<1> QED
  BY <1>1, Settings, PTL
----------------------------------------------------------------------------
(* The store implements Register.                                          *)

\* What an update's caller knows, as Register has it.
Told == [u \in Updates |-> Tab!OutcomeOf(upc[u])]

LEMMA OutcomeIs ==
    ASSUME NEW pc2 \in UpdateStates
    PROVE  /\ pc2 \in {"new", "locked", "written", "synced"} =>
                Tab!OutcomeOf(pc2) = "open"
           /\ pc2 \in {"renamed", "published", "saved", "panicked"} =>
                Tab!OutcomeOf(pc2) = "made"
           /\ pc2 = "rejected" => Tab!OutcomeOf(pc2) = "refused"
           /\ pc2 = "dead" => Tab!OutcomeOf(pc2) = "unknown"
BY DEF Tab!OutcomeOf, UpdateStates, Busy

\* Where an update has gone to, and what that tells its caller.
LEMMA ToldBy ==
    ASSUME Tab!TypeOK, NEW u \in Updates, NEW next \in UpdateStates,
           Tab!Goto(u, next)
    PROVE  Told' = [Told EXCEPT ![u] = Tab!OutcomeOf(next)]
<1>1. /\ upc'[u] = next
      /\ \A v \in Updates \ {u} : upc'[v] = upc[v]
  BY GotoTyped
<1>2. Told' = [v \in Updates |-> Tab!OutcomeOf(upc'[v])]
  BY DEF Told
<1>3. \A v \in Updates :
        Tab!OutcomeOf(upc'[v]) = IF v = u THEN Tab!OutcomeOf(next)
                                          ELSE Told[v]
  BY <1>1 DEF Told
<1> QED
  BY <1>2, <1>3 DEF Told

\* An update that tells its caller nothing new.
LEMMA ToldAsBefore ==
    ASSUME Tab!TypeOK, NEW u \in Updates, NEW next \in UpdateStates,
           Tab!Goto(u, next), Tab!OutcomeOf(next) = Tab!OutcomeOf(upc[u])
    PROVE  Told' = Told
<1>1. Told' = [Told EXCEPT ![u] = Tab!OutcomeOf(next)]
  BY ToldBy
<1>2. Told[u] = Tab!OutcomeOf(next)
  BY DEF Told
<1> QED
  BY <1>1, <1>2 DEF Told

LEMMA UpdateIsPromised ==
    ASSUME StoreInv, NEW u \in Updates, Tab!Begin(u) \/ Tab!UpdateStep(u)
    PROVE  [Tab!Promise!Next]_(Tab!Promise!vars)
<1>1. /\ Tab!TypeOK /\ upc[u] \in UpdateStates /\ cur \in Tab!Versions
      /\ \A v \in Updates : upc[v] \in Busy <=> lock = v
      /\ lock # Seed => up
      /\ upc[u] = "renamed" => file = u
      /\ up => file = cur \/ \E v \in Updates : upc[v] = "renamed"
  BY DEF StoreInv, Tab!TypeOK, LockHeld, Ready, InForce, UpdateStates, Busy
<1>2. /\ Seed \notin Updates /\ Torn \notin Tab!Versions /\ u # Seed
  BY ConstantsAssumption DEF Tab!VersionsAssumption, Tab!Versions
<1>3. upc[u] \in Busy => Tab!Served = Torn /\ lock = u /\ up
  BY <1>1, <1>2 DEF Tab!Served
<1>4. Told[u] = Tab!OutcomeOf(upc[u])
  BY DEF Told
<1> USE DEF Tab!Promise!vars, Tab!Promise!Next
<1>5. CASE Tab!Begin(u)
  <2>1. Told' = Told
    BY <1>1, <1>5, OutcomeIs, ToldAsBefore DEF Tab!Begin, UpdateStates, Busy
  <2>2. Tab!Served = cur /\ Tab!Served' = Torn /\ cur # Torn
    BY <1>1, <1>2, <1>5 DEF Tab!Begin, Tab!Served, Tab!disk
  <2>3. Tab!Promise!Take
    BY <1>5, <2>1, <2>2
       DEF Tab!Promise!Take, Told, Tab!Begin, Tab!disk
  <2> QED
    BY <2>3
<1>6. CASE Tab!Reject(u)
  <2>1. Told' = [Told EXCEPT ![u] = "refused"] /\ Told[u] = "open"
    BY <1>1, <1>4, <1>6, OutcomeIs, ToldBy DEF Tab!Reject, UpdateStates
  <2>2. Tab!Served = Torn /\ Tab!Served' = cur /\ file = cur
    <3>1. upc[u] \in Busy /\ \A v \in Updates : upc[v] # "renamed"
      BY <1>1, <1>6 DEF Tab!Reject, Busy
    <3> QED
      BY <1>1, <1>3, <1>6, <3>1 DEF Tab!Reject, Tab!Served, Tab!disk
  <2>3. Tab!Promise!Refuse(u)
    BY <1>6, <2>1, <2>2
       DEF Tab!Promise!Refuse, Told, Tab!Reject, Tab!disk
  <2> QED
    BY <2>3
<1>7. CASE Tab!WriteTemp(u) \/ Tab!Sync(u)
  <2>1. Told' = Told
    BY <1>1, <1>7, OutcomeIs, ToldAsBefore
       DEF Tab!WriteTemp, Tab!Sync, UpdateStates, Busy
  <2>2. UNCHANGED <<file, mayFind, Tab!Served>>
    BY <1>7 DEF Tab!WriteTemp, Tab!Sync, Tab!Served, Tab!disk
  <2> QED
    BY <2>1, <2>2 DEF Told
<1>8. CASE Tab!Rename(u)
  <2>1. Told' = [Told EXCEPT ![u] = "made"] /\ Told[u] = "open"
    BY <1>1, <1>4, <1>8, OutcomeIs, ToldBy
       DEF Tab!Rename, UpdateStates, Busy
  <2>2. Tab!Served = Torn /\ Tab!Served' = Tab!Served
    BY <1>3, <1>8 DEF Tab!Rename, Tab!Served, Busy
  <2>3. Tab!Promise!Make(u)
    BY <1>8, <2>1, <2>2 DEF Tab!Promise!Make, Told, Tab!Rename
  <2> QED
    BY <2>3
<1>9. CASE Tab!Publish(u)
  <2>1. Told' = Told
    BY <1>1, <1>9, OutcomeIs, ToldAsBefore DEF Tab!Publish, UpdateStates
  <2>2. Tab!Served = Torn /\ Tab!Served' = file
    BY <1>1, <1>3, <1>9 DEF Tab!Publish, Tab!Served, Busy, Tab!disk
  <2>3. Tab!Promise!Give
    BY <1>9, <2>1, <2>2
       DEF Tab!Promise!Give, Told, Tab!Publish, Tab!disk
  <2> QED
    BY <2>3
<1>10. CASE Tab!Notify(u)
  <2>1. Told' = Told
    BY <1>1, <1>10, OutcomeIs, ToldAsBefore DEF Tab!Notify, UpdateStates
  <2>2. UNCHANGED <<file, mayFind, Tab!Served>>
    BY <1>10 DEF Tab!Notify, Tab!Served, Tab!disk
  <2> QED
    BY <2>1, <2>2 DEF Told
<1> QED
  BY <1>5, <1>6, <1>7, <1>8, <1>9, <1>10 DEF Tab!UpdateStep

\* Whoever dies on the way leaves it open to its caller what became of it.
LEMMA DeathIsPromised ==
    ASSUME StoreInv, Tab!Crash \/ Tab!PowerLoss
    PROVE  Tab!Promise!Crash \/ Tab!Promise!PowerLoss
<1> DEFINE S == {u \in Updates :
                    upc[u] \notin {"new", "saved", "panicked", "rejected"}
                    /\ upc[u] # "dead"}
<1>1. Tab!TypeOK /\ mayFind \subseteq synced
  BY DEF StoreInv, Safe
<1>2. Tab!Stop
  BY DEF Tab!Crash, Tab!PowerLoss
<1>3. /\ Tab!Served' = Torn
      /\ S \in SUBSET {u \in Updates : Told[u] \in {"open", "made"}}
      /\ Told' = [u \in Updates |-> IF u \in S THEN "unknown" ELSE Told[u]]
  <2>1. Tab!Served' = Torn
    BY <1>2 DEF Tab!Stop, Tab!Served
  <2>2. \A u \in Updates : upc[u] \in UpdateStates
    BY <1>1 DEF Tab!TypeOK, UpdateStates, Busy
  <2>3. ASSUME NEW u \in S PROVE Told[u] \in {"open", "made"}
    BY <2>2, OutcomeIs DEF Told, UpdateStates, Busy
  <2>4. /\ Told' = [u \in Updates |-> Tab!OutcomeOf(upc'[u])]
        /\ \A u \in Updates : upc'[u] = IF u \in S THEN "dead" ELSE upc[u]
    BY <1>2 DEF Tab!Stop, Told
  <2>5. ASSUME NEW u \in Updates
        PROVE  Tab!OutcomeOf(upc'[u]) = IF u \in S THEN "unknown"
                                                   ELSE Told[u]
    <3> HIDE DEF S
    <3>1. Tab!OutcomeOf("dead") = "unknown"
      BY DEF Tab!OutcomeOf
    <3> QED
      BY <2>4, <3>1 DEF Told
  <2> HIDE DEF S
  <2>6. Told' = [u \in Updates |-> IF u \in S THEN "unknown" ELSE Told[u]]
    BY <2>4, <2>5
  <2> QED
    BY <2>1, <2>3, <2>6 DEF S
<1> HIDE DEF S
<1>4. Tab!Promise!Die
  BY <1>3 DEF Tab!Promise!Die, Told
<1>5. CASE Tab!Crash
  BY <1>4, <1>5 DEF Tab!Crash, Tab!Promise!Crash, Tab!disk
<1>6. CASE Tab!PowerLoss
  BY <1>1, <1>4, <1>6 DEF Tab!PowerLoss, Tab!Promise!PowerLoss
<1> QED
  BY <1>5, <1>6

LEMMA RestIsPromised ==
    ASSUME StoreInv,
           \/ Tab!RunStarts \/ Tab!WakeUp \/ Tab!Look \/ Tab!Leave
           \/ Tab!Open \/ Tab!WriteBack \/ UNCHANGED Tab!vars
    PROVE  [Tab!Promise!Next]_(Tab!Promise!vars)
<1> USE DEF Tab!Promise!vars, Tab!Promise!Next
<1>1. CASE \/ Tab!RunStarts \/ Tab!WakeUp \/ Tab!Look \/ Tab!Leave
           \/ UNCHANGED Tab!vars
  <2>1. UNCHANGED <<file, mayFind, upc, Tab!Served>>
    <3>1. UNCHANGED <<file, mayFind, upc, up, lock, cur>>
      BY <1>1 DEF Tab!RunStarts, Tab!WakeUp, Tab!Look, Tab!Leave, Tab!vars,
                  Tab!disk
    <3> QED
      BY <3>1 DEF Tab!Served
  <2> QED
    BY <2>1
<1>2. CASE Tab!Open
  <2>1. lock = Seed
    BY <1>2 DEF Tab!Open, StoreInv, LockHeld
  <2>2. Tab!Promise!Give
    BY <1>2, <2>1
       DEF Tab!Open, Tab!Promise!Give, Tab!Served, Tab!disk
  <2> QED
    BY <2>2
<1>3. CASE Tab!WriteBack
  <2>1. Tab!Promise!Settle
    BY <1>3 DEF Tab!WriteBack, Tab!Promise!Settle, Tab!Served
  <2> QED
    BY <2>1
<1> QED
  BY <1>1, <1>2, <1>3

\* The settings store keeps Register's promise, whenever the daemon dies or
\* the power is lost: a change is made in one step or not at all, what was
\* refused never is, and whoever reads gets what is on disk (Store.Update,
\* Store.Get, atomicfile.Write).
THEOREM StoreIsARegister == Spec => Atomic
<1>1. Init => Tab!Promise!Init
  <2> SUFFICES ASSUME Init PROVE Tab!Promise!Init
    OBVIOUS
  <2>1. /\ file = Seed /\ mayFind = {Seed} /\ up = TRUE /\ lock = Seed
        /\ cur = Seed /\ upc = [u \in Updates |-> "new"]
    BY DEF Init, Tab!EditorInit, Tab!Init
  <2>2. Tab!OutcomeOf("new") = "open"
    BY DEF Tab!OutcomeOf
  <2> QED
    BY <2>1, <2>2 DEF Tab!Promise!Init, Tab!Served
<1>2. ASSUME StoreInv, [Next]_web
      PROVE  [Tab!Promise!Next]_(Tab!Promise!vars)
  <2>1. CASE Edit
    <3>1. Tab!EditorNext
      BY <2>1 DEF Edit
    <3>2. CASE UNCHANGED Tab!vars
      BY <1>2, <3>2, RestIsPromised
    <3>3. ASSUME NEW u \in Updates, Tab!EditorBegin(u) \/ Tab!UpdateStep(u)
          PROVE  [Tab!Promise!Next]_(Tab!Promise!vars)
      BY <1>2, <3>3, UpdateIsPromised DEF Tab!EditorBegin
    <3>4. CASE Tab!Crash \/ Tab!PowerLoss
      BY <1>2, <3>4, DeathIsPromised DEF Tab!Promise!Next
    <3>5. CASE \/ Tab!RunStarts \/ Tab!WakeUp \/ Tab!Look \/ Tab!Leave
               \/ Tab!Open \/ Tab!WriteBack
      BY <1>2, <3>5, RestIsPromised
    <3> QED
      BY <3>1, <3>2, <3>3, <3>4, <3>5
         DEF Tab!EditorNext, Tab!Exchange, Tab!SetCookie, Tab!Expire,
             Tab!Send, Tab!Admit, Tab!Refuse
  <2>2. CASE UNCHANGED tabVars
    BY <1>2, <2>2, RestIsPromised
       DEF tabVars, Tab!vars, Tab!disk, Tab!watcher
  <2> QED
    BY <1>2, <2>1, <2>2
       DEF Next, Browse, Grow, Count, Counting, AskAmp, web
<1> QED
  BY <1>1, <1>2, Settings, PTL
     DEF Spec, Atomic, Tab!Atomic, Tab!Promise!Spec
=============================================================================
