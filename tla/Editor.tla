------------------------------- MODULE Editor -------------------------------
(***************************************************************************)
(* The settings tab: auth.Store's sessions, the guard in front of every    *)
(* handler, the tabs of one browser, and handlePutSettings down to the     *)
(* settings store.  The tabs share the cookie; each holds the CSRF token   *)
(* of its own sign-in.  A tab is one person's, whoever signs in next.      *)
(***************************************************************************)
EXTENDS SettingsStore, Naturals

CONSTANTS
    Tabs,
    MaxSignIns  \* bound: how often somebody signs in

TabsAssumption == MaxSignIns \in Nat /\ Seed \notin Tabs

VARIABLES
    issued,     \* sessions handed out, by number
    owner,      \* whose they are
    alive,      \* those in auth.Store
    cookie,     \* the browser's ampbb_session; 0 is none
    answer,     \* the session in the answer a tab has not seen yet
    csrf,       \* the session whose token a tab holds
    request,    \* a PUT on its way: [tab, cookie, csrf]
    by          \* the author of an Update: whose session it was

auth == <<issued, owner, alive, cookie, answer, csrf>>
all == <<vars, auth, request, by>>

Ids == 0..MaxSignIns
NoTab == Seed
NoRequest == [tab |-> NoTab, cookie |-> 0, csrf |-> 0]

EditorTypeOK ==
    /\ TypeOK
    /\ issued \in Ids
    /\ owner \in [1..MaxSignIns -> Tabs \cup {NoTab}]
    /\ alive \subseteq 1..issued
    /\ cookie \in 0..issued
    /\ answer \in [Tabs -> 0..issued]
    /\ csrf \in [Tabs -> 0..issued]
    /\ request \in [Updates -> [tab : Tabs \cup {NoTab}, cookie : Ids,
                                csrf : Ids]]
    /\ by \in [Updates -> Tabs \cup {NoTab}]

EditorInit ==
    /\ Init
    /\ issued = 0
    /\ owner = [i \in 1..MaxSignIns |-> NoTab]
    /\ alive = {} /\ cookie = 0
    /\ answer = [t \in Tabs |-> 0]
    /\ csrf = [t \in Tabs |-> 0]
    /\ request = [u \in Updates |-> NoRequest]
    /\ by = [u \in Updates |-> NoTab]

----------------------------------------------------------------------------
(* Signing in and out.                                                     *)

\* A tab is loaded (anew) and signs in: handleExchange, for a panel session
\* that AMP recognises.  There is no limit to how many sessions there are.
Exchange(t) ==
    /\ up /\ issued < MaxSignIns
    /\ answer[t] = 0
    /\ issued' = issued + 1
    /\ owner' = [owner EXCEPT ![issued'] = t]
    /\ alive' = alive \cup {issued'}
    /\ answer' = [answer EXCEPT ![t] = issued']
    /\ csrf' = [csrf EXCEPT ![t] = 0]
    /\ UNCHANGED <<vars, cookie, request, by>>

\* The answer's header reaches the browser, and then its body the tab.
SetCookie(t) ==
    /\ answer[t] # 0
    /\ cookie' = answer[t]
    /\ csrf' = [csrf EXCEPT ![t] = answer[t]]
    /\ answer' = [answer EXCEPT ![t] = 0]
    /\ UNCHANGED <<vars, issued, owner, alive, request, by>>

\* Idle, or too old; or its owner signs out (Revoke).
Expire(i) ==
    /\ i \in alive
    /\ alive' = alive \ {i}
    /\ UNCHANGED <<vars, issued, owner, cookie, answer, csrf, request, by>>

----------------------------------------------------------------------------
(* A change of the settings.                                               *)

\* The button of a tab that has signed in: fetch sends the browser's cookie
\* and the tab's token.
Send(t, u) ==
    /\ csrf[t] # 0
    /\ upc[u] = "new" /\ request[u].tab = NoTab
    /\ request' = [request EXCEPT ![u] =
            [tab |-> t, cookie |-> cookie, csrf |-> csrf[t]]]
    /\ UNCHANGED <<vars, auth, by>>

\* A variant of guard: a live session will do.
guardByCookie(u) ==
    /\ request[u].tab # NoTab /\ by[u] = NoTab
    /\ request[u].cookie \in alive

\* guard: the session lives, and the token is that session's.
guard(u) ==
    /\ request[u].tab # NoTab /\ by[u] = NoTab
    /\ request[u].cookie \in alive
    /\ request[u].csrf = request[u].cookie

\* handlePutSettings: Update runs in the name of the session's owner.
Admit(u) ==
    /\ up /\ guard(u)
    /\ by' = [by EXCEPT ![u] = owner[request[u].cookie]]
    /\ UNCHANGED <<vars, auth, request>>

EditorBegin(u) == by[u] # NoTab /\ Begin(u) /\ UNCHANGED <<auth, request, by>>

\* The guard says no.  When it is the session that is gone, the answer takes
\* the cookie with it, whichever that is by then.
Refuse(u) ==
    /\ up /\ request[u].tab # NoTab /\ by[u] = NoTab /\ ~guard(u)
    /\ request' = [request EXCEPT ![u] = NoRequest]
    /\ cookie' = IF request[u].cookie \in alive THEN cookie ELSE 0
    /\ UNCHANGED <<vars, issued, owner, alive, answer, csrf, by>>

\* Sessions are kept in memory only, and a request is not sent again.
Restart ==
    /\ alive' = {}
    /\ request' = [u \in Updates |->
                      IF upc[u] = "new" THEN NoRequest ELSE request[u]]
    /\ by' = [u \in Updates |-> IF upc[u] = "new" THEN NoTab ELSE by[u]]
    /\ UNCHANGED <<issued, owner, cookie, answer, csrf>>

EditorNext ==
    \/ \E t \in Tabs : \/ Exchange(t) \/ SetCookie(t)
                       \/ \E u \in Updates : Send(t, u)
    \/ \E i \in alive : Expire(i)
    \/ \E u \in Updates :
        \/ Admit(u) \/ Refuse(u) \/ EditorBegin(u)
        \/ UpdateStep(u) /\ UNCHANGED <<auth, request, by>>
    \/ (Crash \/ PowerLoss) /\ Restart
    \/ (RunStarts \/ WakeUp \/ Look \/ Leave \/ Open \/ WriteBack)
        /\ UNCHANGED <<auth, request, by>>

EditorSpec == EditorInit /\ [][EditorNext]_all

----------------------------------------------------------------------------

\* A change goes into the file under the name of whoever made it, although
\* the tabs of a browser send each other's cookies: the token ties a tab to
\* the session that it signed in to.
Authored == \A u \in Updates : by[u] # NoTab => by[u] = request[u].tab
=============================================================================
