------------------------------ MODULE Sessions ------------------------------
(* One account, signed in from the tabs of one browser.  The server keeps   *)
(* the account and one row per live refresh token (auth_tokens/services.py);*)
(* the tabs share the cookies, the tabs of one site share localStorage, and *)
(* each tab sends its requests through authFetch.ts, which refreshes the    *)
(* cookies once per tab at a time.  Requests and answers take time: a       *)
(* request carries the cookies of the moment it was sent, an answer sets    *)
(* cookies at the moment it arrives, and either may be lost.                *)
EXTENDS Naturals, FiniteSets

CONSTANTS
  Tabs,       \* the open tabs
  Calls,      \* the requests for the own account a page may have open
  Layouts,    \* which client each tab runs, and the tab of each call
  MaxActs     \* bound: what users, admins, losses and the clock do in a behaviour

Sites == {"user", "admin"}

ASSUME LayoutsAssumption ==
  Layouts \subseteq [site : [Tabs -> Sites], tabOf : [Calls -> Tabs]]

ASSUME MaxActsAssumption == MaxActs \in Nat

VARIABLES
  site,       \* which client each tab runs
  tabOf,      \* the tab of each call
  status,     \* accounts.User.status
  active,     \* accounts.User.is_active
  rows,       \* RefreshToken rows: the token and the sign-in it descends from
  issued,     \* how many refresh tokens were issued; they are numbered
  withdrawal, \* the withdraw request being served, and the rows it has seen
  moderation, \* the block or unblock request being served
  jar,        \* the cookies of the browser
  stored,     \* does localStorage of a site hold a user
  view,       \* what useAuthSession tells the page of a tab
  notified,   \* tabs with a storage event to handle
  call,       \* the requests
  refresh,    \* refreshPromise of each tab
  login,      \* the Kakao sign-in of each tab
  logout,     \* the logout request of each tab
  acts,       \* how much of the bound is used
  signedOut   \* the user logged out and has not asked to sign in since

server == <<status, active, rows, issued, withdrawal, moderation>>
client == <<jar, stored, view, notified, call, signedOut>>
places == <<site, tabOf>>
fixed  == <<places, acts>>
vars   == <<fixed, server, client, refresh, login, logout>>

NoToken  == 0
Statuses == {"ACTIVE", "BLOCKED", "WITHDRAWN"}
Row      == [id : Nat, signin : Nat]
Idle     == [at |-> "idle", kind |-> "mount", mounted |-> FALSE, auth |-> FALSE,
             retried |-> FALSE, answer |-> "none"]
Quiet    == [at |-> "none", token |-> NoToken, signin |-> 0]
Asked    == [Quiet EXCEPT !.at = "sent"]

----------------------------------------------------------------------------
(* The server.                                                              *)

Act == acts < MaxActs /\ acts' = acts + 1

\* select_for_update holds the row, and the user it joins, until the commit.
BugNoLock == {}
LockedIds == { refresh[t].token : t \in { u \in Tabs : refresh[u].at = "locked" } }

MayHoldTokens == status = "ACTIVE" /\ active

Answer(t, auth) ==
  IF ~auth \/ ~active THEN "denied"
  ELSE IF site[t] = "user" /\ status # "ACTIVE" THEN "forbidden" ELSE "ok"

\* refresh_tokens up to the delete: the row is locked, the account checked.
RefreshBegin(t) ==
  /\ refresh[t].at = "sent"
  /\ refresh[t].token \notin LockedIds
  /\ \/ \E r \in rows :
          /\ r.id = refresh[t].token /\ MayHoldTokens
          /\ refresh' = [refresh EXCEPT ![t] = [at |-> "locked", token |-> r.id, signin |-> r.signin]]
     \/ /\ ~(MayHoldTokens /\ \E r \in rows : r.id = refresh[t].token)
        /\ refresh' = [refresh EXCEPT ![t].at = "refused"]
  /\ UNCHANGED <<fixed, server, client, login, logout>>

\* The row is replaced by one for the token that the answer carries.
RefreshCommit(t) ==
  /\ refresh[t].at = "locked"
  /\ rows' = { r \in rows : r.id # refresh[t].token }
             \cup {[id |-> issued + 1, signin |-> refresh[t].signin]}
  /\ issued' = issued + 1
  /\ refresh' = [refresh EXCEPT ![t].at = "granted", ![t].token = issued + 1]
  /\ UNCHANGED <<fixed, status, active, withdrawal, moderation, client, login, logout>>

Serve(c) ==
  /\ call[c].at = "sent"
  /\ call' = [call EXCEPT ![c].at = "answered",
                          ![c].answer = Answer(tabOf[c], call[c].auth)]
  /\ UNCHANGED <<fixed, server, jar, stored, view, notified, signedOut, refresh, login, logout>>

\* The callback reads the account and issues tokens in a later transaction.
LoginCheck(t) ==
  /\ login[t].at = "sent"
  /\ login' = [login EXCEPT ![t] = IF MayHoldTokens THEN [Quiet EXCEPT !.at = "checked"] ELSE Quiet]
  /\ UNCHANGED <<fixed, server, client, refresh, logout>>

LoginIssue(t) ==
  /\ login[t].at = "checked"
  /\ rows' = rows \cup {[id |-> issued + 1, signin |-> issued + 1]}
  /\ issued' = issued + 1
  /\ login' = [login EXCEPT ![t] = [Quiet EXCEPT !.at = "issued", !.token = issued + 1]]
  /\ UNCHANGED <<fixed, status, active, withdrawal, moderation, client, refresh, logout>>

\* With cookies the request is anonymous: only the row of its token goes.
LogoutServe(t) ==
  /\ logout[t].at = "sent"
  /\ logout[t].token \notin LockedIds
  /\ rows' = { r \in rows : r.id # logout[t].token }
  /\ logout' = [logout EXCEPT ![t].at = "served"]
  /\ UNCHANGED <<fixed, status, active, issued, withdrawal, moderation, client, refresh, login>>

\* The delete of withdraw sees the rows there are when it starts, waits for
\* the locks, and does not see a row that a refresh or sign-in adds meanwhile.
WithdrawBegin ==
  /\ withdrawal.at = "none" /\ active
  /\ withdrawal' = [at |-> "deleting", seen |-> rows]
  /\ Act
  /\ UNCHANGED <<places, status, active, rows, issued, moderation, client, refresh, login, logout>>

WithdrawCommit ==
  /\ withdrawal.at = "deleting" /\ LockedIds = {}
  /\ rows' = rows \ withdrawal.seen
  /\ status' = "WITHDRAWN" /\ active' = FALSE
  /\ withdrawal' = [at |-> "done", seen |-> {}]
  /\ UNCHANGED <<fixed, issued, moderation, client, refresh, login, logout>>

\* block_user and unblock_user read the account and write its status later.
ModerateBegin(to) ==
  /\ moderation = "none" /\ active
  /\ IF to = "BLOCKED" THEN status # "BLOCKED" ELSE status = "BLOCKED"
  /\ moderation' = to
  /\ Act
  /\ UNCHANGED <<places, status, active, rows, issued, withdrawal, client, refresh, login, logout>>

BugSaveWholeUser == [status |-> moderation, active |-> TRUE]
BugSaveLabel     == [status |-> "blocked", active |-> active]
Moderated        == [status |-> moderation, active |-> active]

ModerateSave ==
  /\ moderation # "none" /\ LockedIds = {}
  /\ status' = Moderated.status /\ active' = Moderated.active
  /\ moderation' = "none"
  /\ UNCHANGED <<fixed, rows, issued, withdrawal, client, refresh, login, logout>>

----------------------------------------------------------------------------
(* The browser.                                                             *)

\* Writing localStorage tells the tab at once and the site's other tabs later.
Store(t, user) ==
  /\ stored' = [stored EXCEPT ![site[t]] = user]
  /\ view' = [view EXCEPT ![t] = [in |-> user, loading |-> FALSE]]
  /\ notified' = IF stored[site[t]] = user THEN notified
                 ELSE notified \cup { u \in Tabs \ {t} : site[u] = site[t] }

BugForgetSilently(t) ==
  /\ stored' = [stored EXCEPT ![site[t]] = FALSE]
  /\ UNCHANGED <<view, notified>>

Forget(t) == Store(t, FALSE)

Sync(t) ==
  /\ t \in notified
  /\ view' = [view EXCEPT ![t] = [in |-> stored[site[t]], loading |-> FALSE]]
  /\ notified' = notified \ {t}
  /\ UNCHANGED <<fixed, server, jar, stored, call, signedOut, refresh, login, logout>>

Sent(kind) == [at |-> "sent", kind |-> kind, mounted |-> TRUE, auth |-> jar.access,
               retried |-> FALSE, answer |-> "none"]

\* The calls of a tab whose page was left: the hooks ignore their results.
Leave(t) == [k \in Calls |-> IF tabOf[k] = t THEN [call[k] EXCEPT !.mounted = FALSE]
                             ELSE call[k]]

\* A page is mounted: its useAuthSession asks the server who the user is.
Mount(c) ==
  LET t == tabOf[c]
  IN /\ call[c].at = "idle" /\ login[t].at = "none"
     /\ call' = [Leave(t) EXCEPT ![c] = Sent("mount")]
     /\ view' = [view EXCEPT ![t] = [in |-> stored[site[t]], loading |-> TRUE]]
     /\ Act
     /\ UNCHANGED <<places, server, jar, stored, notified, signedOut, refresh, login, logout>>

\* useRefreshAuthUser: the effect of a page that asks for it, or its callback.
RefreshUser(c, kind) ==
  LET t == tabOf[c]
  IN /\ call[c].at = "idle" /\ login[t].at = "none"
     /\ site[t] = "user" /\ view[t].in
     /\ call' = [call EXCEPT ![c] = Sent(kind)]
     /\ Act
     /\ UNCHANGED <<places, server, jar, stored, view, notified, signedOut, refresh, login, logout>>

\* 401: the tab's refresh is started, or the one under way is waited for.
AwaitRefresh(c) ==
  LET t == tabOf[c]
  IN /\ call[c].at = "answered" /\ call[c].answer = "denied" /\ ~call[c].retried
     /\ call' = [call EXCEPT ![c].at = "waiting"]
     /\ refresh' = IF refresh[t].at # "none" THEN refresh
                   ELSE [refresh EXCEPT ![t] = [Asked EXCEPT !.token = jar.refresh]]
     /\ UNCHANGED <<fixed, server, jar, stored, view, notified, signedOut, login, logout>>

Waiting(t) == { c \in Calls : tabOf[c] = t /\ call[c].at = "waiting" }

\* What the calls that waited do next: sent again, or failed.
Resume(t, auth, answer) ==
  [c \in Calls |->
     IF c \notin Waiting(t) THEN call[c]
     ELSE [call[c] EXCEPT !.retried = TRUE, !.auth = auth, !.answer = answer,
                          !.at = IF answer = "none" THEN "sent" ELSE "answered"]]

RefreshGranted(t) ==
  /\ refresh[t].at = "granted"
  /\ jar' = [access |-> TRUE, refresh |-> refresh[t].token]
  /\ call' = Resume(t, TRUE, "none")
  /\ refresh' = [refresh EXCEPT ![t] = Quiet]
  /\ UNCHANGED <<fixed, server, stored, view, notified, signedOut, login, logout>>

RefreshRefused(t) ==
  /\ refresh[t].at = "refused"
  /\ call' = Resume(t, FALSE, "denied")
  /\ Forget(t)
  /\ refresh' = [refresh EXCEPT ![t] = Quiet]
  /\ UNCHANGED <<fixed, server, jar, signedOut, login, logout>>

BugForgetWaiters(t) == call
WakeAfterLoss(t)    == Resume(t, FALSE, "lost")

\* The promise rejects; the answer may be lost after the server committed.
RefreshLost(t) ==
  /\ refresh[t].at \in {"sent", "granted", "refused"}
  /\ call' = WakeAfterLoss(t)
  /\ refresh' = [refresh EXCEPT ![t] = Quiet]
  /\ Act
  /\ UNCHANGED <<places, server, jar, stored, view, notified, signedOut, login, logout>>

Lose(c) ==
  /\ call[c].at \in {"sent", "answered"} /\ call[c].answer # "lost"
  /\ call' = [call EXCEPT ![c].at = "answered", ![c].answer = "lost"]
  /\ Act
  /\ UNCHANGED <<places, server, jar, stored, view, notified, signedOut, refresh, login, logout>>

\* The page gets its answer and saves the user, or forgets it.
Saves(c) == /\ call[c].answer = "ok" /\ site[tabOf[c]] = "user"
            /\ call[c].mounted \/ call[c].kind = "pull"

Receive(c) ==
  LET t == tabOf[c]
  IN /\ call[c].at = "answered"
     /\ call[c].answer = "denied" => call[c].retried
     /\ call' = [call EXCEPT ![c] = Idle]
     /\ \/ Saves(c) /\ Store(t, TRUE)
        \/ /\ call[c].kind = "mount" /\ call[c].mounted /\ call[c].answer # "ok"
           /\ Store(t, FALSE)
        \/ /\ call[c].kind = "mount" /\ call[c].mounted /\ call[c].answer = "ok"
           /\ site[t] = "admin"
           /\ view' = [view EXCEPT ![t] = [in |-> TRUE, loading |-> FALSE]]
           /\ UNCHANGED <<stored, notified>>
        \/ /\ ~Saves(c) /\ (call[c].kind # "mount" \/ ~call[c].mounted)
           /\ UNCHANGED <<stored, view, notified>>
     /\ UNCHANGED <<fixed, server, jar, signedOut, refresh, login, logout>>

\* RequireAuth and AdminLoginPage send the browser to the Kakao login.
StartLogin(t) ==
  /\ ~view[t].in /\ ~view[t].loading
  /\ login[t].at = "none" /\ refresh[t].at = "none"
  /\ \A c \in Calls : tabOf[c] = t => call[c].at = "idle"
  /\ login' = [login EXCEPT ![t].at = "sent"]
  /\ signedOut' = FALSE
  /\ Act
  /\ UNCHANGED <<places, server, jar, stored, view, notified, call, refresh, logout>>

\* The redirect sets the cookies and loads the page, whose hook asks at once.
LoginReceive(c) ==
  LET t == tabOf[c]
  IN /\ login[t].at = "issued"
     /\ jar' = [access |-> TRUE, refresh |-> login[t].token]
     /\ login' = [login EXCEPT ![t] = Quiet]
     /\ call' = [call EXCEPT ![c] = [Sent("mount") EXCEPT !.auth = TRUE]]
     /\ view' = [view EXCEPT ![t] = [in |-> stored[site[t]], loading |-> TRUE]]
     /\ UNCHANGED <<fixed, server, stored, notified, signedOut, refresh, logout>>

\* The callback fails on the way, or its answer does.
LoginLost(t) ==
  /\ login[t].at \in {"sent", "issued"}
  /\ login' = [login EXCEPT ![t] = Quiet]
  /\ Act
  /\ UNCHANGED <<places, server, client, refresh, logout>>

\* handleLogout does not wait for the request it sends.
Logout(t) ==
  /\ site[t] = "user" /\ view[t].in /\ logout[t].at = "none"
  /\ logout' = [logout EXCEPT ![t] = [Asked EXCEPT !.token = jar.refresh]]
  /\ Forget(t)
  /\ signedOut' = TRUE
  /\ Act
  /\ UNCHANGED <<places, server, jar, call, refresh, login>>

LogoutReceive(t) ==
  /\ logout[t].at = "served"
  /\ jar' = [access |-> FALSE, refresh |-> NoToken]
  /\ logout' = [logout EXCEPT ![t] = Quiet]
  /\ UNCHANGED <<fixed, server, stored, view, notified, call, signedOut, refresh, login>>

LogoutLost(t) ==
  /\ logout[t].at # "none"
  /\ logout' = [logout EXCEPT ![t] = Quiet]
  /\ Act
  /\ UNCHANGED <<places, server, client, refresh, login>>

\* The access cookie lives as long as the token in it.
AccessExpires ==
  /\ jar.access
  /\ jar' = [jar EXCEPT !.access = FALSE]
  /\ Act
  /\ UNCHANGED <<places, server, stored, view, notified, call, signedOut, refresh, login, logout>>

----------------------------------------------------------------------------

Init ==
  /\ \E l \in Layouts : site = l.site /\ tabOf = l.tabOf
  /\ status = "ACTIVE" /\ active = TRUE
  /\ rows = {[id |-> 1, signin |-> 1]} /\ issued = 1
  /\ withdrawal = [at |-> "none", seen |-> {}] /\ moderation = "none"
  /\ jar = [access |-> TRUE, refresh |-> 1]
  /\ stored = [s \in Sites |-> s = "user"]
  /\ view = [t \in Tabs |-> [in |-> stored[site[t]], loading |-> FALSE]]
  /\ notified = {} /\ signedOut = FALSE /\ acts = 0
  /\ call = [c \in Calls |-> Idle]
  /\ refresh = [t \in Tabs |-> Quiet]
  /\ login = [t \in Tabs |-> Quiet]
  /\ logout = [t \in Tabs |-> Quiet]

ServerNext ==
  \/ \E t \in Tabs : \/ RefreshBegin(t) \/ RefreshCommit(t)
                     \/ LoginCheck(t) \/ LoginIssue(t) \/ LogoutServe(t)
  \/ \E c \in Calls : Serve(c)

AccountNext ==
  \/ WithdrawBegin \/ WithdrawCommit
  \/ \E to \in {"BLOCKED", "ACTIVE"} : ModerateBegin(to)
  \/ ModerateSave

BrowserNext ==
  \/ \E t \in Tabs : \/ Sync(t) \/ RefreshGranted(t) \/ RefreshRefused(t)
                     \/ RefreshLost(t) \/ StartLogin(t) \/ LoginLost(t) \/ Logout(t)
                     \/ LogoutReceive(t) \/ LogoutLost(t)
  \/ \E c \in Calls : \/ Mount(c) \/ AwaitRefresh(c) \/ Lose(c) \/ Receive(c)
                      \/ LoginReceive(c)
                      \/ \E kind \in {"effect", "pull"} : RefreshUser(c, kind)
  \/ AccessExpires

Next == ServerNext \/ AccountNext \/ BrowserNext

\* The server answers and the browser handles what it is given; users, admins,
\* losses and the clock owe nothing.
Fairness ==
  /\ \A t \in Tabs : /\ WF_vars(RefreshBegin(t)) /\ WF_vars(RefreshCommit(t))
                     /\ WF_vars(RefreshGranted(t)) /\ WF_vars(RefreshRefused(t))
  /\ \A c \in Calls : WF_vars(Serve(c)) /\ WF_vars(AwaitRefresh(c)) /\ WF_vars(Receive(c))

Spec     == Init /\ [][Next]_vars
FairSpec == Spec /\ Fairness

----------------------------------------------------------------------------
(* Properties.                                                              *)

ServerTypeOK ==
  /\ status \in Statuses /\ active \in BOOLEAN
  /\ rows \subseteq Row /\ issued \in Nat
  /\ withdrawal \in [at : {"none", "deleting", "done"}, seen : SUBSET Row]
  /\ moderation \in {"none", "BLOCKED", "ACTIVE"}

ClientTypeOK ==
  /\ jar \in [access : BOOLEAN, refresh : Nat]
  /\ stored \in [Sites -> BOOLEAN]
  /\ view \in [Tabs -> [in : BOOLEAN, loading : BOOLEAN]]
  /\ notified \subseteq Tabs /\ signedOut \in BOOLEAN

Request == [at : {"idle", "sent", "answered", "waiting"},
            kind : {"mount", "effect", "pull"}, mounted : BOOLEAN,
            auth : BOOLEAN, retried : BOOLEAN,
            answer : {"none", "ok", "denied", "forbidden", "lost"}]

Exchange(steps) == [at : {"none", "sent"} \cup steps, token : Nat, signin : Nat]

RequestsTypeOK ==
  /\ call \in [Calls -> Request]
  /\ refresh \in [Tabs -> Exchange({"locked", "granted", "refused"})]
  /\ login \in [Tabs -> Exchange({"checked", "issued"})]
  /\ logout \in [Tabs -> Exchange({"served"})]

TypeOK == ServerTypeOK /\ ClientTypeOK /\ RequestsTypeOK

(* However many tabs refresh with the same cookie, and whatever logout and *)
(* withdraw delete meanwhile, a sign-in never has two live refresh tokens: *)
(* refresh_tokens exchanges a row for one new row, once.                   *)
OneLiveTokenPerSignIn ==
  \A r, s \in rows : r.signin = s.signin => r = s

(* After withdraw committed, no request is answered as the account's and no*)
(* refresh is accepted, even when an admin who read the account before     *)
(* saves its status over the withdrawal (block_user, unblock_user).        *)
WithdrawnStaysOut ==
  [][withdrawal.at = "done" =>
       /\ \A c \in Calls : call'[c].answer = "ok" => call[c].answer = "ok"
       /\ \A t \in Tabs : refresh'[t].at = "locked" => refresh[t].at = "locked"]_vars

(* A tab of the user site that has handled its storage events shows the    *)
(* session localStorage holds: whoever writes it tells every tab.          *)
TabsAgree ==
  \A t \in Tabs : site[t] = "user" /\ t \notin notified => view[t].in = stored["user"]

(* Every request for the account ends in its page, whether its answer is   *)
(* 401 and the refresh it then waits for is granted, refused or lost.      *)
EveryCallEnds ==
  \A c \in Calls : call[c].at # "idle" ~> call[c].at = "idle"
=============================================================================
