--------------------------- MODULE SessionsProofs ---------------------------
(* What Sessions guarantees for any number of tabs and calls, any layout of *)
(* the tabs over the two sites and any bound on the acts.                   *)
EXTENDS Sessions, TLAPS

\* The clients of the tabs and the tabs of the calls never change.
PlacesOK == site \in [Tabs -> Sites] /\ tabOf \in [Calls -> Tabs]

Typed == PlacesOK /\ TypeOK

\* What Store writes is well typed.
LEMMA StoreType ==
  ASSUME PlacesOK, ClientTypeOK, NEW t \in Tabs, NEW user \in BOOLEAN, Store(t, user)
  PROVE  /\ stored' \in [Sites -> BOOLEAN]
         /\ view' \in [Tabs -> [in : BOOLEAN, loading : BOOLEAN]]
         /\ notified' \subseteq Tabs
BY DEF Store, PlacesOK, ClientTypeOK

\* A request keeps its type when the call that sent it goes on.
LEMMA ResumeType ==
  ASSUME PlacesOK, RequestsTypeOK, NEW t \in Tabs, NEW auth \in BOOLEAN,
         NEW answer \in {"none", "denied", "lost"}
  PROVE  Resume(t, auth, answer) \in [Calls -> Request]
<1>1. ASSUME NEW c \in Calls
      PROVE  [call[c] EXCEPT !.retried = TRUE, !.auth = auth, !.answer = answer,
                             !.at = IF answer = "none" THEN "sent" ELSE "answered"] \in Request
  BY <1>1 DEF RequestsTypeOK, Request
<1>2. \A c \in Calls : call[c] \in Request
  BY DEF RequestsTypeOK
<1>. QED  BY <1>1, <1>2 DEF Resume

\* What the server, the account's owner and the admins do is well typed.
LEMMA ServerTyped ==
  ASSUME Typed, ServerNext \/ AccountNext
  PROVE  Typed'
<1>. USE DEF Typed, PlacesOK, TypeOK, fixed, places
<1>1. ASSUME NEW t \in Tabs, RefreshBegin(t)  PROVE  Typed'
  <2>1. refresh' \in [Tabs -> Exchange({"locked", "granted", "refused"})]
    <3>1. ASSUME NEW r \in rows
          PROVE  [at |-> "locked", token |-> r.id, signin |-> r.signin]
                   \in Exchange({"locked", "granted", "refused"})
      BY <3>1 DEF ServerTypeOK, Row, Exchange
    <3>2. [refresh[t] EXCEPT !.at = "refused"] \in Exchange({"locked", "granted", "refused"})
      BY DEF RequestsTypeOK, Exchange
    <3>. QED  BY <1>1, <3>1, <3>2 DEF RefreshBegin, RequestsTypeOK
  <2>. QED  BY <1>1, <2>1 DEF RefreshBegin, server, client, ServerTypeOK, ClientTypeOK, RequestsTypeOK
<1>2. ASSUME NEW t \in Tabs, RefreshCommit(t)  PROVE  Typed'
  <2>1. issued + 1 \in Nat /\ refresh[t] \in Exchange({"locked", "granted", "refused"})
    BY DEF ServerTypeOK, RequestsTypeOK
  <2>2. rows' \subseteq Row /\ issued' \in Nat
    BY <1>2, <2>1 DEF RefreshCommit, ServerTypeOK, Row, Exchange
  <2>3. refresh' = [refresh EXCEPT ![t] = [refresh[t] EXCEPT !.at = "granted", !.token = issued + 1]]
    BY <1>2 DEF RefreshCommit, RequestsTypeOK
  <2>4. [refresh[t] EXCEPT !.at = "granted", !.token = issued + 1]
          \in Exchange({"locked", "granted", "refused"})
    BY <2>1 DEF Exchange
  <2>5. refresh' \in [Tabs -> Exchange({"locked", "granted", "refused"})]
    BY <2>3, <2>4 DEF RequestsTypeOK
  <2>. QED  BY <1>2, <2>2, <2>5 DEF RefreshCommit, client, ServerTypeOK, ClientTypeOK, RequestsTypeOK
<1>3. ASSUME NEW t \in Tabs, LoginCheck(t)  PROVE  Typed'
  BY <1>3 DEF LoginCheck, Quiet, NoToken, server, client, ServerTypeOK, ClientTypeOK, RequestsTypeOK, Exchange
<1>4. ASSUME NEW t \in Tabs, LoginIssue(t)  PROVE  Typed'
  <2>1. issued + 1 \in Nat
    BY DEF ServerTypeOK
  <2>2. rows' \subseteq Row /\ issued' \in Nat
    BY <1>4, <2>1 DEF LoginIssue, ServerTypeOK, Row
  <2>3. [Quiet EXCEPT !.at = "issued", !.token = issued + 1] \in Exchange({"checked", "issued"})
    BY <2>1 DEF Exchange, Quiet, NoToken
  <2>4. login' \in [Tabs -> Exchange({"checked", "issued"})]
    BY <1>4, <2>3 DEF LoginIssue, RequestsTypeOK
  <2>. QED  BY <1>4, <2>2, <2>4 DEF LoginIssue, client, ServerTypeOK, ClientTypeOK, RequestsTypeOK
<1>5. ASSUME NEW t \in Tabs, LogoutServe(t)  PROVE  Typed'
  BY <1>5 DEF LogoutServe, client, ServerTypeOK, ClientTypeOK, RequestsTypeOK, Exchange
<1>6. ASSUME NEW c \in Calls, Serve(c)  PROVE  Typed'
  <2>1. Answer(tabOf[c], call[c].auth) \in {"ok", "denied", "forbidden"}
    BY DEF Answer
  <2>2. [call[c] EXCEPT !.at = "answered", !.answer = Answer(tabOf[c], call[c].auth)] \in Request
    BY <2>1 DEF RequestsTypeOK, Request
  <2>3. call' = [call EXCEPT ![c] = [call[c] EXCEPT !.at = "answered",
                                       !.answer = Answer(tabOf[c], call[c].auth)]]
    BY <1>6 DEF Serve, RequestsTypeOK
  <2>4. call' \in [Calls -> Request]
    BY <2>2, <2>3 DEF RequestsTypeOK
  <2>. QED  BY <1>6, <2>4 DEF Serve, server, ServerTypeOK, ClientTypeOK, RequestsTypeOK
<1>7. CASE WithdrawBegin
  BY <1>7 DEF WithdrawBegin, client, ServerTypeOK, ClientTypeOK, RequestsTypeOK
<1>8. CASE WithdrawCommit
  BY <1>8 DEF WithdrawCommit, client, ServerTypeOK, ClientTypeOK, RequestsTypeOK, Statuses
<1>9. ASSUME NEW to \in {"BLOCKED", "ACTIVE"}, ModerateBegin(to)  PROVE  Typed'
  BY <1>9 DEF ModerateBegin, client, ServerTypeOK, ClientTypeOK, RequestsTypeOK
<1>10. CASE ModerateSave
  BY <1>10 DEF ModerateSave, Moderated, client, ServerTypeOK, ClientTypeOK, RequestsTypeOK, Statuses
<1>. QED
  BY <1>1, <1>2, <1>3, <1>4, <1>5, <1>6, <1>7, <1>8, <1>9, <1>10 DEF ServerNext, AccountNext

\* What the browser does is well typed.
LEMMA BrowserTyped ==
  ASSUME Typed, BrowserNext
  PROVE  Typed'
<1>. USE DEF Typed, PlacesOK, TypeOK, fixed, places
<1>1. ASSUME NEW t \in Tabs, Sync(t)  PROVE  Typed'
  BY <1>1 DEF Sync, server, ServerTypeOK, ClientTypeOK, RequestsTypeOK
<1>2. ASSUME NEW t \in Tabs, RefreshGranted(t)  PROVE  Typed'
  BY <1>2, ResumeType DEF RefreshGranted, server, Quiet, NoToken, ServerTypeOK, ClientTypeOK, RequestsTypeOK, Exchange
<1>3. ASSUME NEW t \in Tabs, RefreshRefused(t)  PROVE  Typed'
  BY <1>3, ResumeType, StoreType DEF RefreshRefused, Forget, server, Quiet, NoToken, ServerTypeOK, ClientTypeOK, RequestsTypeOK, Exchange
<1>4. ASSUME NEW t \in Tabs, RefreshLost(t)  PROVE  Typed'
  BY <1>4, ResumeType DEF RefreshLost, WakeAfterLoss, server, Quiet, NoToken, ServerTypeOK, ClientTypeOK, RequestsTypeOK, Exchange
<1>5. ASSUME NEW t \in Tabs, StartLogin(t)  PROVE  Typed'
  <2>1. [login[t] EXCEPT !.at = "sent"] \in Exchange({"checked", "issued"})
    BY DEF RequestsTypeOK, Exchange
  <2>2. login' \in [Tabs -> Exchange({"checked", "issued"})]
    BY <1>5, <2>1 DEF StartLogin, RequestsTypeOK
  <2>. QED  BY <1>5, <2>2 DEF StartLogin, server, ServerTypeOK, ClientTypeOK, RequestsTypeOK
<1>6. ASSUME NEW t \in Tabs, LoginLost(t)  PROVE  Typed'
  BY <1>6 DEF LoginLost, server, client, Quiet, NoToken, ServerTypeOK, ClientTypeOK, RequestsTypeOK, Exchange
<1>7. ASSUME NEW t \in Tabs, Logout(t)  PROVE  Typed'
  BY <1>7, StoreType DEF Logout, Forget, Asked, Quiet, NoToken, server, ServerTypeOK, ClientTypeOK, RequestsTypeOK, Exchange
<1>8. ASSUME NEW t \in Tabs, LogoutReceive(t)  PROVE  Typed'
  BY <1>8 DEF LogoutReceive, server, Quiet, NoToken, ServerTypeOK, ClientTypeOK, RequestsTypeOK, Exchange
<1>9. ASSUME NEW t \in Tabs, LogoutLost(t)  PROVE  Typed'
  BY <1>9 DEF LogoutLost, server, client, Quiet, NoToken, ServerTypeOK, ClientTypeOK, RequestsTypeOK, Exchange
<1>10. ASSUME NEW c \in Calls, Mount(c)  PROVE  Typed'
  <2>1. Sent("mount") \in Request
    BY DEF Sent, ClientTypeOK, Request
  <2>2. \A k \in Calls : call[k] \in Request /\ [call[k] EXCEPT !.mounted = FALSE] \in Request
    BY DEF RequestsTypeOK, Request
  <2>3. Leave(tabOf[c]) \in [Calls -> Request]
    BY <2>2 DEF Leave
  <2>4. call' \in [Calls -> Request]
    BY <1>10, <2>1, <2>3 DEF Mount
  <2>5. view' \in [Tabs -> [in : BOOLEAN, loading : BOOLEAN]]
    BY <1>10 DEF Mount, ClientTypeOK
  <2>. QED  BY <1>10, <2>4, <2>5 DEF Mount, server, ServerTypeOK, ClientTypeOK, RequestsTypeOK
<1>11. ASSUME NEW c \in Calls, AwaitRefresh(c)  PROVE  Typed'
  <2>1. [call[c] EXCEPT !.at = "waiting"] \in Request
    BY DEF RequestsTypeOK, Request
  <2>2. call' \in [Calls -> Request]
    BY <1>11, <2>1 DEF AwaitRefresh, RequestsTypeOK
  <2>3. [Asked EXCEPT !.token = jar.refresh] \in Exchange({"locked", "granted", "refused"})
    BY DEF Asked, Quiet, NoToken, ClientTypeOK, Exchange
  <2>4. refresh' \in [Tabs -> Exchange({"locked", "granted", "refused"})]
    BY <1>11, <2>3 DEF AwaitRefresh, RequestsTypeOK
  <2>. QED  BY <1>11, <2>2, <2>4 DEF AwaitRefresh, server, ServerTypeOK, ClientTypeOK, RequestsTypeOK
<1>12. ASSUME NEW c \in Calls, Lose(c)  PROVE  Typed'
  BY <1>12 DEF Lose, server, ServerTypeOK, ClientTypeOK, RequestsTypeOK, Request
<1>13. ASSUME NEW c \in Calls, Receive(c)  PROVE  Typed'
  <2>1. Idle \in Request
    BY DEF Idle, Request
  <2>2. call' \in [Calls -> Request]
    BY <1>13, <2>1 DEF Receive, RequestsTypeOK
  <2>3. /\ stored' \in [Sites -> BOOLEAN] /\ notified' \subseteq Tabs
        /\ view' \in [Tabs -> [in : BOOLEAN, loading : BOOLEAN]]
    <3>1. CASE Store(tabOf[c], TRUE) \/ Store(tabOf[c], FALSE)
      BY <3>1, StoreType
    <3>2. CASE /\ view' = [view EXCEPT ![tabOf[c]] = [in |-> TRUE, loading |-> FALSE]]
               /\ UNCHANGED <<stored, notified>>
      BY <3>2 DEF ClientTypeOK
    <3>3. CASE UNCHANGED <<stored, view, notified>>
      BY <3>3 DEF ClientTypeOK
    <3>. QED  BY <1>13, <3>1, <3>2, <3>3 DEF Receive
  <2>. QED  BY <1>13, <2>2, <2>3 DEF Receive, server, ServerTypeOK, ClientTypeOK, RequestsTypeOK
<1>14. ASSUME NEW c \in Calls, LoginReceive(c)  PROVE  Typed'
  BY <1>14 DEF LoginReceive, Sent, Quiet, NoToken, server, ServerTypeOK, ClientTypeOK, RequestsTypeOK, Exchange, Request
<1>15. ASSUME NEW c \in Calls, NEW kind \in {"effect", "pull"}, RefreshUser(c, kind)  PROVE  Typed'
  BY <1>15 DEF RefreshUser, Sent, server, ServerTypeOK, ClientTypeOK, RequestsTypeOK, Request
<1>16. CASE AccessExpires
  BY <1>16 DEF AccessExpires, server, ServerTypeOK, ClientTypeOK, RequestsTypeOK
<1>. QED
  BY <1>1, <1>2, <1>3, <1>4, <1>5, <1>6, <1>7, <1>8, <1>9, <1>10, <1>11, <1>12, <1>13, <1>14,
     <1>15, <1>16 DEF BrowserNext

\* The state the browser opens in is well typed.
LEMMA InitTyped ==
  ASSUME Init
  PROVE  Typed
<1>1. PlacesOK
  BY LayoutsAssumption DEF Init, PlacesOK
<1>2. ServerTypeOK
  BY DEF Init, ServerTypeOK, Statuses, Row
<1>3. ClientTypeOK
  BY <1>1 DEF Init, ClientTypeOK, PlacesOK
<1>4. RequestsTypeOK
  BY DEF Init, RequestsTypeOK, Request, Exchange, Idle, Quiet, NoToken
<1>. QED  BY <1>1, <1>2, <1>3, <1>4 DEF Typed, TypeOK

----------------------------------------------------------------------------
(* Tokens.                                                                  *)

\* Tokens and sign-ins are numbered as they are issued, a row has both for
\* itself, and the row of a token being exchanged is there and held by one tab.
TokensOK ==
  /\ \A r \in rows : r.id <= issued /\ r.signin <= issued
  /\ \A r, s \in rows : r.id = s.id => r = s
  /\ OneLiveTokenPerSignIn
  /\ \A t \in Tabs : refresh[t].at = "locked" =>
        [id |-> refresh[t].token, signin |-> refresh[t].signin] \in rows
  /\ \A t, u \in Tabs : /\ refresh[t].at = "locked" /\ refresh[u].at = "locked"
                         /\ refresh[t].token = refresh[u].token
                         => t = u

LEMMA TokensUntouched ==
  ASSUME Typed, TokensOK, rows' \subseteq rows, issued' = issued,
         \A t \in Tabs : refresh'[t].at = "locked" =>
           /\ refresh'[t] = refresh[t]
           /\ [id |-> refresh[t].token, signin |-> refresh[t].signin] \in rows'
  PROVE  TokensOK'
BY DEF TokensOK, OneLiveTokenPerSignIn

\* A refresh locks a row no other refresh has locked, and a commit exchanges
\* the locked row for one with a number of its own.
LEMMA ServerTokens ==
  ASSUME Typed, TokensOK, ServerNext \/ AccountNext
  PROVE  TokensOK'
<1>. DEFINE Held(t) == [id |-> refresh[t].token, signin |-> refresh[t].signin]
<1>0. /\ \A r \in rows : r.id \in Nat /\ r.signin \in Nat /\ r = [id |-> r.id, signin |-> r.signin]
      /\ issued \in Nat /\ \A t \in Tabs : refresh[t].token \in Nat /\ refresh[t].signin \in Nat
  BY DEF Typed, TypeOK, ServerTypeOK, RequestsTypeOK, Row, Exchange
<1>1. ASSUME NEW t \in Tabs, RefreshBegin(t)  PROVE  TokensOK'
  <2>1. CASE /\ refresh' = [refresh EXCEPT ![t].at = "refused"] /\ UNCHANGED <<rows, issued>>
    <3>1. \A u \in Tabs : refresh'[u].at = "locked" => u # t /\ refresh'[u] = refresh[u]
      BY <2>1 DEF Typed, TypeOK, RequestsTypeOK, Exchange
    <3>. QED  BY <2>1, <3>1, TokensUntouched DEF TokensOK
  <2>2. ASSUME NEW r \in rows, refresh[t].token \notin LockedIds, r.id = refresh[t].token,
               refresh' = [refresh EXCEPT ![t] = [at |-> "locked", token |-> r.id, signin |-> r.signin]],
               UNCHANGED <<rows, issued>>
        PROVE  TokensOK'
    <3>1. /\ refresh'[t] = [at |-> "locked", token |-> r.id, signin |-> r.signin]
          /\ \A u \in Tabs \ {t} : refresh'[u] = refresh[u]
      BY <2>2 DEF Typed, TypeOK, RequestsTypeOK
    <3>2. \A u \in Tabs \ {t} : refresh[u].at = "locked" => refresh[u].token # r.id
      BY <2>2 DEF LockedIds
    <3>3. [id |-> refresh'[t].token, signin |-> refresh'[t].signin] \in rows
      BY <1>0, <3>1
    <3>. QED  BY <2>2, <3>1, <3>2, <3>3 DEF TokensOK, OneLiveTokenPerSignIn
  <2>. QED  BY <1>1, <2>1, <2>2 DEF RefreshBegin, server
<1>2. ASSUME NEW t \in Tabs, RefreshCommit(t)  PROVE  TokensOK'
  <2>. DEFINE new == [id |-> issued + 1, signin |-> refresh[t].signin]
  <2>1. /\ rows' = { r \in rows : r.id # refresh[t].token } \cup {new} /\ issued' = issued + 1
        /\ refresh[t].at = "locked" /\ Held(t) \in rows
    BY <1>2 DEF RefreshCommit, TokensOK
  <2>2. /\ refresh'[t].at = "granted" /\ \A u \in Tabs \ {t} : refresh'[u] = refresh[u]
    BY <1>2 DEF RefreshCommit, Typed, TypeOK, RequestsTypeOK, Exchange
  <2>3. \A r \in rows : r.id # refresh[t].token => r.signin # refresh[t].signin
    BY <2>1 DEF TokensOK, OneLiveTokenPerSignIn
  <2>4. \A r \in rows' : r.id <= issued' /\ r.signin <= issued'
    <3>1. refresh[t].signin <= issued
      BY <2>1 DEF TokensOK
    <3>. QED  BY <1>0, <2>1, <3>1 DEF TokensOK
  <2>5. \A r, s \in rows' : r.id = s.id => r = s
    <3>1. \A r \in rows : r.id # new.id
      BY <1>0 DEF TokensOK
    <3>. QED  BY <2>1, <3>1 DEF TokensOK
  <2>6. OneLiveTokenPerSignIn'
    BY <2>1, <2>3 DEF TokensOK, OneLiveTokenPerSignIn
  <2>7. \A u \in Tabs : refresh'[u].at = "locked" =>
          u # t /\ refresh[u].at = "locked" /\ refresh'[u] = refresh[u]
    BY <2>2
  <2>8. \A u \in Tabs : u # t /\ refresh[u].at = "locked" => Held(u) \in rows'
    BY <1>0, <2>1 DEF TokensOK
  <2>. QED  BY <2>4, <2>5, <2>6, <2>7, <2>8 DEF TokensOK
<1>3. ASSUME NEW t \in Tabs, LoginIssue(t)  PROVE  TokensOK'
  <2>. DEFINE new == [id |-> issued + 1, signin |-> issued + 1]
  <2>1. rows' = rows \cup {new} /\ issued' = issued + 1 /\ refresh' = refresh
    BY <1>3 DEF LoginIssue
  <2>2. \A r \in rows : r.id # new.id /\ r.signin # new.signin
    BY <1>0 DEF TokensOK
  <2>3. \A r \in rows' : r.id <= issued' /\ r.signin <= issued'
    BY <1>0, <2>1 DEF TokensOK
  <2>. QED  BY <2>1, <2>2, <2>3 DEF TokensOK, OneLiveTokenPerSignIn
<1>4. ASSUME NEW t \in Tabs, LogoutServe(t)  PROVE  TokensOK'
  <2>1. \A u \in Tabs : refresh[u].at = "locked" => refresh[u].token # logout[t].token
    BY <1>4 DEF LogoutServe, LockedIds
  <2>2. \A u \in Tabs : refresh[u].at = "locked" => Held(u) \in rows'
    BY <1>4, <2>1 DEF LogoutServe, TokensOK
  <2>. QED  BY <1>4, <2>2, TokensUntouched DEF LogoutServe
<1>5. CASE WithdrawCommit
  <2>1. \A u \in Tabs : refresh[u].at # "locked"
    BY <1>5 DEF WithdrawCommit, LockedIds
  <2>. QED  BY <1>5, <2>1, TokensUntouched DEF WithdrawCommit
<1>6. CASE UNCHANGED <<rows, issued, refresh>>
  BY <1>6 DEF TokensOK, OneLiveTokenPerSignIn
<1>. QED
  BY <1>1, <1>2, <1>3, <1>4, <1>5, <1>6
     DEF ServerNext, AccountNext, LoginCheck, Serve, WithdrawBegin, ModerateBegin, ModerateSave, server

\* No exchange is with the server before it is sent and after it is answered.
LEMMA Unlocked ==
  /\ Quiet.at # "locked"
  /\ \A token : [Asked EXCEPT !.token = token].at # "locked"
<1>1. Quiet.at = "none" /\ Asked.at = "sent"
  BY DEF Quiet, Asked
<1>2. ASSUME NEW token
      PROVE  [Asked EXCEPT !.token = token].at = Asked.at
  BY DEF Asked, Quiet
<1>. QED  BY <1>1, <1>2

\* The browser starts a refresh and takes its answer; it locks nothing.
LEMMA BrowserTokens ==
  ASSUME Typed, TokensOK, BrowserNext
  PROVE  TokensOK'
<1>1. ASSUME NEW t \in Tabs, NEW q \in {Quiet, [Asked EXCEPT !.token = jar.refresh]},
             refresh' = [refresh EXCEPT ![t] = q], UNCHANGED server
      PROVE  TokensOK'
  <2>1. q.at # "locked"
    BY <1>1, Unlocked
  <2>2. \A u \in Tabs : refresh'[u].at = "locked" => refresh'[u] = refresh[u]
    BY <1>1, <2>1 DEF Typed, TypeOK, RequestsTypeOK
  <2>. QED  BY <1>1, <2>2, TokensUntouched DEF TokensOK, server
<1>2. CASE UNCHANGED <<server, refresh>>
  BY <1>2 DEF TokensOK, OneLiveTokenPerSignIn, server
<1>3. ASSUME NEW c \in Calls, AwaitRefresh(c)  PROVE  TokensOK'
  BY <1>1, <1>2, <1>3 DEF AwaitRefresh, Typed, PlacesOK
<1>. QED
  BY <1>1, <1>2, <1>3
     DEF BrowserNext, Sync, RefreshGranted, RefreshRefused, RefreshLost, StartLogin, LoginLost, Logout,
         LogoutReceive, LogoutLost, Mount, Lose, Receive, LoginReceive, RefreshUser, AccessExpires

LEMMA TokensStep ==
  ASSUME Typed, TokensOK, [Next]_vars
  PROVE  TokensOK'
<1>1. CASE UNCHANGED vars
  BY <1>1 DEF vars, server, TokensOK, OneLiveTokenPerSignIn
<1>. QED  BY <1>1, ServerTokens, BrowserTokens DEF Next

LEMMA TypedStep ==
  ASSUME Typed, [Next]_vars
  PROVE  Typed'
<1>1. CASE UNCHANGED vars
  BY <1>1 DEF vars, fixed, places, server, client, Typed, PlacesOK, TypeOK,
              ServerTypeOK, ClientTypeOK, RequestsTypeOK
<1>. QED  BY <1>1, ServerTyped, BrowserTyped DEF Next

(* The account, its tokens, the cookies and every request stay well formed. *)
THEOREM SessionsTyped == Spec => []TypeOK
<1>1. Typed => TypeOK
  BY DEF Typed
<1>. QED  BY InitTyped, TypedStep, <1>1, PTL DEF Spec

(* However many tabs refresh with one cookie, and whatever logout, sign-in  *)
(* and withdraw do meanwhile, a sign-in never has two live refresh tokens.  *)
THEOREM OneLiveToken == Spec => []OneLiveTokenPerSignIn
<1>1. ASSUME Init  PROVE  TokensOK
  BY <1>1 DEF Init, TokensOK, OneLiveTokenPerSignIn, Quiet
<1>2. TokensOK => OneLiveTokenPerSignIn
  BY DEF TokensOK
<1>. QED  BY <1>1, <1>2, InitTyped, TypedStep, TokensStep, PTL DEF Spec

----------------------------------------------------------------------------
(* Withdrawal.                                                              *)

\* Nothing makes a withdrawn account active again: block_user and
\* unblock_user save the status alone.
Inactive == withdrawal.at = "done" => ~active

LEMMA InactiveStep ==
  ASSUME Inactive, [Next]_vars
  PROVE  Inactive'
<1>. USE DEF Inactive
<1>1. CASE WithdrawBegin
  BY <1>1 DEF WithdrawBegin
<1>2. CASE WithdrawCommit
  BY <1>2 DEF WithdrawCommit
<1>3. CASE ModerateSave
  BY <1>3 DEF ModerateSave, Moderated
<1>4. CASE UNCHANGED <<withdrawal, active>>
  BY <1>4
<1>5. CASE ServerNext
  BY <1>4, <1>5 DEF ServerNext, RefreshBegin, RefreshCommit, LoginCheck, LoginIssue, LogoutServe, Serve, server
<1>6. CASE BrowserNext
  BY <1>4, <1>6
     DEF BrowserNext, Sync, RefreshGranted, RefreshRefused, RefreshLost, StartLogin, LoginLost, Logout,
         LogoutReceive, LogoutLost, Mount, AwaitRefresh, Lose, Receive, LoginReceive, RefreshUser,
         AccessExpires, server
<1>. QED
  BY <1>1, <1>2, <1>3, <1>4, <1>5, <1>6 DEF Next, AccountNext, ModerateBegin, vars, server

\* A step that lets an account's request or refresh in finds it active.
LetsIn == \/ \E c \in Calls : call'[c].answer = "ok" /\ call[c].answer # "ok"
          \/ \E t \in Tabs : refresh'[t].at = "locked" /\ refresh[t].at # "locked"

LEMMA ServerLetsInActive ==
  ASSUME Typed, ServerNext \/ AccountNext, LetsIn
  PROVE  active
<1>1. ASSUME NEW t \in Tabs, RefreshBegin(t), ~active  PROVE  FALSE
  <2>1. refresh' = [refresh EXCEPT ![t].at = "refused"] /\ call' = call
    BY <1>1 DEF RefreshBegin, MayHoldTokens, client
  <2>. QED  BY <2>1 DEF LetsIn, Typed, TypeOK, RequestsTypeOK, Exchange
<1>2. ASSUME NEW t \in Tabs, RefreshCommit(t)  PROVE  FALSE
  <2>1. call' = call /\ refresh'[t].at = "granted" /\ \A u \in Tabs \ {t} : refresh'[u] = refresh[u]
    BY <1>2 DEF RefreshCommit, client, Typed, TypeOK, RequestsTypeOK, Exchange
  <2>. QED  BY <2>1 DEF LetsIn
<1>3. ASSUME NEW c \in Calls, Serve(c), ~active  PROVE  FALSE
  <2>1. /\ call' = [call EXCEPT ![c] = [call[c] EXCEPT !.at = "answered", !.answer = "denied"]]
        /\ refresh' = refresh
    BY <1>3 DEF Serve, Answer, Typed, TypeOK, RequestsTypeOK
  <2>2. call'[c].answer = "denied" /\ \A k \in Calls \ {c} : call'[k] = call[k]
    BY <2>1 DEF Typed, TypeOK, RequestsTypeOK, Request
  <2>. QED  BY <2>1, <2>2 DEF LetsIn
<1>4. ~UNCHANGED <<call, refresh>>
  BY DEF LetsIn
<1>. QED
  BY <1>1, <1>2, <1>3, <1>4
     DEF ServerNext, AccountNext, LoginCheck, LoginIssue, LogoutServe, WithdrawBegin, WithdrawCommit,
         ModerateBegin, ModerateSave, client

LEMMA BrowserLetsNobodyIn ==
  ASSUME Typed, BrowserNext
  PROVE  ~LetsIn
<1>1. \A c \in Calls : call[c] \in Request
  BY DEF Typed, TypeOK, RequestsTypeOK
<1>2. ASSUME NEW t \in Tabs, NEW q \in {Quiet, [Asked EXCEPT !.token = jar.refresh]},
             refresh' = [refresh EXCEPT ![t] = q]
      PROVE  \A u \in Tabs : refresh'[u].at = "locked" => refresh[u].at = "locked"
  <2>1. q.at # "locked"
    BY <1>2, Unlocked
  <2>. QED  BY <1>2, <2>1 DEF Typed, TypeOK, RequestsTypeOK
<1>3. ASSUME NEW t \in Tabs, NEW auth \in BOOLEAN, NEW answer \in {"none", "denied", "lost"},
             call' = Resume(t, auth, answer)
      PROVE  \A c \in Calls : call'[c].answer = "ok" => call[c].answer = "ok"
  BY <1>1, <1>3 DEF Resume, Request
<1>4. ASSUME NEW c \in Calls, NEW r \in Request, r.answer \in {"none", "lost", call[c].answer},
             call' = [call EXCEPT ![c] = r]
      PROVE  \A k \in Calls : call'[k].answer = "ok" => call[k].answer = "ok"
  BY <1>4 DEF Typed, TypeOK, RequestsTypeOK
<1>5. ASSUME NEW kind \in {"mount", "effect", "pull"}
      PROVE  /\ Sent(kind) \in Request /\ Sent(kind).answer = "none"
             /\ [Sent(kind) EXCEPT !.auth = TRUE] \in Request
             /\ [Sent(kind) EXCEPT !.auth = TRUE].answer = "none"
  BY DEF Sent, Typed, TypeOK, ClientTypeOK, Request
<1>6. Idle \in Request /\ Idle.answer = "none"
  BY DEF Idle, Request
<1>7. ASSUME NEW c \in Calls, Mount(c)  PROVE  ~LetsIn
  <2>1. \A k \in Calls : Leave(tabOf[c])[k].answer = call[k].answer
    BY <1>1 DEF Leave, Request
  <2>2. \A k \in Calls : call'[k].answer \in {"none", call[k].answer}
    BY <1>5, <1>7, <2>1 DEF Mount, Leave
  <2>. QED  BY <1>7, <2>2 DEF Mount, LetsIn
<1>8. ASSUME NEW c \in Calls, AwaitRefresh(c)  PROVE  ~LetsIn
  <2>1. [call[c] EXCEPT !.at = "waiting"] \in Request
        /\ [call[c] EXCEPT !.at = "waiting"].answer = call[c].answer
    BY <1>1 DEF Request
  <2>2. \A k \in Calls : call'[k].answer = "ok" => call[k].answer = "ok"
    BY <1>4, <1>8, <2>1 DEF AwaitRefresh, Typed, TypeOK, RequestsTypeOK
  <2>. QED  BY <1>2, <1>8, <2>2 DEF AwaitRefresh, LetsIn, Typed, PlacesOK
<1>9. ASSUME NEW c \in Calls, Lose(c)  PROVE  ~LetsIn
  <2>1. [call[c] EXCEPT !.at = "answered", !.answer = "lost"] \in Request
        /\ [call[c] EXCEPT !.at = "answered", !.answer = "lost"].answer = "lost"
    BY <1>1 DEF Request
  <2>2. \A k \in Calls : call'[k].answer = "ok" => call[k].answer = "ok"
    BY <1>4, <1>9, <2>1 DEF Lose, Typed, TypeOK, RequestsTypeOK
  <2>. QED  BY <1>9, <2>2 DEF Lose, LetsIn
<1>10. ASSUME NEW c \in Calls, Receive(c) \/ LoginReceive(c) \/ RefreshUser(c, "effect") \/ RefreshUser(c, "pull")
       PROVE  ~LetsIn
  BY <1>4, <1>5, <1>6, <1>10 DEF Receive, LoginReceive, RefreshUser, LetsIn
<1>11. ASSUME NEW t \in Tabs, RefreshGranted(t) \/ RefreshRefused(t) \/ RefreshLost(t)
       PROVE  ~LetsIn
  BY <1>2, <1>3, <1>11 DEF RefreshGranted, RefreshRefused, RefreshLost, WakeAfterLoss, LetsIn
<1>12. CASE UNCHANGED <<call, refresh>>
  BY <1>12 DEF LetsIn
<1>. QED
  BY <1>7, <1>8, <1>9, <1>10, <1>11, <1>12
     DEF BrowserNext, Sync, StartLogin, LoginLost, Logout, LogoutReceive, LogoutLost, AccessExpires, client

(* Once withdraw committed, no request is answered as the account's and no  *)
(* refresh is accepted, whatever an admin saves over the withdrawal.        *)
THEOREM WithdrawalIsFinal == Spec => WithdrawnStaysOut
<1>1. ASSUME Init  PROVE  Inactive
  BY <1>1 DEF Init, Inactive
<1>2. ASSUME Typed, Inactive, [Next]_vars
      PROVE  [withdrawal.at = "done" =>
                /\ \A c \in Calls : call'[c].answer = "ok" => call[c].answer = "ok"
                /\ \A t \in Tabs : refresh'[t].at = "locked" => refresh[t].at = "locked"]_vars
  <2>1. CASE Next
    <3>1. LetsIn => active
      BY <1>2, <2>1, ServerLetsInActive, BrowserLetsNobodyIn DEF Next
    <3>. QED  BY <1>2, <3>1 DEF LetsIn, Inactive
  <2>. QED  BY <1>2, <2>1
<1>. QED  BY <1>1, <1>2, InitTyped, TypedStep, InactiveStep, PTL DEF Spec, WithdrawnStaysOut

----------------------------------------------------------------------------
(* Tabs.                                                                    *)

\* Store leaves every tab that it does not tell with the session it stored.
LEMMA StoreAgrees ==
  ASSUME Typed, TabsAgree, site' = site, NEW t \in Tabs, NEW user \in BOOLEAN, Store(t, user)
  PROVE  TabsAgree'
<1>1. /\ stored' = [stored EXCEPT ![site[t]] = user]
      /\ view' = [view EXCEPT ![t] = [in |-> user, loading |-> FALSE]]
      /\ stored[site[t]] # user => notified' = notified \cup { u \in Tabs \ {t} : site[u] = site[t] }
      /\ stored[site[t]] = user => notified' = notified
  BY DEF Store
<1>2. /\ stored \in [Sites -> BOOLEAN] /\ view \in [Tabs -> [in : BOOLEAN, loading : BOOLEAN]]
      /\ site \in [Tabs -> Sites] /\ "user" \in Sites
  BY DEF Typed, PlacesOK, TypeOK, ClientTypeOK, Sites
<1>3. ASSUME NEW u \in Tabs, site[u] = "user", u \notin notified'
      PROVE  view'[u].in = stored'["user"]
  <2>1. CASE u = t
    BY <1>1, <1>2, <1>3, <2>1
  <2>2. CASE u # t /\ site[t] = "user"
    BY <1>1, <1>2, <1>3, <2>2 DEF TabsAgree
  <2>3. CASE u # t /\ site[t] # "user"
    BY <1>1, <1>2, <1>3, <2>3 DEF TabsAgree
  <2>. QED  BY <2>1, <2>2, <2>3
<1>. QED  BY <1>3 DEF TabsAgree

\* A tab that reads what is stored agrees with it.
LEMMA ReadAgrees ==
  ASSUME Typed, TabsAgree, UNCHANGED <<site, stored>>, NEW t \in Tabs, NEW loading \in BOOLEAN,
         view' = [view EXCEPT ![t] = [in |-> stored[site[t]], loading |-> loading]],
         \A u \in Tabs : u \notin notified' => u \notin notified \/ u = t
  PROVE  TabsAgree'
BY DEF Typed, TypeOK, ClientTypeOK, TabsAgree

LEMMA AgreeStep ==
  ASSUME Typed, TabsAgree, [Next]_vars
  PROVE  TabsAgree'
<1>. USE DEF fixed, places
<1>1. CASE UNCHANGED <<site, stored, view, notified>>
  BY <1>1 DEF TabsAgree
<1>2. ASSUME NEW t \in Tabs, Sync(t)  PROVE  TabsAgree'
  BY <1>2, ReadAgrees DEF Sync
<1>3. ASSUME NEW c \in Calls, Mount(c) \/ LoginReceive(c)  PROVE  TabsAgree'
  BY <1>3, ReadAgrees DEF Mount, LoginReceive, Typed, PlacesOK
<1>4. ASSUME NEW t \in Tabs, RefreshRefused(t) \/ Logout(t)  PROVE  TabsAgree'
  BY <1>4, StoreAgrees DEF RefreshRefused, Logout, Forget
<1>5. ASSUME NEW c \in Calls, Receive(c)  PROVE  TabsAgree'
  <2>1. CASE Store(tabOf[c], TRUE) \/ Store(tabOf[c], FALSE)
    BY <1>5, <2>1, StoreAgrees DEF Receive, Typed, PlacesOK
  <2>2. CASE /\ site[tabOf[c]] = "admin" /\ UNCHANGED <<site, stored, notified>>
             /\ view' = [view EXCEPT ![tabOf[c]] = [in |-> TRUE, loading |-> FALSE]]
    BY <2>2 DEF TabsAgree, Typed, TypeOK, ClientTypeOK
  <2>. QED  BY <1>1, <1>5, <2>1, <2>2 DEF Receive
<1>6. CASE ServerNext \/ AccountNext
  BY <1>1, <1>6
     DEF ServerNext, AccountNext, RefreshBegin, RefreshCommit, LoginCheck, LoginIssue, LogoutServe, Serve,
         WithdrawBegin, WithdrawCommit, ModerateBegin, ModerateSave, client
<1>7. CASE BrowserNext
  BY <1>1, <1>2, <1>3, <1>4, <1>5, <1>7
     DEF BrowserNext, RefreshGranted, RefreshLost, StartLogin, LoginLost, LogoutReceive, LogoutLost,
         AwaitRefresh, Lose, RefreshUser, AccessExpires, client
<1>. QED  BY <1>1, <1>6, <1>7 DEF Next, vars, client

(* A tab of the user site that has handled its storage events shows the     *)
(* session localStorage holds.                                              *)
THEOREM TabsAgreeAlways == Spec => []TabsAgree
<1>1. ASSUME Init  PROVE  TabsAgree
  BY <1>1, InitTyped DEF Init, TabsAgree
<1>. QED  BY <1>1, InitTyped, TypedStep, AgreeStep, PTL DEF Spec
=============================================================================
