------------------------------ MODULE AdminUsers ------------------------------
(***************************************************************************)
(* The lists of users and of teams in the back office's user panel         *)
(* (src/FE_ADMIN/src/components/admin/users/AdminUserPanel.tsx), and the   *)
(* detail of a user, who can be blocked.  Both lists load their first page *)
(* on every change of their filter and the next page on scrolling; what    *)
(* arrives is shown, whichever filter it was asked with.  The search for a *)
(* user waits until the admin stops typing.                                *)
(*                                                                         *)
(* A filter is [words, status]: a search, and for users a status; the      *)
(* filters by team and by leader are changed and sent like these.          *)
(***************************************************************************)
EXTENDS Integers, FiniteSets, FiniteSetsExt

CONSTANTS
  Ids,        (* the users there are, and the teams: 1, 2, ... *)
  Found,      (* those whose name has the words searched for *)
  PageSize,   (* USER_PANEL_PAGE_SIZE *)
  MaxFetches, (* bound: loads on their way at once *)
  MaxMoves    (* bound: what the admin does *)

VARIABLES
  blockedIds,   (* the blocked users, on the server *)
  input,        (* userSearchInput *)
  asking,       (* the filter of each list: userQuery, userStatusFilter, teamQuery, ... *)
  listed,       (* users, teams: by id, the status shown *)
  pageNo,       (* userPage, teamPage *)
  hasNext,      (* hasNextUsers, hasNextTeams *)
  fetching,     (* isLoadingUsers, isLoadingMoreUsers and of teams *)
  fetches,      (* loads on their way *)
  tabOpen,      (* activeTab *)
  looking,      (* the view: the list, or a user's; deep: the list lies below it *)
  normalTotal,  (* normalUserTotalCount *)
  sends,        (* blocks and unblocks on their way *)
  orderly,      (* history: lists whose loads never overlapped and whose first pages arrived *)
  moves

userVars == <<blockedIds, input, asking, listed, pageNo, hasNext, fetching, fetches,
              tabOpen, looking, normalTotal, sends, orderly, moves>>

Lists    == {"users", "teams"}
NoFilter == [words |-> FALSE, status |-> "all"]
Absent   == "absent"
AtList   == [name |-> "list", user |-> 0, deep |-> FALSE]
Gone     == [AtList EXCEPT !.name = "gone"]      (* the admin was sent to another panel *)
Looking  == {AtList, Gone} \cup
            [name : {"user-detail", "block-user"}, user : Ids, deep : BOOLEAN]

(***************************************************************************)
(* The server: getUsersPage and getTeamsPage.                              *)
(***************************************************************************)
StatusOf(l, i) == IF l = "users" /\ i \in blockedIds THEN "blocked" ELSE "normal"

Matching(l, f) ==
  {i \in Ids : (f.words => i \in Found) /\ f.status \in {"all", StatusOf(l, i)}}

PageOf(S, n) ==
  {i \in S : Cardinality({j \in S : j <= i}) \in (n - 1) * PageSize + 1 .. n * PageSize}

Pages(l, f, n) == UNION {PageOf(Matching(l, f), k) : k \in 1 .. n}

Init ==
  /\ blockedIds = {} /\ input = FALSE /\ asking = [l \in Lists |-> NoFilter]
  /\ listed = [l \in Lists |-> [i \in Ids |-> Absent]]
  /\ pageNo = [l \in Lists |-> 1] /\ hasNext = [l \in Lists |-> FALSE]
  /\ fetching = [l \in Lists |-> {"first"}]
  /\ fetches = {[list |-> l, filter |-> NoFilter, page |-> 1] : l \in Lists \cup {"count"}}
  /\ tabOpen = "users" /\ sends = {} /\ orderly = Lists
  /\ looking \in {AtList} \cup [name : {"user-detail"}, user : Ids, deep : {FALSE}]   (* initialView *)
  /\ normalTotal = 0 /\ moves = 0

(***************************************************************************)
(* Loading.                                                                *)
(***************************************************************************)
Of(l) == {c \in fetches : c.list = l}

Fetch(l, f, n) ==
  /\ Cardinality(fetches) < MaxFetches
  /\ fetches' = fetches \cup {[list |-> l, filter |-> f, page |-> n]}
  /\ orderly' = IF Of(l) = {} THEN orderly ELSE orderly \ {l}

(* refreshUsers and refreshTeams, by the effect of a filter that changed.  *)
Refresh(l, f) ==
  /\ asking' = [asking EXCEPT ![l] = f]
  /\ fetching' = [fetching EXCEPT ![l] = @ \cup {"first"}]
  /\ Fetch(l, f, 1)

KeepLists == UNCHANGED <<listed, pageNo, hasNext>>
KeepView  == UNCHANGED <<blockedIds, tabOpen, looking, normalTotal, sends>>

ListOn(l) == looking = AtList /\ tabOpen = l

Type == ListOn("users") /\ input' = ~input
        /\ UNCHANGED <<asking, fetching, fetches, orderly>> /\ KeepLists /\ KeepView

(* The admin has stopped typing.                                           *)
Debounced ==
  /\ looking # Gone /\ input # asking["users"].words
  /\ Refresh("users", [asking["users"] EXCEPT !.words = input])
  /\ UNCHANGED input /\ KeepLists /\ KeepView

FilterStatus(s) ==
  /\ ListOn("users") /\ s # asking["users"].status
  /\ Refresh("users", [asking["users"] EXCEPT !.status = s])
  /\ UNCHANGED input /\ KeepLists /\ KeepView

SearchTeams ==
  /\ ListOn("teams") /\ "first" \notin fetching["teams"]
  /\ Refresh("teams", [asking["teams"] EXCEPT !.words = ~@])
  /\ UNCHANGED input /\ KeepLists /\ KeepView

(* loadMoreUsers, loadMoreTeams *)
LoadMore(l) ==
  /\ ListOn(l)                                  (* handlePanelScroll *)
  /\ fetching[l] = {} /\ hasNext[l]
  /\ fetching' = [fetching EXCEPT ![l] = {"more"}]
  /\ Fetch(l, asking[l], pageNo[l] + 1)
  /\ UNCHANGED <<input, asking>> /\ KeepLists /\ KeepView

(* A first page replaces the rows, a next one adds to them.                *)
BugPageKept(c) == IF c.page = 1 THEN pageNo[c.list] ELSE c.page

PageAfter(c) == c.page

Arrives(c) ==
  LET l == c.list
      S == PageOf(Matching(l, c.filter), c.page)
  IN  /\ looking # Gone /\ l \in Lists /\ fetches' = fetches \ {c}
      /\ listed' = [listed EXCEPT ![l] =
                      [i \in Ids |-> IF i \in S THEN StatusOf(l, i)
                                     ELSE IF c.page = 1 THEN Absent ELSE @[i]]]
      /\ pageNo' = [pageNo EXCEPT ![l] = PageAfter(c)]
      /\ hasNext' = [hasNext EXCEPT ![l] = c.page * PageSize < Cardinality(Matching(l, c.filter))]
      /\ fetching' = [fetching EXCEPT ![l] = @ \ {IF c.page = 1 THEN "first" ELSE "more"}]
      /\ UNCHANGED <<input, asking, orderly>> /\ KeepView

FetchFails(c) ==
  /\ looking # Gone /\ c.list \in Lists /\ fetches' = fetches \ {c}
  /\ fetching' = [fetching EXCEPT ![c.list] = @ \ {IF c.page = 1 THEN "first" ELSE "more"}]
  /\ orderly' = IF c.page = 1 THEN orderly \ {c.list} ELSE orderly
  /\ UNCHANGED <<input, asking>> /\ KeepLists /\ KeepView

(***************************************************************************)
(* A user: the detail loads a user the list does not hold, and blocks.     *)
(***************************************************************************)
KeepPages == UNCHANGED <<input, asking, pageNo, hasNext, fetching, orderly>>
KeepLoads == UNCHANGED fetches /\ KeepPages

SelectTab(l) ==
  /\ looking = AtList /\ tabOpen # l /\ tabOpen' = l
  /\ UNCHANGED <<blockedIds, listed, looking, normalTotal, sends>> /\ KeepLoads

Row(u) == listed["users"][u]
OpenUser(u) ==        (* UserList, UserCard *)
  /\ ListOn("users") /\ "first" \notin fetching["users"] /\ Row(u) # Absent
  /\ looking' = [name |-> "user-detail", user |-> u, deep |-> TRUE]
  /\ UNCHANGED <<blockedIds, listed, tabOpen, normalTotal, sends>> /\ KeepLoads

UserArrives(u) ==
  /\ looking.user = u /\ Row(u) = Absent
  /\ listed' = [listed EXCEPT !["users"][u] = StatusOf("users", u)]
  /\ UNCHANGED <<blockedIds, tabOpen, looking, normalTotal, sends>> /\ KeepLoads

(* getUsersPage of one normal user, for the number of them.                *)
CountArrives(c) ==
  /\ looking # Gone /\ c.list = "count" /\ fetches' = fetches \ {c}
  /\ normalTotal' \in {normalTotal, Cardinality(Ids \ blockedIds)}    (* or it failed *)
  /\ UNCHANGED <<blockedIds, listed, tabOpen, looking, sends>> /\ KeepPages

OpenBlock ==          (* UserDetailScreen *)
  /\ looking.name = "user-detail" /\ Row(looking.user) = "normal"
  /\ looking' = [looking EXCEPT !.name = "block-user"]
  /\ UNCHANGED <<blockedIds, listed, tabOpen, normalTotal, sends>> /\ KeepLoads

Send(op, u) == sends' = sends \cup {[op |-> op, user |-> u]}
ShowAs(u, status) == listed' = [listed EXCEPT !["users"][u] = status]

BugFewer(n) == n - 1

Fewer(n) == Max({n - 1, 0})

BlockUserScreen == looking.name = "block-user" /\ Row(looking.user) # Absent

handleBlockUser ==
  /\ BlockUserScreen
  /\ Send("block", looking.user) /\ ShowAs(looking.user, "blocked")
  /\ normalTotal' = Fewer(normalTotal)
  /\ looking' = [looking EXCEPT !.name = "user-detail", !.deep = FALSE]    (* replaceView *)
  /\ UNCHANGED <<blockedIds, tabOpen>> /\ KeepLoads

handleUnblockUser ==
  /\ looking.name = "user-detail" /\ Row(looking.user) = "blocked"
  /\ Send("unblock", looking.user) /\ ShowAs(looking.user, "normal")
  /\ normalTotal' = normalTotal + 1
  /\ UNCHANGED <<blockedIds, tabOpen, looking>> /\ KeepLoads

(* A view that replaced the list gives the panel up.                       *)
goBack ==
  /\ looking.user # 0
  /\ looking' = IF looking.name = "block-user" THEN [looking EXCEPT !.name = "user-detail"]
                ELSE IF looking.deep THEN AtList ELSE Gone
  /\ UNCHANGED <<blockedIds, listed, tabOpen, normalTotal, sends>> /\ KeepLoads

(* Nobody waits for the answer, nor learns of a refusal.                   *)
SendServed(s) ==
  /\ s \in sends /\ sends' = sends \ {s}
  /\ blockedIds' \in {blockedIds, IF s.op = "block" THEN blockedIds \cup {s.user} ELSE blockedIds \ {s.user}}
  /\ UNCHANGED <<listed, tabOpen, looking, normalTotal>> /\ KeepLoads

AdminActs ==
  \/ Type \/ SearchTeams \/ OpenBlock \/ handleBlockUser \/ handleUnblockUser \/ goBack
  \/ \E s \in {"all", "normal", "blocked"} : FilterStatus(s)
  \/ \E l \in Lists : LoadMore(l) \/ SelectTab(l)
  \/ \E u \in Ids : OpenUser(u)

Answers ==
  \/ Debounced
  \/ \E c \in fetches : Arrives(c) \/ FetchFails(c) \/ CountArrives(c)
  \/ \E u \in Ids : UserArrives(u)
  \/ \E s \in sends : SendServed(s)

Next ==
  \/ AdminActs /\ moves < MaxMoves /\ moves' = moves + 1
  \/ Answers /\ UNCHANGED moves

Spec == Init /\ [][Next]_userVars

TypeOK ==
  /\ blockedIds \subseteq Ids /\ looking \in Looking /\ tabOpen \in Lists /\ normalTotal \in Nat
  /\ \A l \in Lists : /\ listed[l] \in [Ids -> {"normal", "blocked", Absent}] /\ pageNo[l] \in Nat \ {0}
                      /\ fetching[l] \subseteq {"first", "more"} /\ asking[l].words \in BOOLEAN

(***************************************************************************)
(* Scrolling leaves no gap: the rows hold every page up to the last one    *)
(* counted, of the filter on show.  It needs loads that did not overlap:   *)
(* a filter changed during a load has the pages of two filters mixed.  A   *)
(* filter by status is left out, whose pages move as users are blocked.    *)
(***************************************************************************)
PagesAddUp ==
  \A l \in orderly :
    Of(l) = {} /\ asking[l].status = "all" =>
      \A i \in Pages(l, asking[l], pageNo[l]) : listed[l][i] # Absent
==============================================================================
