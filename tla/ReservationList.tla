---------------------------- MODULE ReservationList ----------------------------
(***************************************************************************)
(* The list of a user's reservations (src/FE/src/pages/MyReservationPage   *)
(* .tsx): two tabs, an order and two filters, chosen in a sheet, and pages *)
(* loaded on scrolling.  What has been loaded is kept for every choice, in *)
(* the cache of src/FE/src/hooks/queries/useReservations.ts, and is shown  *)
(* again when the user comes back to it.                                   *)
(***************************************************************************)
EXTENDS Integers, FiniteSets

CONSTANTS
  Booked,     (* the user's reservations: 1, 2, ..., in the order of the list *)
  TeamOf,     (* [Booked -> "personal" or a team] *)
  ListSize,   (* size: 10 *)
  MaxAsks,    (* bound: choices that load at once *)
  MaxMoves    (* bound: what the user does, and changes of a reservation *)

VARIABLES
  standing,   (* on the server: the status of each reservation, and whether it has ended *)
  chosen,     (* activeTab, sort, stateFilter, teamFilter *)
  drafting,   (* draftSort, draftStateFilter, draftTeamFilter *)
  sheetOpen,  (* activeFilterSheet *)
  kept,       (* the query cache: for each key, the rows, the pages and what failed *)
  asks,       (* the loads under way, at most one for a key *)
  pulling,    (* isManualRefreshing *)
  at,         (* the page on screen: this one, or that of a reservation *)
  moves

listVars == <<standing, chosen, drafting, sheetOpen, kept, asks, pulling, at, moves>>

Tabs     == {"upcoming", "past"}
Sorts    == {"upcoming", "latest"}
Statuses == {"pending", "canceled"}             (* the others are like pending *)
TeamIds  == {TeamOf[b] : b \in Booked} \cup {"personal"}
NoSheet  == "none"

(* stateFilterOptions: only the past tab has canceled reservations.        *)
Offered(tab) == {"all", "pending"} \cup (IF tab = "past" THEN {"canceled"} ELSE {})
TeamOptions  == {"all"} \cup TeamIds

Choices == [tab : Tabs, sort : Sorts, state : {"all"} \cup Statuses, team : TeamOptions]
Default(tab) == [tab |-> tab, sort |-> "upcoming", state |-> "all", team |-> "all"]

(***************************************************************************)
(* The server's list.                                                      *)
(***************************************************************************)
TabOf(r) == IF r.over \/ r.status = "canceled" THEN "past" ELSE "upcoming"

Fits(r, q) == /\ TabOf(r) = q.tab /\ q.state \in {"all", r.status} /\ q.team \in {"all", r.team}

RowOf(b)    == [id |-> b, team |-> TeamOf[b], status |-> standing[b].status, over |-> standing[b].over]
Matching(q) == {b \in Booked : Fits(RowOf(b), q)}
Before(q, b) == {x \in Matching(q) : IF q.sort = "upcoming" THEN x <= b ELSE x >= b}

PageOf(q, n) ==
  {RowOf(b) : b \in {x \in Matching(q) : Cardinality(Before(q, x)) \in (n - 1) * ListSize + 1 .. n * ListSize}}
HasNext(q, n) == n * ListSize < Cardinality(Matching(q))

(***************************************************************************)
(* The cache.  A key is the whole choice.                                  *)
(***************************************************************************)
BugKeyWithoutState(q) == [q EXCEPT !.state = "all"]

KeyOf(q) == q

NoData == [rows |-> {}, pages |-> 0, more |-> FALSE, failed |-> FALSE, nextFailed |-> FALSE]
NoAsk  == [kind |-> "none"]
Ask(kind, q, page) == [kind |-> kind, q |-> q, page |-> page, rows |-> {}, pull |-> FALSE]

Now  == kept[KeyOf(chosen)]
Asks == asks[KeyOf(chosen)]

Init ==
  /\ standing = [b \in Booked |-> [status |-> "pending", over |-> FALSE]]
  /\ chosen = Default("upcoming") /\ drafting = chosen /\ sheetOpen = NoSheet
  /\ kept = [k \in Choices |-> NoData]
  /\ asks = [k \in Choices |-> IF k = KeyOf(chosen) THEN Ask("first", chosen, 1) ELSE NoAsk]
  /\ pulling = FALSE /\ at = "list" /\ moves = 0

(* A key that comes on screen is loaded if it holds nothing; what it holds *)
(* is loaded again, from its first page, if it is stale.                   *)
Loading(q, stale) ==
  LET k == KeyOf(q)
  IN  IF asks[k] # NoAsk /\ (kept[k].pages = 0 \/ ~stale) THEN asks
      ELSE IF kept[k].pages = 0 THEN [asks EXCEPT ![k] = Ask("first", q, 1)]
      ELSE IF stale THEN [asks EXCEPT ![k] = Ask("again", q, 1)]
      ELSE asks

Busy(a)     == Cardinality({k \in Choices : a[k] # NoAsk}) <= MaxAsks
ListLoading == pulling \/ (Now.pages = 0 /\ ~Now.failed)
OnList      == at = "list"
Keep        == UNCHANGED <<standing, kept, at>>

handleSelectTab(tab) ==
  /\ OnList /\ sheetOpen = NoSheet
  /\ chosen' = Default(tab) /\ drafting' = chosen'
  /\ asks' = Loading(Default(tab), TRUE)                 (* invalidateQueries *)
  /\ Busy(asks') /\ UNCHANGED <<sheetOpen, pulling>> /\ Keep

openFilterSheet(sheet) ==
  /\ OnList /\ sheetOpen = NoSheet
  /\ sheetOpen' = sheet /\ drafting' = chosen
  /\ UNCHANGED <<chosen, asks, pulling>> /\ Keep

closeFilterSheet ==
  /\ OnList /\ sheetOpen # NoSheet /\ sheetOpen' = NoSheet
  /\ UNCHANGED <<chosen, drafting, asks, pulling>> /\ Keep

Options(sheet) ==
  CASE sheet = "sort"  -> Sorts
    [] sheet = "state" -> Offered(chosen.tab)
    [] sheet = "team"  -> TeamOptions

SelectOption(v) ==
  /\ OnList /\ sheetOpen # NoSheet /\ v \in Options(sheetOpen)
  /\ drafting' = [drafting EXCEPT ![sheetOpen] = v]
  /\ UNCHANGED <<chosen, sheetOpen, asks, pulling>> /\ Keep

applyFilterSheet(stale) ==
  /\ OnList /\ sheetOpen # NoSheet /\ sheetOpen' = NoSheet
  /\ chosen' = [chosen EXCEPT ![sheetOpen] = drafting[sheetOpen]]
  /\ asks' = IF chosen' = chosen THEN asks ELSE Loading(chosen', stale)
  /\ Busy(asks') /\ UNCHANGED <<drafting, pulling>> /\ Keep

(* The end of the list comes into sight, or its retry button is tapped.    *)
LoadMore ==
  /\ OnList /\ ~ListLoading /\ Now.more /\ Asks.kind # "next"
  /\ asks' = [asks EXCEPT ![KeyOf(chosen)] = Ask("next", chosen, Now.pages + 1)]
  /\ Busy(asks') /\ UNCHANGED <<chosen, drafting, sheetOpen, pulling>> /\ Keep

(* A refresh starts the list on screen again, and drops a load under way   *)
(* unless it is the first one.                                             *)
handleRefresh ==
  /\ OnList /\ ~pulling /\ sheetOpen = NoSheet /\ Asks.kind # "again"
  /\ pulling' = TRUE
  /\ asks' = [asks EXCEPT ![KeyOf(chosen)] =
                IF @ # NoAsk /\ Now.pages = 0 THEN [@ EXCEPT !.pull = TRUE]
                ELSE [Ask(IF Now.pages = 0 THEN "first" ELSE "again", chosen, 1) EXCEPT !.pull = TRUE]]
  /\ Busy(asks') /\ UNCHANGED <<chosen, drafting, sheetOpen>> /\ Keep

RefreshEnds ==
  /\ pulling /\ \A k \in Choices : asks[k] # NoAsk => ~asks[k].pull
  /\ pulling' = FALSE /\ UNCHANGED <<chosen, drafting, sheetOpen, asks>> /\ Keep

(* A reservation is opened; on the way back the list is as it was left,    *)
(* or, by way of the menu, as at first.                                    *)
handleSelectReservation ==
  /\ OnList /\ sheetOpen = NoSheet /\ ~ListLoading /\ Now.rows # {}
  /\ at' = "detail" /\ pulling' = FALSE
  /\ asks' = [k \in Choices |-> IF asks[k] = NoAsk THEN NoAsk ELSE [asks[k] EXCEPT !.pull = FALSE]]
  /\ UNCHANGED <<standing, chosen, drafting, sheetOpen, kept>>

Return(restored, stale) ==
  /\ at = "detail" /\ at' = "list"
  /\ chosen' = IF restored THEN chosen ELSE Default("upcoming")
  /\ drafting' = chosen' /\ asks' = Loading(chosen', stale) /\ Busy(asks')
  /\ UNCHANGED <<standing, sheetOpen, kept, pulling>>

(***************************************************************************)
(* A page arrives: getReservations.  A load from the first page goes on to *)
(* as many pages as were there before, and replaces them when it is done.  *)
(***************************************************************************)
Loaded(rows, pages, more) ==
  [rows |-> rows, pages |-> pages, more |-> more, failed |-> FALSE, nextFailed |-> FALSE]

PageArrives(k) ==
  LET a    == asks[k]
      got  == a.rows \cup PageOf(a.q, a.page)
      more == HasNext(a.q, a.page)
  IN  /\ a # NoAsk
      /\ IF a.kind = "again" /\ more /\ a.page < kept[k].pages
         THEN asks' = [asks EXCEPT ![k].rows = got, ![k].page = @ + 1] /\ UNCHANGED kept
         ELSE /\ kept' = [kept EXCEPT ![k] =
                            Loaded(IF a.kind = "next" THEN @.rows \cup got ELSE got, a.page, more)]
              /\ asks' = [asks EXCEPT ![k] = NoAsk]
      /\ UNCHANGED <<standing, chosen, drafting, sheetOpen, pulling, at>>

PageFails(k) ==
  /\ asks[k] # NoAsk /\ asks' = [asks EXCEPT ![k] = NoAsk]
  /\ kept' = [kept EXCEPT ![k].failed = TRUE, ![k].nextFailed = asks[k].kind = "next"]
  /\ UNCHANGED <<standing, chosen, drafting, sheetOpen, pulling, at>>

(* Reservations end, and are canceled: here, by a teammate, by an admin.   *)
Changes(b) ==
  /\ standing[b].status # "canceled" /\ ~standing[b].over
  /\ \/ standing' = [standing EXCEPT ![b].status = "canceled"]
     \/ standing' = [standing EXCEPT ![b].over = TRUE]
  /\ UNCHANGED <<chosen, drafting, sheetOpen, kept, asks, pulling, at>>

UserActs ==
  \/ \E tab \in Tabs : handleSelectTab(tab)
  \/ \E sheet \in {"sort", "state", "team"} : openFilterSheet(sheet)
  \/ closeFilterSheet
  \/ \E v \in Sorts \cup Offered("past") \cup TeamOptions : SelectOption(v)
  \/ \E stale \in BOOLEAN : applyFilterSheet(stale) \/ \E restored \in BOOLEAN : Return(restored, stale)
  \/ LoadMore \/ handleRefresh \/ handleSelectReservation
  \/ \E b \in Booked : Changes(b)

Answers == RefreshEnds \/ \E k \in Choices : PageArrives(k) \/ PageFails(k)

Next ==
  \/ UserActs /\ moves < MaxMoves /\ moves' = moves + 1
  \/ Answers /\ UNCHANGED moves

Spec == Init /\ [][Next]_listVars

TypeOK ==
  /\ chosen \in Choices /\ drafting \in Choices /\ sheetOpen \in {NoSheet, "sort", "state", "team"}
  /\ pulling \in BOOLEAN /\ at \in {"list", "detail"}
  /\ \A k \in Choices : kept[k].pages \in Nat /\ kept[k].more \in BOOLEAN

(***************************************************************************)
(* Whatever was tapped while pages were on their way, a row on the list    *)
(* is of the tab, status and team on show, and a status is chosen, in the  *)
(* page or in its sheet, only where the tab offers it.                     *)
(***************************************************************************)
ShowsWhatIsChosen ==
  /\ chosen.state \in Offered(chosen.tab) /\ drafting.state \in Offered(chosen.tab)
  /\ \A r \in Now.rows : Fits(r, chosen)
==============================================================================
