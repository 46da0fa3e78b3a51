-------------------------- MODULE AdminReservations --------------------------
(***************************************************************************)
(* The reservation panel of the back office                                *)
(* (src/FE_ADMIN/src/components/admin/reservations): a list in two tabs     *)
(* that is loaded again on every filter, every five seconds and on demand, *)
(* the detail of one reservation, and the form by which an admin books     *)
(* over the reservations of others after a review of what that cancels.    *)
(*                                                                         *)
(* Decisions are sent and shown at once, without waiting for the server;   *)
(* requests are served in any order, and other admins decide as well.      *)
(***************************************************************************)
EXTENDS Integers, FiniteSets, FiniteSetsExt

CONSTANTS
  Ids,        (* the reservations there may be: 1, 2, ... *)
  NewId,      (* the one the form creates *)
  Series,     (* those that repeat *)
  Dates,      (* the dates of a repetition *)
  Window,     (* [Ids -> room, start, end] of the reservations of others *)
  Narrow,     (* what a narrower filter than "all" leaves *)
  OpenTime,   (* [room -> its opening time], the rooms of the form *)
  LastStart,  (* the last time a reservation starts: 23:30 in the code *)
  LastEnd,    (* the last time it ends, 06:00 of the next day in the code *)
  PageSize,   (* RESERVATION_PAGE_SIZE *)
  MaxCalls,   (* bound: requests on their way at once *)
  MaxActs     (* bound: what the admin, others and the network do *)

VARIABLES
  db,         (* the reservations on the server *)
  rows,       (* reservations *)
  totals,     (* pendingTotalCount, approvedTotalCount *)
  more,       (* hasNextPage *)
  pages,      (* loadedPages *)
  tab,        (* activeStatus *)
  filter,     (* dateRange, teamFilter, roomFilter *)
  loading,    (* isLoadingReservations, isLoadingMoreReservations, isManualRefreshing *)
  selected,   (* selectedReservation *)
  external,   (* initialReservationId *)
  adding,     (* the form, its review and isCreateOpen *)
  net,        (* the requests on their way *)
  acts

panelVars == <<db, rows, totals, more, pages, tab, filter, loading, selected,
               external, adding, net, acts>>

Statuses == {"pending", "approved"}
Rooms    == DOMAIN OpenTime
NoRow    == [id |-> 0, status |-> "none", cut |-> {}]
Free     == [kind |-> "free"]
Closed   == [open |-> FALSE]
NoReview == [shown |-> {}]
Gone     == -1    (* initialReservationId of a panel that was left *)
FirstPages == [s \in Statuses |-> 1]

(***************************************************************************)
(* The server.                                                             *)
(***************************************************************************)
Row(i) == [id |-> i, status |-> db[i].status, cut |-> db[i].cut]

Listed(s, f) == {i \in Ids : db[i].status = s /\ (f = "all" \/ i \in Narrow)}

Page(S, n) ==
  {i \in S : Cardinality({j \in S : j <= i}) \in (n - 1) * PageSize + 1 .. n * PageSize}

getReservations(f, p) ==
  [rows  |-> {Row(i) : i \in UNION {Page(Listed(s, f), p[s]) : s \in Statuses}},
   total |-> [s \in Statuses |-> Cardinality(Listed(s, f))],
   more  |-> [s \in Statuses |-> p[s] * PageSize < Cardinality(Listed(s, f))]]

Conflicts(w) ==
  {i \in Ids : /\ db[i].status \in Statuses /\ db[i].window.room = w.room
               /\ db[i].window.start < w.end /\ w.start < db[i].window.end}

(***************************************************************************)
(* Requests.  Each takes the first place that is free.                     *)
(***************************************************************************)
Here == external # Gone
Uncovered == Here /\ selected = NoRow /\ ~adding.open   (* nothing lies over the list *)
Act  == acts < MaxActs /\ acts' = acts + 1

CanSend   == \E k \in DOMAIN net : net[k] = Free
Sent(req) == [net EXCEPT ![Min({k \in DOMAIN net : net[k] = Free})] = req]

ListCall(why, f, p) == [kind |-> "list", why |-> why, filter |-> f, pages |-> p, answer |-> Free]

(* mergeReservations: what just arrived replaces what was there.           *)
mergeReservations(old, new) == {r \in old : ~\E n \in new : n.id = r.id} \cup new

Decided(i, status) == [db EXCEPT ![i].status = status]

Init ==
  /\ external \in {0} \cup Series
  /\ db \in {[i \in Ids |-> [status |-> IF i = NewId THEN "none" ELSE "pending",
                             cut |-> {}, window |-> Window[i]]]}
  /\ rows = {} /\ totals = [s \in Statuses |-> 0] /\ more = [s \in Statuses |-> FALSE]
  /\ pages = FirstPages /\ tab = "pending" /\ filter = "all"
  /\ loading = {"list"} /\ selected = NoRow /\ adding = Closed /\ acts = 0
  /\ net = [k \in 1 .. MaxCalls |-> IF k = 1 THEN ListCall("refresh", "all", FirstPages) ELSE Free]

KeepList   == UNCHANGED <<rows, totals, more, pages>>
KeepScreen == UNCHANGED <<tab, filter, external>>

(* Other admins decide; users cancel.                                      *)
OthersDecide(i, status) ==
  /\ Here /\ Act
  /\ \/ db[i].status = "pending"  /\ status \in {"approved", "canceled"}
     \/ db[i].status = "approved" /\ status = "canceled"
  /\ db' = Decided(i, status)
  /\ UNCHANGED <<loading, selected, adding, net>> /\ KeepList /\ KeepScreen

(***************************************************************************)
(* Loading the list: refreshReservations and loadMoreReservations.         *)
(***************************************************************************)
(* A filter or the refresh button; the button waits for itself only.       *)
Filter(f) ==
  /\ Uncovered /\ Act /\ CanSend /\ f # filter /\ filter' = f
  /\ loading' = loading \cup {"list"}
  /\ net' = Sent(ListCall("refresh", f, FirstPages))
  /\ UNCHANGED <<db, selected, adding, tab, external>> /\ KeepList

handleRefresh ==
  /\ Uncovered /\ Act /\ CanSend /\ "manual" \notin loading
  /\ loading' = loading \cup {"list", "manual"}
  /\ net' = Sent(ListCall("manual", filter, FirstPages))
  /\ UNCHANGED <<db, selected, adding>> /\ KeepList /\ KeepScreen

(* Every five seconds, from the top of a list nothing else is loading.     *)
canAutoRefresh ==
  Here /\ pages[tab] = 1 /\ {"list", "more"} \cap loading = {} /\ selected = NoRow

Poll ==
  /\ canAutoRefresh /\ CanSend
  /\ net' = Sent(ListCall("poll", filter, FirstPages))
  /\ UNCHANGED <<db, loading, selected, adding, acts>> /\ KeepList /\ KeepScreen

loadMoreReservations ==
  /\ Uncovered /\ Act /\ CanSend /\ {"list", "more"} \cap loading = {} /\ more[tab]
  /\ loading' = loading \cup {"more"}
  /\ net' = Sent(ListCall("more", filter, [pages EXCEPT ![tab] = @ + 1]))
  /\ UNCHANGED <<db, selected, adding>> /\ KeepList /\ KeepScreen

Loads(why) ==
  CASE why = "refresh" -> {"list"} [] why = "manual" -> {"list", "manual"}
    [] why = "more" -> {"more"} [] OTHER -> {}

(* The answer of a list: whichever comes last is on show.                  *)
ListArrives(k) ==
  LET call == net[k]
      data == call.answer
  IN  /\ Here /\ call.kind = "list" /\ data # Free
      /\ rows'  = IF call.why = "more" THEN mergeReservations(rows, data.rows) ELSE data.rows
      /\ pages' = call.pages /\ totals' = data.total /\ more' = data.more
      /\ loading' = loading \ Loads(call.why)
      /\ selected' = IF external = 0 \/ call.why = "more" THEN selected
                     ELSE IF \E r \in data.rows : r.id = external
                     THEN CHOOSE r \in data.rows : r.id = external ELSE NoRow
      /\ net' = [net EXCEPT ![k] = Free]
      /\ UNCHANGED <<db, adding, acts>> /\ KeepScreen

(* A failed load ends all the same.                                        *)
BugLoadingStays(call) == IF call.why = "refresh" THEN loading ELSE loading \ Loads(call.why)

AfterFailure(call) == loading \ Loads(call.why)

ListFails(k) ==
  /\ Here /\ net[k].kind = "list" /\ Act
  /\ loading' = AfterFailure(net[k])
  /\ net' = [net EXCEPT ![k] = Free]
  /\ UNCHANGED <<db, selected, adding>> /\ KeepList /\ KeepScreen

(***************************************************************************)
(* Decisions, from the list or from the detail of a reservation.           *)
(***************************************************************************)
filteredReservations == {r \in rows : r.status = tab}
ListShown == Uncovered /\ "list" \notin loading

SelectTab(s) ==
  /\ Uncovered /\ s # tab /\ tab' = s
  /\ UNCHANGED <<db, loading, selected, adding, filter, external, net, acts>> /\ KeepList

SelectRow(r) ==
  /\ ListShown /\ r \in filteredReservations /\ selected' = r
  /\ UNCHANGED <<db, loading, adding, net, acts>> /\ KeepList /\ KeepScreen

(* What can be decided: a card of the list, or the reservation on show.    *)
Decidable(r) == (ListShown /\ r \in filteredReservations) \/ (Here /\ r = selected)

Fewer(n) == Max({n - 1, 0})

handleApprove(r) ==
  /\ Decidable(r) /\ r.status = "pending" /\ Act /\ CanSend
  /\ net' = Sent([kind |-> "approve", id |-> r.id])
  /\ rows' = {IF x.id = r.id THEN [x EXCEPT !.status = "approved"] ELSE x : x \in rows}
  /\ totals' = [pending |-> Fewer(totals.pending), approved |-> totals.approved + 1]
  /\ selected' = NoRow
  /\ UNCHANGED <<db, more, pages, loading, adding>> /\ KeepScreen

(* Rejecting, or cancelling as a whole, from the detail only.              *)
handleReject(r) ==
  LET listed == {x.status : x \in {y \in rows : y.id = r.id}}
  IN  /\ Here /\ r = selected /\ r # NoRow /\ Act /\ CanSend
      /\ net' = Sent([kind |-> "cancel", id |-> r.id])
      /\ rows' = {x \in rows : x.id # r.id}
      /\ totals' = [s \in Statuses |-> IF s \in listed THEN Fewer(totals[s]) ELSE totals[s]]
      /\ selected' = NoRow
      /\ UNCHANGED <<db, more, pages, loading, adding>> /\ KeepScreen

getRemainingOccurrences(r) == Dates \ r.cut
canSelectOccurrences(r) == r # NoRow /\ r.status = "approved" /\ r.id \in Series

handleRejectOccurrences(r, cut) ==
  LET with(x) == IF x.id = r.id THEN [x EXCEPT !.cut = @ \cup cut] ELSE x
  IN  /\ Here /\ r = selected /\ canSelectOccurrences(r)
      /\ cut # {} /\ cut \subseteq getRemainingOccurrences(r) /\ Act /\ CanSend
      /\ net' = Sent([kind |-> "cut", id |-> r.id, dates |-> cut])
      /\ rows' = {with(x) : x \in rows} /\ selected' = with(r)
      /\ UNCHANGED <<db, totals, more, pages, loading, adding>> /\ KeepScreen

(* Closing the detail; the panel opened for one reservation is left.       *)
handleCloseDetail ==
  /\ Here /\ selected # NoRow /\ selected' = NoRow
  /\ external' = IF external = 0 THEN 0 ELSE Gone
  /\ UNCHANGED <<db, loading, adding, tab, filter, net, acts>> /\ KeepList

(* The server decides; nobody waits for the answer.                        *)
DecisionServed(k) ==
  LET call == net[k]
  IN  /\ \/ call.kind = "approve" /\ db[call.id].status = "pending"
            /\ db' = Decided(call.id, "approved")
         \/ call.kind = "cancel" /\ db[call.id].status \in Statuses
            /\ db' = Decided(call.id, "canceled")
         \/ call.kind = "cut" /\ db[call.id].status = "approved"
            /\ db' = [db EXCEPT ![call.id].cut = @ \cup call.dates]
         \/ call.kind \in {"approve", "cancel", "cut"} /\ UNCHANGED db   (* refused or lost *)
      /\ net' = [net EXCEPT ![k] = Free]
      /\ UNCHANGED <<loading, selected, adding, acts>> /\ KeepList /\ KeepScreen

ListServed(k) ==
  /\ net[k].kind = "list" /\ net[k].answer = Free
  /\ net' = [net EXCEPT ![k].answer = getReservations(net[k].filter, net[k].pages)]
  /\ UNCHANGED <<db, loading, selected, adding, acts>> /\ KeepList /\ KeepScreen

(***************************************************************************)
(* The form of an admin's own reservation.                                 *)
(***************************************************************************)
handleOpenCreate ==
  \E room \in Rooms :
    /\ ListShown /\ Act
    /\ adding' = [open |-> TRUE, checking |-> FALSE, review |-> NoReview,
                 form |-> [room |-> room, start |-> OpenTime[room], end |-> LastEnd]]
    /\ UNCHANGED <<db, loading, selected, net>> /\ KeepList /\ KeepScreen

FormShown == Here /\ adding.open /\ adding.review = NoReview
SetForm(f) == adding' = [adding EXCEPT !.form = f]
KeepPanel  == UNCHANGED <<db, loading, selected, acts>> /\ KeepList /\ KeepScreen

getNextEndTime(start) == start + 1

(* The window keeps its start before its end.                              *)
StartingAt(f, start) ==
  [f EXCEPT !.start = start,
            !.end = IF @ <= start THEN getNextEndTime(start) ELSE @]

handleStartTimeChange(start) ==
  /\ FormShown /\ start \in OpenTime[adding.form.room] .. LastStart
  /\ SetForm(StartingAt(adding.form, start)) /\ UNCHANGED net /\ KeepPanel

SetEnd(end) ==
  /\ FormShown /\ end \in adding.form.start + 1 .. LastEnd
  /\ SetForm([adding.form EXCEPT !.end = end]) /\ UNCHANGED net /\ KeepPanel

handleRoomChange(room) ==
  LET f == [adding.form EXCEPT !.room = room]
  IN  /\ FormShown
      /\ SetForm(IF f.start < OpenTime[room] THEN StartingAt(f, OpenTime[room]) ELSE f)
      /\ UNCHANGED net /\ KeepPanel

(* handleSubmit: the values of this moment are checked, and created when   *)
(* the answer names no conflict, whatever the form holds or whether it is  *)
(* still open by then.                                                     *)
handleSubmit ==
  /\ FormShown /\ ~adding.checking /\ CanSend
  /\ adding' = [adding EXCEPT !.checking = TRUE]
  /\ net' = Sent([kind |-> "check", window |-> adding.form, mounted |-> TRUE, answer |-> Free])
  /\ KeepPanel

CheckServed(k) ==
  /\ net[k].kind = "check" /\ net[k].answer = Free
  /\ net' = [net EXCEPT ![k].answer = [ids |-> Conflicts(net[k].window)]]
  /\ UNCHANGED adding /\ KeepPanel

CreateCall(w, ids) == [kind |-> "create", window |-> w, forced |-> ids, answer |-> Free]

BugReviewsTheForm(call) == adding.form

Reviewed(call) == call.window

CheckArrives(k) ==
  LET call == net[k]
  IN  /\ Here /\ call.kind = "check" /\ call.answer # Free
      /\ adding' = IF ~call.mounted THEN adding
                  ELSE [adding EXCEPT !.checking = FALSE,
                          !.review = IF call.answer.ids = {} THEN @
                                     ELSE [shown |-> call.answer.ids, window |-> Reviewed(call)]]
      /\ net' = [net EXCEPT ![k] = IF call.answer.ids = {} THEN CreateCall(call.window, {}) ELSE Free]
      /\ KeepPanel

(* A failed check never ends: nothing resets isChecking.                   *)
CheckFails(k) ==
  /\ Here /\ net[k].kind = "check" /\ Act
  /\ net' = [net EXCEPT ![k] = Free]
  /\ UNCHANGED <<db, loading, selected, adding>> /\ KeepList /\ KeepScreen

ReviewShown == Here /\ adding.open /\ adding.review # NoReview

BackFromReview ==
  /\ ReviewShown /\ adding' = [adding EXCEPT !.review = NoReview] /\ UNCHANGED net /\ KeepPanel

ConfirmReview ==
  /\ ReviewShown /\ CanSend /\ Act
  /\ net' = Sent(CreateCall(adding.review.window, adding.review.shown))
  /\ UNCHANGED <<db, loading, selected, adding>> /\ KeepList /\ KeepScreen

Unmounted == [k \in DOMAIN net |-> IF net[k].kind = "check" THEN [net[k] EXCEPT !.mounted = FALSE]
                                   ELSE net[k]]

CloseCreate ==
  /\ FormShown /\ adding' = Closed /\ net' = Unmounted /\ KeepPanel

(* The server cancels what it was told to and books, if nothing else is in *)
(* the way.                                                                *)
CreateServed(k) ==
  LET call == net[k]
      free == Conflicts(call.window) \subseteq call.forced /\ db[NewId].status = "none"
  IN  /\ call.kind = "create" /\ call.answer = Free
      /\ IF free
         THEN /\ db' = [i \in Ids |->
                          IF i = NewId THEN [db[i] EXCEPT !.status = "approved", !.window = call.window]
                          ELSE IF i \in call.forced /\ db[i].status \in Statuses
                          THEN [db[i] EXCEPT !.status = "canceled"] ELSE db[i]]
              /\ net' = [net EXCEPT ![k].answer = [id |-> NewId, status |-> "approved", cut |-> {}]]
         ELSE net' = [net EXCEPT ![k] = Free] /\ UNCHANGED db
      /\ UNCHANGED <<loading, selected, adding, acts>> /\ KeepList /\ KeepScreen

handleCreate(k) ==
  LET call == net[k]
  IN  /\ Here /\ call.kind = "create" /\ call.answer # Free
      /\ rows' = {r \in rows : r.id \notin call.forced} \cup {call.answer}
      /\ tab' = "approved" /\ adding' = Closed
      /\ net' = [Unmounted EXCEPT ![k] = Free]
      /\ UNCHANGED <<db, totals, more, pages, loading, selected, filter, external, acts>>

(* What becomes of the call at place k.                                    *)
CallGoesOn(k) ==
  \/ ListServed(k) \/ ListArrives(k) \/ DecisionServed(k)
  \/ CheckServed(k) \/ CheckArrives(k) \/ CreateServed(k) \/ handleCreate(k)

Next ==
  \/ \E i \in Ids, s \in {"approved", "canceled"} : OthersDecide(i, s)
  \/ \E f \in {"all", "narrow"} : Filter(f)
  \/ handleRefresh \/ Poll \/ loadMoreReservations
  \/ \E s \in Statuses : SelectTab(s)
  \/ \E r \in rows \cup {selected} :
       \/ SelectRow(r) \/ handleApprove(r) \/ handleReject(r)
       \/ \E cut \in SUBSET Dates : handleRejectOccurrences(r, cut)
  \/ handleCloseDetail
  \/ handleOpenCreate \/ CloseCreate \/ handleSubmit \/ BackFromReview \/ ConfirmReview
  \/ \E t \in 0 .. LastEnd : handleStartTimeChange(t) \/ SetEnd(t)
  \/ \E room \in Rooms : handleRoomChange(room)
  \/ \E k \in DOMAIN net : CallGoesOn(k) \/ ListFails(k) \/ CheckFails(k)

Spec == Init /\ [][Next]_panelVars

TypeOK ==
  /\ \A r \in rows \cup {selected} : r.id \in Ids \cup {0}
  /\ tab \in Statuses /\ filter \in {"all", "narrow"} /\ loading \subseteq {"list", "more", "manual"}
  /\ acts \in 0 .. MaxActs /\ DOMAIN net = 1 .. MaxCalls
  /\ pages \in [Statuses -> Nat] /\ totals \in [Statuses -> Nat] /\ more \in [Statuses -> BOOLEAN]

(***************************************************************************)
(* What creating a reservation cancels is what stands in the way of that   *)
(* very reservation, in its own room and hours, although the form can be   *)
(* changed, closed and opened again while it is checked.                   *)
(***************************************************************************)
CancelsWhatIsInTheWay ==
  \A k \in DOMAIN net : net[k].kind = "create" =>
    /\ net[k].window.start < net[k].window.end
    /\ \A i \in net[k].forced : /\ db[i].window.room = net[k].window.room
                                /\ db[i].window.start < net[k].window.end
                                /\ net[k].window.start < db[i].window.end

(***************************************************************************)
(* The five second refresh makes good whatever lists that overtook each    *)
(* other, decisions shown early and refused, and failed loads have left on *)
(* show: the first page of a list nobody works on ends up as the server's. *)
(***************************************************************************)
Fresh == LET now == getReservations(filter, FirstPages)
         IN  rows = now.rows /\ totals = now.total /\ more = now.more

LeftAlone == Here /\ pages[tab] = 1 /\ selected = NoRow
PollCatchesUp == <>[]LeftAlone => <>[]Fresh

Fairness == WF_panelVars(Poll) /\ \A k \in 1 .. MaxCalls : WF_panelVars(CallGoesOn(k))
FairSpec == Spec /\ Fairness
==============================================================================
