-------------------------- MODULE AdminPagesProofs ---------------------------
(***************************************************************************)
(* The admin's reservations, rooms and day-offs, for every value of the    *)
(* constants, each with an inductive invariant of its own; and with all    *)
(* the others the type invariant of Screens.                               *)
(***************************************************************************)
EXTENDS TeamPagesProofs

(***************************************************************************)
(* Reservations: what a forced creation cancels was in its way.            *)
(***************************************************************************)
DbStatuses == {"none", "pending", "approved", "canceled"}
Forms      == {f \in [room : Panel!Rooms, start : Int, end : Int] : f.start < f.end}
DbRows     == [status : DbStatuses, cut : SUBSET RepeatDates,
               window : Forms \cup {Window[i] : i \in Ids}]
PanelRows  == [id : Ids, status : DbStatuses, cut : SUBSET RepeatDates]
Numbers    == [Panel!Statuses -> Nat]
ListAnswers == [rows : SUBSET PanelRows, total : Numbers, more : [Panel!Statuses -> BOOLEAN]]

ListCalls == [kind : {"list"}, why : {"refresh", "manual", "poll", "more"}, filter : {"all", "narrow"},
              pages : Numbers, answer : {Panel!Free} \cup ListAnswers]
Decisions == [kind : {"approve", "cancel"}, id : Ids] \cup
             [kind : {"cut"}, id : Ids, dates : SUBSET RepeatDates]
CheckCalls  == [kind : {"check"}, window : Forms, mounted : BOOLEAN,
                answer : {Panel!Free} \cup [ids : SUBSET Ids]]
CreateCalls == [kind : {"create"}, window : Forms, forced : SUBSET Ids,
                answer : {Panel!Free} \cup PanelRows]
PanelCalls  == {Panel!Free} \cup ListCalls \cup Decisions \cup CheckCalls \cup CreateCalls

Reviews  == [shown : SUBSET Ids, window : Forms]
OpenForm == [open : {TRUE}, checking : BOOLEAN, review : {Panel!NoReview} \cup Reviews, form : Forms]

(* A reservation that a window meets, and that will keep its own window.   *)
InTheWay(i, w) == /\ db[i].status # "none" /\ db[i].window.room = w.room
                  /\ db[i].window.start < w.end /\ w.start < db[i].window.end
AllInTheWay(S, w) == \A i \in S : InTheWay(i, w)

CallOK(c) ==
  /\ c \in PanelCalls
  /\ c.kind = "check" /\ c.answer # Panel!Free => AllInTheWay(c.answer.ids, c.window)
  /\ c.kind = "create" => AllInTheWay(c.forced, c.window)

DbOK   == db \in [Ids -> DbRows]
ShowOK == /\ rows \subseteq PanelRows /\ selected \in PanelRows \cup {Panel!NoRow}
          /\ totals \in Numbers /\ more \in [Panel!Statuses -> BOOLEAN] /\ pages \in Numbers
          /\ tab \in Panel!Statuses /\ filter \in {"all", "narrow"}
          /\ loading \subseteq {"list", "more", "manual"} /\ acts \in 0 .. MaxActs
FormOK == /\ adding \in {Panel!Closed} \cup OpenForm
          /\ adding.open /\ adding.review # Panel!NoReview =>
               AllInTheWay(adding.review.shown, adding.review.window)
NetOK  == /\ net = [k \in 1 .. MaxCalls |-> net[k]]
          /\ \A k \in 1 .. MaxCalls : CallOK(net[k])
MountedOK == \A k \in 1 .. MaxCalls : net[k].kind = "check" /\ net[k].mounted => adding.open

PanelInv == DbOK /\ ShowOK /\ FormOK /\ NetOK /\ MountedOK

(* A reservation that there is keeps its window.                           *)
DbLasts ==
  \A i \in Ids : db[i].status # "none" =>
                   db'[i].status # "none" /\ db'[i].window = db[i].window

LEMMA StillInTheWay ==
  ASSUME DbLasts, NEW S \in SUBSET Ids, NEW w, AllInTheWay(S, w)
  PROVE  AllInTheWay(S, w)'
  BY DEF DbLasts, AllInTheWay, InTheWay

LEMMA CallStaysOK ==
  ASSUME DbLasts, NEW c, CallOK(c)
  PROVE  CallOK(c)'
<1>1. c.kind = "check" /\ c.answer # Panel!Free => c.answer.ids \in SUBSET Ids
  BY DEF CallOK, PanelCalls, ListCalls, Decisions, CheckCalls, CreateCalls, Panel!Free
<1>2. c.kind = "create" => c.forced \in SUBSET Ids
  BY DEF CallOK, PanelCalls, ListCalls, Decisions, CheckCalls, CreateCalls, Panel!Free
<1>3. c \in PanelCalls' BY DEF CallOK, PanelCalls, ListCalls, Decisions, CheckCalls, CreateCalls
<1> QED BY <1>1, <1>2, <1>3, StillInTheWay DEF CallOK

LEMMA FormStaysOK ==
  ASSUME DbLasts, FormOK, adding' = adding
  PROVE  FormOK'
<1>1. ASSUME adding.open, adding.review # Panel!NoReview PROVE adding.review.shown \in SUBSET Ids
  <2>1. adding \in OpenForm BY <1>1 DEF FormOK, Panel!Closed
  <2>2. adding.review \in Reviews BY <1>1, <2>1 DEF OpenForm
  <2> QED BY <2>2 DEF Reviews
<1>2. adding.open /\ adding.review # Panel!NoReview => AllInTheWay(adding.review.shown, adding.review.window)'
  BY <1>1, StillInTheWay DEF FormOK
<1>3. adding' \in {Panel!Closed} \cup OpenForm BY DEF FormOK
<1> QED BY <1>2, <1>3 DEF FormOK

LEMMA OneCall ==
  ASSUME DbLasts, NetOK, NEW x, NEW c, CallOK(c)', net' = [net EXCEPT ![x] = c]
  PROVE  NetOK'
<1>1. \A k \in 1 .. MaxCalls : net'[k] = net[k] \/ net'[k] = c BY DEF NetOK
<1>2. net' = [k \in 1 .. MaxCalls |-> net'[k]] BY DEF NetOK
<1>3. \A k \in 1 .. MaxCalls : CallOK(net[k])' BY CallStaysOK DEF NetOK
<1> QED BY <1>1, <1>2, <1>3 DEF NetOK

LEMMA PanelFewer ==
  ASSUME NEW n \in Nat
  PROVE  Panel!Fewer(n) \in Nat
<1>1. \E x \in {n - 1, 0} : \A y \in {n - 1, 0} : x >= y OBVIOUS
<1>2. Panel!Max({n - 1, 0}) \in {n - 1, 0} /\ \A y \in {n - 1, 0} : Panel!Max({n - 1, 0}) >= y
  BY <1>1, Zenon DEF Panel!Max
<1> QED BY <1>2 DEF Panel!Fewer

LEMMA PanelCardinality == \A S : Panel!Cardinality(S) = Cardinality(S)
  BY Zenon DEF Panel!Cardinality, Cardinality

LEMMA TwoNumbers ==
  ASSUME NEW a \in Nat, NEW b \in Nat
  PROVE  [pending |-> a, approved |-> b] \in Numbers
  BY DEF Numbers, Panel!Statuses

LEMMA AnswerTyped ==
  ASSUME DbOK, NEW f, NEW p
  PROVE  Panel!getReservations(f, p) \in ListAnswers
<1>1. \A s : Panel!Listed(s, f) \subseteq Ids BY DEF Panel!Listed
<1>2. \A s : Panel!Cardinality(Panel!Listed(s, f)) \in Nat
  BY <1>1, ScreensAssumption, FS_Subset, FS_CardinalityType, PanelCardinality
<1>3. \A i \in Ids : Panel!Row(i) \in PanelRows BY DEF Panel!Row, DbOK, DbRows, PanelRows
<1>4. \A i \in UNION {Panel!Page(Panel!Listed(s, f), p[s]) : s \in Panel!Statuses} : i \in Ids
  BY <1>1 DEF Panel!Page
<1> QED BY <1>2, <1>3, <1>4 DEF Panel!getReservations, ListAnswers, Numbers

LEMMA StartedForm ==
  ASSUME NEW f, f \in [room : Panel!Rooms, start : Int, end : Int], NEW s \in Int
  PROVE  Panel!StartingAt(f, s) \in Forms
<1>1. s + 1 \in Int /\ s < s + 1 OBVIOUS
<1>2. f.end \in Int /\ (~(f.end <= s) => s < f.end) OBVIOUS
<1> QED BY <1>1, <1>2 DEF Panel!StartingAt, Panel!getNextEndTime, Forms

LEMMA PanelFirst ==
  ASSUME Panel!Init
  PROVE  PanelInv
<1>1. DbOK BY DEF Panel!Init, DbOK, DbRows, DbStatuses
<1>2. ShowOK
  <2>1. 0 \in 0 .. MaxActs BY ScreensAssumption
  <2> QED BY <2>1 DEF Panel!Init, ShowOK, Panel!FirstPages, Numbers, Panel!Statuses
<1>3. FormOK BY DEF Panel!Init, FormOK, Panel!Closed
<1>4. Panel!ListCall("refresh", "all", Panel!FirstPages) \in ListCalls
  BY DEF Panel!ListCall, ListCalls, Panel!FirstPages, Numbers
<1>5. CallOK(Panel!Free) /\ CallOK(Panel!ListCall("refresh", "all", Panel!FirstPages))
  BY <1>4 DEF CallOK, PanelCalls, Panel!Free, Panel!ListCall
<1>6. NetOK BY <1>5 DEF Panel!Init, NetOK
<1>7. MountedOK BY DEF Panel!Init, MountedOK, Panel!Free, Panel!ListCall
<1> QED BY <1>1, <1>2, <1>3, <1>6, <1>7 DEF PanelInv

LEMMA ActCounts ==
  ASSUME ShowOK, acts' = acts \/ Panel!Act
  PROVE  acts' \in 0 .. MaxActs
  BY ScreensAssumption DEF ShowOK, Panel!Act

LEMMA PanelStep ==
  ASSUME PanelInv, Panel!Next
  PROVE  PanelInv'
<1> USE DEF Panel!KeepList, Panel!KeepScreen, Panel!KeepPanel
<1>0. DbOK /\ ShowOK /\ FormOK /\ NetOK /\ MountedOK BY DEF PanelInv
<1>1. ASSUME UNCHANGED <<db, adding>>, ShowOK',
             NEW x, NEW c, CallOK(c), c.kind # "check", net' = [net EXCEPT ![x] = c]
      PROVE  PanelInv'
  <2>1. DbLasts BY <1>1 DEF DbLasts
  <2>2. DbOK' /\ FormOK' BY <1>0, <1>1, <2>1, FormStaysOK DEF DbOK
  <2>3. NetOK' BY <1>0, <1>1, <2>1, CallStaysOK, OneCall
  <2>4. \A k \in 1 .. MaxCalls : net'[k] = net[k] \/ net'[k] = c BY <1>0, <1>1 DEF NetOK
  <2>5. MountedOK' BY <1>0, <1>1, <2>4 DEF MountedOK
  <2> QED BY <1>1, <2>2, <2>3, <2>5 DEF PanelInv
<1>2. ASSUME UNCHANGED <<db, adding, net>>, ShowOK' PROVE PanelInv'
  <2>1. DbLasts BY <1>2 DEF DbLasts
  <2>2. DbOK' /\ FormOK' BY <1>0, <1>2, <2>1, FormStaysOK DEF DbOK
  <2>3. NetOK' BY <1>0, <1>2, <2>1, CallStaysOK DEF NetOK
  <2>4. MountedOK' BY <1>0, <1>2 DEF MountedOK
  <2> QED BY <1>2, <2>2, <2>3, <2>4 DEF PanelInv
<1>3. ASSUME UNCHANGED <<db, rows, totals, more, pages, tab, filter, loading, selected, net>>,
             acts' = acts \/ Panel!Act, adding' \in OpenForm, adding'.review # Panel!NoReview =>
                              adding.open /\ adding'.review = adding.review
      PROVE  PanelInv'
  <2>1. DbLasts BY <1>3 DEF DbLasts
  <2>2. DbOK' BY <1>0, <1>3 DEF DbOK
  <2>3. ShowOK' BY <1>0, <1>3, ActCounts DEF ShowOK
  <2>4. NetOK' BY <1>0, <1>3, <2>1, CallStaysOK DEF NetOK
  <2>5. MountedOK' BY <1>0, <1>3 DEF MountedOK, OpenForm
  <2>6. FormOK'
    <3>1. adding'.review # Panel!NoReview => AllInTheWay(adding.review.shown, adding.review.window)
      BY <1>0, <1>3 DEF FormOK
    <3>2. AllInTheWay(adding.review.shown, adding.review.window) =>
            \A i \in adding.review.shown : InTheWay(i, adding.review.window)
      BY DEF AllInTheWay
    <3> QED BY <1>3, <3>1 DEF FormOK, AllInTheWay, InTheWay
  <2> QED BY <2>2, <2>3, <2>4, <2>5, <2>6 DEF PanelInv
<1>4. CallOK(Panel!Free) /\ Panel!Free.kind # "check"
  BY DEF CallOK, PanelCalls, Panel!Free
<1>5. ASSUME NEW why \in {"refresh", "manual", "poll", "more"}, NEW f \in {"all", "narrow"}, NEW p \in Numbers
      PROVE  CallOK(Panel!ListCall(why, f, p)) /\ Panel!ListCall(why, f, p).kind # "check"
  <2>1. Panel!ListCall(why, f, p) \in ListCalls /\ Panel!ListCall(why, f, p).kind = "list"
    BY <1>5 DEF Panel!ListCall, ListCalls
  <2> HIDE DEF Panel!ListCall
  <2> QED BY <2>1 DEF CallOK, PanelCalls
<1>6. ASSUME NEW d \in Decisions PROVE CallOK(d) /\ d.kind # "check"
  BY <1>6 DEF CallOK, PanelCalls, Decisions
<1>7. Panel!FirstPages \in Numbers BY DEF Panel!FirstPages, Numbers
<1>8. ASSUME \/ \E f \in {"all", "narrow"} : Panel!Filter(f)
             \/ Panel!handleRefresh \/ Panel!Poll \/ Panel!loadMoreReservations
      PROVE  PanelInv'
  <2>1. \E why \in {"refresh", "manual", "poll", "more"}, f \in {"all", "narrow"}, p \in Numbers :
          /\ net' = Panel!Sent(Panel!ListCall(why, f, p)) /\ filter' \in {filter, f}
          /\ loading' \subseteq loading \cup {"list", "more", "manual"}
          /\ UNCHANGED <<db, adding, rows, totals, more, pages, tab, selected>>
          /\ acts' = acts \/ Panel!Act
    <3>1. [pages EXCEPT ![tab] = @ + 1] \in Numbers BY <1>0 DEF ShowOK, Numbers
    <3>2. filter \in {"all", "narrow"} BY <1>0 DEF ShowOK
    <3> QED BY <1>7, <1>8, <3>1, <3>2
         DEF Panel!Filter, Panel!handleRefresh, Panel!Poll, Panel!loadMoreReservations
  <2>2. PICK why \in {"refresh", "manual", "poll", "more"}, f \in {"all", "narrow"}, p \in Numbers :
          /\ net' = Panel!Sent(Panel!ListCall(why, f, p)) /\ filter' \in {filter, f}
          /\ loading' \subseteq loading \cup {"list", "more", "manual"}
          /\ UNCHANGED <<db, adding, rows, totals, more, pages, tab, selected>>
          /\ acts' = acts \/ Panel!Act
    BY <2>1
  <2>3. ShowOK' BY <1>0, <2>2, ActCounts DEF ShowOK
  <2>4. PICK c : c = Panel!ListCall(why, f, p) OBVIOUS
  <2>5. CallOK(c) /\ c.kind # "check" BY <1>5, <2>4
  <2>6. \E x : net' = [net EXCEPT ![x] = c] BY <2>2, <2>4 DEF Panel!Sent
  <2> QED BY <1>1, <2>2, <2>3, <2>5, <2>6
<1>9. ASSUME NEW k \in 1 .. MaxCalls, Panel!ListServed(k) PROVE PanelInv'
  <2>1. /\ net[k].kind = "list" /\ net[k].answer = Panel!Free
        /\ net' = [net EXCEPT ![k].answer = Panel!getReservations(net[k].filter, net[k].pages)]
        /\ UNCHANGED <<db, rows, totals, more, pages, tab, filter, loading, selected, adding, acts>>
    BY <1>9 DEF Panel!ListServed
  <2>2. net[k] \in ListCalls
    BY <1>0, <2>1 DEF NetOK, CallOK, PanelCalls, Panel!Free, Decisions, CheckCalls, CreateCalls
  <2>3. PICK a \in ListAnswers : a = Panel!getReservations(net[k].filter, net[k].pages)
    BY <1>0, AnswerTyped
  <2>4. PICK c : c = [net[k] EXCEPT !.answer = a] OBVIOUS
  <2>5. c \in ListCalls /\ c.kind = "list" BY <2>1, <2>2, <2>4 DEF ListCalls
  <2>6. CallOK(c) BY <2>5 DEF CallOK, PanelCalls
  <2>7. net' = [net EXCEPT ![k] = c] BY <2>1, <2>3, <2>4
  <2>8. ShowOK' BY <1>0, <2>1 DEF ShowOK
  <2> QED BY <1>1, <2>1, <2>5, <2>6, <2>7, <2>8
<1>10. ASSUME NEW k \in 1 .. MaxCalls, Panel!ListArrives(k) PROVE PanelInv'
  <2>1. /\ net[k].kind = "list" /\ net[k].answer # Panel!Free
        /\ net' = [net EXCEPT ![k] = Panel!Free] /\ UNCHANGED <<db, adding, acts, tab, filter>>
        /\ rows' = (IF net[k].why = "more" THEN Panel!mergeReservations(rows, net[k].answer.rows)
                    ELSE net[k].answer.rows)
        /\ pages' = net[k].pages /\ totals' = net[k].answer.total /\ more' = net[k].answer.more
        /\ loading' \subseteq loading
    BY <1>10 DEF Panel!ListArrives
  <2>2. \/ selected' \in {selected, Panel!NoRow}
        \/ /\ \E r \in net[k].answer.rows : r.id = external
           /\ selected' = CHOOSE r \in net[k].answer.rows : r.id = external
    BY <1>10 DEF Panel!ListArrives
  <2>3. selected' \in {selected, Panel!NoRow} \cup net[k].answer.rows BY <2>2
  <2>4. net[k] \in ListCalls
    BY <1>0, <2>1 DEF NetOK, CallOK, PanelCalls, Panel!Free, Decisions, CheckCalls, CreateCalls
  <2>5. net[k].answer \in ListAnswers BY <2>1, <2>4 DEF ListCalls
  <2>6. ShowOK'
    BY <1>0, <2>1, <2>3, <2>4, <2>5 DEF ShowOK, ListCalls, ListAnswers, Panel!mergeReservations
  <2> QED BY <1>1, <1>4, <2>1, <2>6
<1>11. ASSUME NEW k \in 1 .. MaxCalls, Panel!ListFails(k) \/ Panel!CheckFails(k) PROVE PanelInv'
  <2>1. /\ net' = [net EXCEPT ![k] = Panel!Free] /\ Panel!Act
        /\ UNCHANGED <<db, rows, totals, more, pages, tab, filter, selected, adding>>
        /\ loading' \subseteq loading
    BY <1>11 DEF Panel!ListFails, Panel!CheckFails, Panel!AfterFailure
  <2>2. ShowOK' BY <1>0, <2>1, ActCounts DEF ShowOK
  <2> QED BY <1>1, <1>4, <2>1, <2>2
<1>12. ASSUME \/ \E s \in Panel!Statuses : Panel!SelectTab(s)
              \/ \E r \in rows \cup {selected} : Panel!SelectRow(r)
              \/ Panel!handleCloseDetail
       PROVE  PanelInv'
  <2>1. /\ UNCHANGED <<db, rows, totals, more, pages, filter, loading, adding, net, acts>>
        /\ tab' \in {tab} \cup Panel!Statuses /\ selected' \in rows \cup {selected, Panel!NoRow}
    BY <1>12 DEF Panel!SelectTab, Panel!SelectRow, Panel!handleCloseDetail
  <2>2. ShowOK' BY <1>0, <2>1 DEF ShowOK
  <2> QED BY <1>2, <2>1, <2>2
<1>13. ASSUME NEW r \in rows \cup {selected}, Panel!handleApprove(r) PROVE PanelInv'
  <2>1. /\ r.status = "pending" /\ Panel!Act
        /\ \E x : net' = [net EXCEPT ![x] = [kind |-> "approve", id |-> r.id]]
        /\ rows' = {IF x.id = r.id THEN [x EXCEPT !.status = "approved"] ELSE x : x \in rows}
        /\ totals' = [pending |-> Panel!Fewer(totals.pending), approved |-> totals.approved + 1]
        /\ selected' = Panel!NoRow
        /\ UNCHANGED <<db, more, pages, loading, adding, tab, filter, external>>
    BY <1>13 DEF Panel!handleApprove, Panel!Sent
  <2>2. r \in PanelRows BY <1>0, <2>1 DEF ShowOK, Panel!NoRow
  <2>3. [kind |-> "approve", id |-> r.id] \in Decisions BY <2>2 DEF PanelRows, Decisions
  <2>4. PICK d : d = [kind |-> "approve", id |-> r.id] OBVIOUS
  <2>5. rows' \subseteq PanelRows BY <1>0, <2>1 DEF ShowOK, PanelRows, DbStatuses
  <2>6. totals.pending \in Nat /\ totals.approved \in Nat BY <1>0 DEF ShowOK, Numbers, Panel!Statuses
  <2>7. totals' \in Numbers BY <2>1, <2>6, PanelFewer, TwoNumbers
  <2>8. ShowOK' BY <1>0, <2>1, <2>5, <2>7, ActCounts DEF ShowOK
  <2> QED BY <1>1, <1>6, <2>1, <2>3, <2>4, <2>8
<1>14. ASSUME NEW r \in rows \cup {selected}, Panel!handleReject(r) PROVE PanelInv'
  <2>1. /\ r # Panel!NoRow /\ Panel!Act
        /\ \E x : net' = [net EXCEPT ![x] = [kind |-> "cancel", id |-> r.id]]
        /\ rows' \subseteq rows
        /\ \E S : totals' = [s \in Panel!Statuses |-> IF s \in S THEN Panel!Fewer(totals[s]) ELSE totals[s]]
        /\ selected' = Panel!NoRow
        /\ UNCHANGED <<db, more, pages, loading, adding, tab, filter, external>>
    BY <1>14 DEF Panel!handleReject, Panel!Sent
  <2>2. r \in PanelRows BY <1>0, <2>1 DEF ShowOK
  <2>3. [kind |-> "cancel", id |-> r.id] \in Decisions BY <2>2 DEF PanelRows, Decisions
  <2>4. PICK d : d = [kind |-> "cancel", id |-> r.id] OBVIOUS
  <2>5. \A s \in Panel!Statuses : totals[s] \in Nat /\ Panel!Fewer(totals[s]) \in Nat
    BY <1>0, PanelFewer DEF ShowOK, Numbers
  <2>6. totals' \in Numbers BY <2>1, <2>5 DEF Numbers
  <2>7. ShowOK' BY <1>0, <2>1, <2>6, ActCounts DEF ShowOK
  <2> QED BY <1>1, <1>6, <2>1, <2>3, <2>4, <2>7
<1>15. ASSUME NEW r \in rows \cup {selected}, NEW cut \in SUBSET RepeatDates,
              Panel!handleRejectOccurrences(r, cut)
       PROVE  PanelInv'
  <2> DEFINE with(x) == IF x.id = r.id THEN [x EXCEPT !.cut = @ \cup cut] ELSE x
  <2>1. /\ r # Panel!NoRow /\ Panel!Act
        /\ \E x : net' = [net EXCEPT ![x] = [kind |-> "cut", id |-> r.id, dates |-> cut]]
        /\ rows' = {with(x) : x \in rows} /\ selected' = with(r)
        /\ UNCHANGED <<db, totals, more, pages, loading, adding, tab, filter, external>>
    BY <1>15 DEF Panel!handleRejectOccurrences, Panel!Sent, Panel!canSelectOccurrences
  <2>2. r \in PanelRows BY <1>0, <2>1 DEF ShowOK
  <2>3. [kind |-> "cut", id |-> r.id, dates |-> cut] \in Decisions BY <2>2 DEF PanelRows, Decisions
  <2>4. PICK d : d = [kind |-> "cut", id |-> r.id, dates |-> cut] OBVIOUS
  <2>5. \A x \in PanelRows : with(x) \in PanelRows BY DEF PanelRows
  <2> HIDE DEF with
  <2>6. ShowOK' BY <1>0, <2>1, <2>2, <2>5, ActCounts DEF ShowOK
  <2> QED BY <1>1, <1>6, <2>1, <2>3, <2>4, <2>6
<1>16. ASSUME Panel!ConfirmReview PROVE PanelInv'
  <2>1. /\ adding.open /\ adding.review # Panel!NoReview /\ Panel!Act
        /\ net' = Panel!Sent(Panel!CreateCall(adding.review.window, adding.review.shown))
        /\ UNCHANGED <<db, rows, totals, more, pages, tab, filter, loading, selected, adding>>
    BY <1>16 DEF Panel!ConfirmReview, Panel!ReviewShown
  <2>2. adding \in OpenForm BY <1>0, <2>1 DEF FormOK, Panel!Closed
  <2>3. adding.review \in Reviews BY <2>1, <2>2 DEF OpenForm
  <2>4. PICK c : c = Panel!CreateCall(adding.review.window, adding.review.shown) OBVIOUS
  <2>5. /\ c \in CreateCalls /\ c.kind = "create" /\ c.window = adding.review.window
        /\ c.forced = adding.review.shown
    BY <2>3, <2>4 DEF Reviews, CreateCalls, Panel!CreateCall
  <2>6. CallOK(c) BY <1>0, <2>1, <2>5 DEF CallOK, PanelCalls, FormOK
  <2>7. \E x : net' = [net EXCEPT ![x] = c] BY <2>1, <2>4 DEF Panel!Sent
  <2>8. ShowOK' BY <1>0, <2>1, ActCounts DEF ShowOK
  <2> QED BY <1>1, <2>1, <2>5, <2>6, <2>7, <2>8
<1>17. ASSUME Panel!handleOpenCreate PROVE PanelInv'
  <2>1. PICK room \in Panel!Rooms :
          /\ Panel!Act
          /\ adding' = [open |-> TRUE, checking |-> FALSE, review |-> Panel!NoReview,
                        form |-> [room |-> room, start |-> OpenTime[room], end |-> LastEnd]]
          /\ UNCHANGED <<db, rows, totals, more, pages, tab, filter, loading, selected, net>>
    BY <1>17 DEF Panel!handleOpenCreate
  <2>2. OpenTime[room] \in Int /\ LastEnd \in Int /\ OpenTime[room] < LastEnd
    BY ScreensAssumption DEF Panel!Rooms
  <2>3. adding' \in OpenForm /\ adding'.review = Panel!NoReview BY <2>1, <2>2 DEF OpenForm, Forms
  <2> QED BY <1>3, <2>1, <2>3
<1>18. ASSUME \/ \E t \in 0 .. LastEnd : Panel!handleStartTimeChange(t) \/ Panel!SetEnd(t)
              \/ \E room \in Panel!Rooms : Panel!handleRoomChange(room)
              \/ Panel!BackFromReview
       PROVE  PanelInv'
  <2>1. /\ adding.open /\ UNCHANGED <<db, rows, totals, more, pages, tab, filter, loading, selected, net, acts>>
        /\ \/ \E f \in Forms : adding' = [adding EXCEPT !.form = f]
           \/ adding' = [adding EXCEPT !.review = Panel!NoReview]
    <3> USE DEF Panel!FormShown, Panel!SetForm
    <3>0. ASSUME adding.open PROVE adding \in OpenForm /\ adding.form \in Forms
      <4>1. adding \in OpenForm BY <1>0, <3>0 DEF FormOK, Panel!Closed
      <4> QED BY <4>1 DEF OpenForm
    <3>1. \A t \in 0 .. LastEnd : t \in Int BY ScreensAssumption
    <3>2. ASSUME NEW t \in 0 .. LastEnd, Panel!handleStartTimeChange(t)
          PROVE  \E f \in Forms : adding' = [adding EXCEPT !.form = f]
      <4>1. adding.form \in [room : Panel!Rooms, start : Int, end : Int]
        BY <3>0, <3>2 DEF Panel!handleStartTimeChange, Forms
      <4>2. Panel!StartingAt(adding.form, t) \in Forms BY <3>1, <4>1, StartedForm
      <4> QED BY <3>2, <4>2 DEF Panel!handleStartTimeChange
    <3>3. ASSUME NEW t \in 0 .. LastEnd, Panel!SetEnd(t)
          PROVE  \E f \in Forms : adding' = [adding EXCEPT !.form = f]
      <4>1. adding.form \in Forms /\ t \in adding.form.start + 1 .. LastEnd
            /\ adding' = [adding EXCEPT !.form = [adding.form EXCEPT !.end = t]]
        BY <3>0, <3>3 DEF Panel!SetEnd
      <4>2. adding.form.start \in Int BY <4>1 DEF Forms
      <4>3. t \in Int /\ adding.form.start < t BY <3>1, <4>1, <4>2, ScreensAssumption
      <4>4. [adding.form EXCEPT !.end = t] \in Forms BY <4>1, <4>3 DEF Forms
      <4> QED BY <4>1, <4>4
    <3>4. ASSUME NEW room \in Panel!Rooms, Panel!handleRoomChange(room)
          PROVE  \E f \in Forms : adding' = [adding EXCEPT !.form = f]
      <4>1. PICK f : f = [adding.form EXCEPT !.room = room] OBVIOUS
      <4>2. f \in Forms /\ f \in [room : Panel!Rooms, start : Int, end : Int]
        BY <3>0, <3>4, <4>1 DEF Panel!handleRoomChange, Forms
      <4>3. OpenTime[room] \in Int BY ScreensAssumption DEF Panel!Rooms
      <4>4. Panel!StartingAt(f, OpenTime[room]) \in Forms BY <4>2, <4>3, StartedForm
      <4>5. adding' = [adding EXCEPT !.form = IF f.start < OpenTime[room]
                                              THEN Panel!StartingAt(f, OpenTime[room]) ELSE f]
        BY <3>4, <4>1, Zenon DEF Panel!handleRoomChange
      <4> QED BY <4>2, <4>4, <4>5
    <3>5. /\ adding.open
          /\ UNCHANGED <<db, rows, totals, more, pages, tab, filter, loading, selected, net, acts>>
      BY <1>18 DEF Panel!handleStartTimeChange, Panel!SetEnd, Panel!handleRoomChange,
        Panel!BackFromReview, Panel!ReviewShown
    <3> QED BY <1>18, <3>2, <3>3, <3>4, <3>5 DEF Panel!BackFromReview
  <2>2. adding \in OpenForm BY <1>0, <2>1 DEF FormOK, Panel!Closed
  <2>3. adding' \in OpenForm /\ (adding'.review # Panel!NoReview => adding'.review = adding.review)
    BY <2>1, <2>2 DEF OpenForm
  <2> QED BY <1>3, <2>1, <2>3
<1>19. ASSUME \E i \in Ids, s \in {"approved", "canceled"} : Panel!OthersDecide(i, s) PROVE PanelInv'
  <2>1. PICK i \in Ids, s \in {"approved", "canceled"} :
          /\ db' = [db EXCEPT ![i].status = s] /\ db[i].status \in Panel!Statuses
          /\ Panel!Act
          /\ UNCHANGED <<rows, totals, more, pages, tab, filter, loading, selected, adding, net>>
    BY <1>19 DEF Panel!OthersDecide, Panel!Decided, Panel!Statuses
  <2>2. DbLasts /\ DbOK' BY <1>0, <2>1 DEF DbOK, DbRows, DbStatuses, DbLasts
  <2>3. ShowOK' BY <1>0, <2>1, ActCounts DEF ShowOK
  <2>4. FormOK' BY <1>0, <2>1, <2>2, FormStaysOK
  <2>5. NetOK' BY <1>0, <2>1, <2>2, CallStaysOK DEF NetOK
  <2>6. MountedOK' BY <1>0, <2>1 DEF MountedOK
  <2> QED BY <2>2, <2>3, <2>4, <2>5, <2>6 DEF PanelInv
<1>20. ASSUME NEW k \in 1 .. MaxCalls, Panel!DecisionServed(k) PROVE PanelInv'
  <2>1. /\ net[k].kind \in {"approve", "cancel", "cut"}
        /\ net' = [net EXCEPT ![k] = Panel!Free]
        /\ UNCHANGED <<rows, totals, more, pages, tab, filter, loading, selected, adding, acts>>
        /\ \/ db' = db
           \/ /\ db[net[k].id].status \in Panel!Statuses
              /\ \E s \in {"approved", "canceled"} : db' = [db EXCEPT ![net[k].id].status = s]
           \/ net[k].kind = "cut" /\ db' = [db EXCEPT ![net[k].id].cut = @ \cup net[k].dates]
    BY <1>20 DEF Panel!DecisionServed, Panel!Decided, Panel!Statuses
  <2>2. net[k] \in Decisions
    BY <1>0, <2>1 DEF NetOK, CallOK, PanelCalls, Panel!Free, ListCalls, CheckCalls, CreateCalls
  <2>3. net[k].id \in Ids /\ (net[k].kind = "cut" => net[k].dates \subseteq RepeatDates)
    BY <2>2 DEF Decisions
  <2>4. PICK i \in Ids : i = net[k].id BY <2>3
  <2>5. DbLasts
    <3>1. CASE db' = db BY <3>1 DEF DbLasts
    <3>2. CASE \E s \in {"approved", "canceled"} : db' = [db EXCEPT ![i].status = s]
      BY <1>0, <3>2 DEF DbLasts, DbOK, DbRows
    <3>3. CASE db' = [db EXCEPT ![i].cut = @ \cup net[k].dates]
      BY <1>0, <3>3 DEF DbLasts, DbOK, DbRows
    <3> QED BY <2>1, <2>4, <3>1, <3>2, <3>3
  <2>6. DbOK'
    <3>1. CASE db' = db BY <1>0, <3>1 DEF DbOK
    <3>2. CASE \E s \in {"approved", "canceled"} : db' = [db EXCEPT ![i].status = s]
      BY <1>0, <3>2 DEF DbOK, DbRows, DbStatuses
    <3>3. CASE net[k].kind = "cut" /\ db' = [db EXCEPT ![i].cut = @ \cup net[k].dates]
      BY <1>0, <2>3, <3>3 DEF DbOK, DbRows
    <3> QED BY <2>1, <2>4, <3>1, <3>2, <3>3
  <2>7. ShowOK' BY <1>0, <2>1 DEF ShowOK
  <2>8. FormOK' BY <1>0, <2>1, <2>5, FormStaysOK
  <2>9. NetOK' BY <1>0, <1>4, <2>1, <2>5, OneCall, CallStaysOK
  <2>10. \A j \in 1 .. MaxCalls : net'[j] = net[j] \/ net'[j] = Panel!Free BY <1>0, <2>1 DEF NetOK
  <2>11. MountedOK' BY <1>0, <1>4, <2>1, <2>10 DEF MountedOK
  <2> QED BY <2>6, <2>7, <2>8, <2>9, <2>11 DEF PanelInv
<1>21. ASSUME Panel!handleSubmit PROVE PanelInv'
  <2>1. /\ adding.open /\ adding' = [adding EXCEPT !.checking = TRUE]
        /\ net' = Panel!Sent([kind |-> "check", window |-> adding.form, mounted |-> TRUE,
                              answer |-> Panel!Free])
        /\ UNCHANGED <<db, rows, totals, more, pages, tab, filter, loading, selected, acts>>
    BY <1>21 DEF Panel!handleSubmit, Panel!FormShown
  <2>2. adding \in OpenForm BY <1>0, <2>1 DEF FormOK, Panel!Closed
  <2>3. adding.form \in Forms BY <2>2 DEF OpenForm
  <2>4. adding' \in OpenForm /\ adding'.review = adding.review BY <2>1, <2>2 DEF OpenForm
  <2>5. PICK c : c = [kind |-> "check", window |-> adding.form, mounted |-> TRUE, answer |-> Panel!Free]
    OBVIOUS
  <2>6. c \in CheckCalls /\ c.kind = "check" /\ c.answer = Panel!Free BY <2>3, <2>5 DEF CheckCalls
  <2>7. CallOK(c) BY <2>6 DEF CallOK, PanelCalls
  <2>8. PICK x : net' = [net EXCEPT ![x] = c] BY <2>1, <2>5 DEF Panel!Sent
  <2>9. DbLasts BY <2>1 DEF DbLasts
  <2>10. NetOK' BY <1>0, <2>7, <2>8, <2>9, OneCall, CallStaysOK
  <2>11. ShowOK' /\ DbOK' BY <1>0, <2>1 DEF ShowOK, DbOK
  <2>12. adding.review # Panel!NoReview => AllInTheWay(adding.review.shown, adding.review.window)
    BY <1>0, <2>1 DEF FormOK
  <2>13. FormOK' BY <2>1, <2>4, <2>12 DEF FormOK, AllInTheWay, InTheWay
  <2>14. MountedOK' BY <2>4 DEF MountedOK, OpenForm
  <2> QED BY <2>10, <2>11, <2>13, <2>14 DEF PanelInv
<1>22. ASSUME NEW k \in 1 .. MaxCalls, Panel!CheckServed(k) PROVE PanelInv'
  <2>1. /\ net[k].kind = "check"
        /\ net' = [net EXCEPT ![k].answer = [ids |-> Panel!Conflicts(net[k].window)]]
        /\ UNCHANGED <<db, rows, totals, more, pages, tab, filter, loading, selected, acts, adding>>
    BY <1>22 DEF Panel!CheckServed
  <2>2. net[k] \in CheckCalls
    BY <1>0, <2>1 DEF NetOK, CallOK, PanelCalls, Panel!Free, Decisions, ListCalls, CreateCalls
  <2>3. PICK S : S = Panel!Conflicts(net[k].window) OBVIOUS
  <2>4. S \subseteq Ids /\ AllInTheWay(S, net[k].window)
    BY <2>3 DEF Panel!Conflicts, AllInTheWay, InTheWay, Panel!Statuses
  <2>5. PICK c : c = [net[k] EXCEPT !.answer = [ids |-> S]] OBVIOUS
  <2>6. /\ c \in CheckCalls /\ c.window = net[k].window /\ c.answer.ids = S
        /\ c.kind = "check" /\ c.mounted = net[k].mounted
    BY <2>1, <2>2, <2>4, <2>5 DEF CheckCalls
  <2>7. CallOK(c) BY <2>4, <2>6 DEF CallOK, PanelCalls
  <2>8. net' = [net EXCEPT ![k] = c] BY <2>1, <2>3, <2>5
  <2>9. DbLasts BY <2>1 DEF DbLasts
  <2>10. NetOK' BY <1>0, <2>7, <2>8, <2>9, OneCall, CallStaysOK
  <2>11. ShowOK' /\ DbOK' /\ FormOK' BY <1>0, <2>1, <2>9, FormStaysOK DEF ShowOK, DbOK
  <2>12. \A j \in 1 .. MaxCalls : net'[j] = net[j] \/ (j = k /\ net'[j] = c)
    BY <1>0, <2>8 DEF NetOK
  <2>13. MountedOK' BY <1>0, <2>1, <2>6, <2>12 DEF MountedOK
  <2> QED BY <2>10, <2>11, <2>13 DEF PanelInv
<1>23. ASSUME NEW k \in 1 .. MaxCalls, Panel!CheckArrives(k) PROVE PanelInv'
  <2>1. /\ net[k].kind = "check" /\ net[k].answer # Panel!Free
        /\ adding' = IF ~net[k].mounted THEN adding
                     ELSE [adding EXCEPT !.checking = FALSE,
                             !.review = IF net[k].answer.ids = {} THEN @
                                        ELSE [shown |-> net[k].answer.ids, window |-> net[k].window]]
        /\ net' = [net EXCEPT ![k] = IF net[k].answer.ids = {}
                                     THEN Panel!CreateCall(net[k].window, {}) ELSE Panel!Free]
        /\ UNCHANGED <<db, rows, totals, more, pages, tab, filter, loading, selected, acts>>
    BY <1>23 DEF Panel!CheckArrives, Panel!Reviewed
  <2>2. net[k] \in CheckCalls
    BY <1>0, <2>1 DEF NetOK, CallOK, PanelCalls, Panel!Free, Decisions, ListCalls, CreateCalls
  <2>3. /\ net[k].window \in Forms /\ net[k].answer.ids \subseteq Ids
        /\ AllInTheWay(net[k].answer.ids, net[k].window)
    BY <1>0, <2>1, <2>2 DEF CheckCalls, NetOK, CallOK
  <2>4. PICK w \in Forms, S \in SUBSET Ids : w = net[k].window /\ S = net[k].answer.ids BY <2>3
  <2>5. PICK c : c = IF S = {} THEN Panel!CreateCall(w, {}) ELSE Panel!Free OBVIOUS
  <2>6. CallOK(c) /\ c.kind # "check"
    <3>1. Panel!CreateCall(w, {}) \in CreateCalls /\ AllInTheWay({}, w)
      BY DEF Panel!CreateCall, CreateCalls, AllInTheWay
    <3>2. CallOK(Panel!CreateCall(w, {})) /\ Panel!CreateCall(w, {}).kind # "check"
      BY <3>1 DEF CallOK, PanelCalls, Panel!CreateCall
    <3> QED BY <1>4, <2>5, <3>2, Zenon
  <2>7. net' = [net EXCEPT ![k] = c] BY <2>1, <2>4, <2>5
  <2>8. DbLasts BY <2>1 DEF DbLasts
  <2>9. NetOK' BY <1>0, <2>6, <2>7, <2>8, OneCall, CallStaysOK
  <2>10. ShowOK' /\ DbOK' BY <1>0, <2>1 DEF ShowOK, DbOK
  <2>11. \A j \in 1 .. MaxCalls : net'[j] = net[j] \/ net'[j] = c BY <1>0, <2>7 DEF NetOK
  <2>12. CASE ~net[k].mounted
    <3>1. adding' = adding BY <2>1, <2>12
    <3>2. FormOK' BY <1>0, <2>8, <3>1, FormStaysOK
    <3>3. MountedOK' BY <1>0, <2>6, <2>11, <3>1 DEF MountedOK
    <3> QED BY <2>9, <2>10, <3>2, <3>3 DEF PanelInv
  <2>13. CASE net[k].mounted
    <3>1. adding.open BY <1>0, <2>1, <2>13 DEF MountedOK
    <3>2. adding \in OpenForm BY <1>0, <3>1 DEF FormOK, Panel!Closed
    <3>3. CASE S = {}
      <4>1. adding' = [adding EXCEPT !.checking = FALSE, !.review = @] BY <2>1, <2>4, <2>13, <3>3
      <4>2. adding' \in OpenForm /\ adding'.review = adding.review BY <3>2, <4>1 DEF OpenForm
      <4>3. adding.review # Panel!NoReview => AllInTheWay(adding.review.shown, adding.review.window)
        BY <1>0, <3>1 DEF FormOK
      <4>4. FormOK' BY <2>1, <4>2, <4>3 DEF FormOK, AllInTheWay, InTheWay
      <4>5. MountedOK' BY <4>2 DEF MountedOK, OpenForm
      <4> QED BY <2>9, <2>10, <4>4, <4>5 DEF PanelInv
    <3>4. CASE S # {}
      <4>1. adding' = [adding EXCEPT !.checking = FALSE, !.review = [shown |-> S, window |-> w]]
        BY <2>1, <2>4, <2>13, <3>4
      <4>2. [shown |-> S, window |-> w] \in Reviews BY DEF Reviews
      <4>3. adding' \in OpenForm /\ adding'.review = [shown |-> S, window |-> w]
        BY <3>2, <4>1, <4>2 DEF OpenForm
      <4>4. AllInTheWay(S, w) BY <2>3, <2>4
      <4>5. AllInTheWay(S, w)' BY <2>8, <4>4, StillInTheWay
      <4>6. FormOK' BY <4>3, <4>5 DEF FormOK
      <4>7. MountedOK' BY <4>3 DEF MountedOK, OpenForm
      <4> QED BY <2>9, <2>10, <4>6, <4>7 DEF PanelInv
    <3> QED BY <3>3, <3>4
  <2> QED BY <2>12, <2>13
(* Closing the form: its checks know that it is closed.                    *)
<1>24. ASSUME NEW j, NEW c, CallOK(c), c.kind # "check", UNCHANGED db, adding' = Panel!Closed,
              ShowOK', net' \in {Panel!Unmounted, [Panel!Unmounted EXCEPT ![j] = c]}
       PROVE  PanelInv'
  <2>1. DbLasts BY <1>24 DEF DbLasts
  <2>2. DbOK' /\ FormOK' BY <1>0, <1>24 DEF DbOK, FormOK, Panel!Closed
  <2>3. DOMAIN net = 1 .. MaxCalls BY <1>0 DEF NetOK
  <2>4. ASSUME NEW k \in 1 .. MaxCalls
        PROVE  CallOK(Panel!Unmounted[k]) /\ ~(Panel!Unmounted[k].kind = "check" /\ Panel!Unmounted[k].mounted)
    <3>1. CASE net[k].kind # "check" BY <1>0, <2>3, <3>1 DEF NetOK, Panel!Unmounted
    <3>2. CASE net[k].kind = "check"
      <4>1. CallOK(net[k]) BY <1>0 DEF NetOK
      <4>2. net[k] \in CheckCalls
        BY <3>2, <4>1 DEF CallOK, PanelCalls, Panel!Free, Decisions, ListCalls, CreateCalls
      <4>3. PICK d : d = [net[k] EXCEPT !.mounted = FALSE] OBVIOUS
      <4>4. /\ d \in CheckCalls /\ d.kind = "check" /\ d.answer = net[k].answer
            /\ d.window = net[k].window /\ ~d.mounted
        BY <3>2, <4>2, <4>3 DEF CheckCalls
      <4>5. CallOK(d) BY <3>2, <4>1, <4>4 DEF CallOK, PanelCalls
      <4>6. Panel!Unmounted[k] = d BY <2>3, <3>2, <4>3 DEF Panel!Unmounted
      <4> QED BY <4>4, <4>5, <4>6
    <3> QED BY <3>1, <3>2
  <2>5. PICK un : un = Panel!Unmounted OBVIOUS
  <2>6. un = [k \in 1 .. MaxCalls |-> un[k]] BY <2>3, <2>5 DEF Panel!Unmounted
  <2>7. net' \in {un, [un EXCEPT ![j] = c]} BY <1>24, <2>5
  <2>8. /\ net' = [k \in 1 .. MaxCalls |-> net'[k]]
        /\ \A k \in 1 .. MaxCalls : net'[k] \in {un[k], c}
    BY <2>6, <2>7
  <2>9. \A k \in 1 .. MaxCalls : CallOK(un[k]) /\ ~(un[k].kind = "check" /\ un[k].mounted)
    BY <2>4, <2>5
  <2>10. NetOK'
    <3>1. \A k \in 1 .. MaxCalls : CallOK(net'[k]) BY <1>24, <2>8, <2>9
    <3>2. \A k \in 1 .. MaxCalls : CallOK(net[k])'
      <4> SUFFICES ASSUME NEW k \in 1 .. MaxCalls PROVE CallOK(net[k])' OBVIOUS
      <4>1. PICK d : d = net'[k] OBVIOUS
      <4>2. CallOK(d) BY <3>1, <4>1
      <4>3. CallOK(d)' BY <2>1, <4>2, CallStaysOK
      <4> QED BY <4>1, <4>3
    <3> QED BY <2>8, <3>2 DEF NetOK
  <2>11. MountedOK' BY <1>24, <2>8, <2>9 DEF MountedOK
  <2> QED BY <1>24, <2>2, <2>10, <2>11 DEF PanelInv
<1>25. ASSUME Panel!CloseCreate PROVE PanelInv'
  <2>1. /\ adding' = Panel!Closed /\ net' = Panel!Unmounted
        /\ UNCHANGED <<db, rows, totals, more, pages, tab, filter, loading, selected, acts>>
    BY <1>25 DEF Panel!CloseCreate
  <2>2. ShowOK' BY <1>0, <2>1 DEF ShowOK
  <2> QED BY <1>4, <1>24, <2>1, <2>2
<1>26. ASSUME NEW k \in 1 .. MaxCalls, Panel!handleCreate(k) PROVE PanelInv'
  <2>1. /\ net[k].kind = "create" /\ net[k].answer # Panel!Free
        /\ rows' \subseteq rows \cup {net[k].answer}
        /\ tab' = "approved" /\ adding' = Panel!Closed
        /\ net' = [Panel!Unmounted EXCEPT ![k] = Panel!Free]
        /\ UNCHANGED <<db, totals, more, pages, loading, selected, filter, acts>>
    BY <1>26 DEF Panel!handleCreate
  <2>2. net[k] \in CreateCalls
    BY <1>0, <2>1 DEF NetOK, CallOK, PanelCalls, Panel!Free, Decisions, ListCalls, CheckCalls
  <2>3. net[k].answer \in PanelRows BY <2>1, <2>2 DEF CreateCalls
  <2>4. ShowOK' BY <1>0, <2>1, <2>3 DEF ShowOK, Panel!Statuses
  <2> QED BY <1>4, <1>24, <2>1, <2>4
<1>27. ASSUME NEW k \in 1 .. MaxCalls, Panel!CreateServed(k) PROVE PanelInv'
  <2>1. /\ net[k].kind = "create"
        /\ UNCHANGED <<rows, totals, more, pages, tab, filter, loading, selected, acts, adding>>
    BY <1>27 DEF Panel!CreateServed
  <2>2. net[k] \in CreateCalls /\ CallOK(net[k])
    BY <1>0, <2>1 DEF NetOK, CallOK, PanelCalls, Panel!Free, Decisions, ListCalls, CheckCalls
  <2>3. PICK w \in Forms, S \in SUBSET Ids : w = net[k].window /\ S = net[k].forced
    BY <2>2 DEF CreateCalls
  <2>4. PICK a : a = [id |-> NewId, status |-> "approved", cut |-> {}] OBVIOUS
  <2>5. a \in PanelRows BY <2>4, ScreensAssumption DEF PanelRows, DbStatuses
  <2>6. PICK c : c \in {Panel!Free, [net[k] EXCEPT !.answer = a]} /\ net' = [net EXCEPT ![k] = c]
    BY <1>27, <2>4 DEF Panel!CreateServed
  <2>7. CallOK(c) /\ c.kind # "check"
    <3>1. CASE c = Panel!Free BY <1>4, <3>1
    <3>2. CASE c = [net[k] EXCEPT !.answer = a]
      <4>1. /\ c \in CreateCalls /\ c.kind = "create" /\ c.window = net[k].window
            /\ c.forced = net[k].forced
        BY <2>2, <2>5, <3>2 DEF CreateCalls
      <4>2. AllInTheWay(c.forced, c.window) BY <2>1, <2>2, <4>1 DEF CallOK
      <4> QED BY <4>1, <4>2 DEF CallOK, PanelCalls
    <3> QED BY <2>6, <3>1, <3>2
  <2>8. \/ db' = db
        \/ /\ db[NewId].status = "none"
           /\ db' = [i \in Ids |->
                       IF i = NewId THEN [db[i] EXCEPT !.status = "approved", !.window = w]
                       ELSE IF i \in S /\ db[i].status \in Panel!Statuses
                       THEN [db[i] EXCEPT !.status = "canceled"] ELSE db[i]]
    BY <1>27, <2>3 DEF Panel!CreateServed
  <2>9. DbLasts /\ DbOK'
    <3>1. CASE db' = db BY <1>0, <3>1 DEF DbLasts, DbOK
    <3>2. CASE db' # db
      <4>1. /\ db[NewId].status = "none"
            /\ db' = [i \in Ids |-> db'[i]]
            /\ \A i \in Ids : db'[i] \in {db[i], [db[i] EXCEPT !.status = "canceled"]} \cup
                  (IF i = NewId THEN {[db[i] EXCEPT !.status = "approved", !.window = w]} ELSE {})
        BY <2>8, <3>2
      <4>2. \A r \in DbRows : /\ [r EXCEPT !.status = "approved", !.window = w] \in DbRows
                             /\ [r EXCEPT !.status = "canceled"] \in DbRows
                             /\ [r EXCEPT !.status = "canceled"].status # "none"
                             /\ [r EXCEPT !.status = "canceled"].window = r.window
        BY DEF DbRows, DbStatuses
      <4>3. \A i \in Ids : db[i] \in DbRows BY <1>0 DEF DbOK
      <4>4. DbLasts BY <4>1, <4>2, <4>3 DEF DbLasts
      <4>5. ASSUME NEW i \in Ids PROVE db'[i] \in DbRows
        <5>1. PICK r \in DbRows : r = db[i] BY <4>3
        <5>2. db'[i] \in {r, [r EXCEPT !.status = "canceled"], [r EXCEPT !.status = "approved", !.window = w]}
          BY <4>1, <5>1, Zenon
        <5> QED BY <4>2, <5>2
      <4>6. db' \in [Ids -> DbRows]
        <5> HIDE DEF DbRows
        <5> QED BY <4>1, <4>5
      <4>7. DbOK' BY <4>6 DEF DbOK, DbRows, Forms
      <4> QED BY <4>4, <4>7
    <3> QED BY <3>1, <3>2
  <2>11. ShowOK' /\ FormOK' BY <1>0, <2>1, <2>9, FormStaysOK DEF ShowOK
  <2>12. NetOK' BY <1>0, <2>6, <2>7, <2>9, OneCall, CallStaysOK
  <2>13. \A j \in 1 .. MaxCalls : net'[j] = net[j] \/ net'[j] = c BY <1>0, <2>6 DEF NetOK
  <2>14. MountedOK' BY <1>0, <2>1, <2>7, <2>13 DEF MountedOK
  <2> QED BY <2>9, <2>11, <2>12, <2>14 DEF PanelInv
<1>28. ASSUME NEW k \in 1 .. MaxCalls, Panel!CallGoesOn(k) PROVE PanelInv'
  BY <1>9, <1>10, <1>20, <1>22, <1>23, <1>26, <1>27, <1>28 DEF Panel!CallGoesOn
<1>29. DOMAIN net = 1 .. MaxCalls BY <1>0 DEF NetOK
<1> QED
  BY <1>8, <1>11, <1>12, <1>13, <1>14, <1>15, <1>16, <1>17, <1>18, <1>19, <1>21, <1>25, <1>28, <1>29
  DEF Panel!Next

LEMMA PanelTyped ==
  ASSUME PanelInv
  PROVE  Panel!TypeOK
<1>1. \A r \in rows \cup {selected} : r.id \in Ids \cup {0}
  BY DEF PanelInv, ShowOK, PanelRows, Panel!NoRow
<1>2. DOMAIN net = 1 .. MaxCalls BY DEF PanelInv, NetOK
<1> QED BY <1>1, <1>2 DEF PanelInv, ShowOK, Numbers, Panel!TypeOK

LEMMA PanelStays == Spec => [](screen = "reservations" => PanelInv)
<1>1. Init => (screen = "reservations" => PanelInv) BY FirstPage, PanelFirst
<1>2. ASSUME PanelInv, UNCHANGED Panel!panelVars PROVE PanelInv'
  <2>1. UNCHANGED <<db, rows, totals, more, pages, tab, filter, loading, selected, adding, net, acts>>
    BY <1>2 DEF Panel!panelVars
  <2>2. DbLasts BY <2>1 DEF DbLasts
  <2>3. DbOK' /\ ShowOK' /\ MountedOK' BY <1>2, <2>1 DEF PanelInv, DbOK, ShowOK, MountedOK
  <2>4. FormOK' BY <1>2, <2>1, <2>2, FormStaysOK DEF PanelInv
  <2>5. NetOK' BY <1>2, <2>1, <2>2, CallStaysOK DEF PanelInv, NetOK
  <2> QED BY <2>3, <2>4, <2>5 DEF PanelInv
<1>3. (screen = "reservations" => PanelInv) /\ [Next]_vars => (screen = "reservations" => PanelInv)'
  BY <1>2, PageSteps, PanelStep
<1> QED BY <1>1, <1>3, PTL DEF Spec

(* A forced creation cancels only what stands in the way of the window it  *)
(* is sent with, although the form can be changed, closed and opened again *)
(* while it is checked.                                                    *)
THEOREM CreatingCancelsItsOwn == Spec => []CancelsWhatIsInTheWay
<1>1. PanelInv => Panel!CancelsWhatIsInTheWay
  <2> SUFFICES ASSUME PanelInv, NEW k \in DOMAIN net, net[k].kind = "create"
               PROVE  /\ net[k].window.start < net[k].window.end
                      /\ \A i \in net[k].forced : /\ db[i].window.room = net[k].window.room
                                                  /\ db[i].window.start < net[k].window.end
                                                  /\ net[k].window.start < db[i].window.end
    BY DEF Panel!CancelsWhatIsInTheWay
  <2>1. CallOK(net[k]) BY DEF PanelInv, NetOK
  <2>2. net[k] \in CreateCalls
    BY <2>1 DEF CallOK, PanelCalls, Panel!Free, Decisions, ListCalls, CheckCalls
  <2>3. net[k].window.start < net[k].window.end BY <2>2 DEF CreateCalls, Forms
  <2>4. AllInTheWay(net[k].forced, net[k].window) BY <2>1 DEF CallOK
  <2> QED BY <2>3, <2>4 DEF AllInTheWay, InTheWay
<1>2. (screen = "reservations" => PanelInv) => CancelsWhatIsInTheWay BY <1>1 DEF CancelsWhatIsInTheWay
<1> QED BY <1>2, PanelStays, PTL

(***************************************************************************)
(* Rooms and day-offs: what is sent for a day-off was checked for it.      *)
(***************************************************************************)
RoomRecord == [known : {TRUE}, active : BOOLEAN, hours : Studio!Hours]
RoomOrNone == RoomRecord \cup {Studio!NoRoom}
BookingIds == DOMAIN BookedSlots

Drafts ==
  {d \in [room : StudioRooms \cup {Studio!All}, type : Studio!Kinds, date : {1} \cup OffDates,
          endDate : {1} \cup OffDates, allDay : BOOLEAN, start : 0 .. LastSlot, end : 1 .. LastSlot + 1] :
     d.start < d.end}

Covered(d, ids) == \A b \in ids : Studio!Covers(Studio!toDayOffRequest(d), b)

Impacts == {a \in [draft : Drafts, ids : SUBSET BookingIds] : Covered(a.draft, a.ids)}
Views ==
  [name : {"list", "gone", "room-create", "dayoff-create"}, arg : {0}] \cup
  [name : Studio!RoomViews, arg : StudioRooms] \cup [name : Studio!OffViews, arg : OffIds] \cup
  [name : {"dayoff-impact"}, arg : Impacts]
ViewsNow == {v \in Views : v.name \in Studio!RoomViews => roomRows[v.arg] # Studio!NoRoom}

RoomEntries == [on : {"room"}, hours : Studio!Hours, active : BOOLEAN]
EntryFits(v, e) ==
  CASE v.name \in {"room-edit", "room-create"}     -> e \in RoomEntries
    [] v.name \in {"room-delete", "dayoff-delete"} -> e \in [on : {"confirm"}, typed : BOOLEAN]
    [] v.name = "dayoff-create"                    -> e \in [on : {"dayoff"}, draft : Drafts]
    [] OTHER                                       -> e = Studio!NoEntry

RoomRequest == [hours : Studio!Hours]
Checks   == {c \in [kind : {"check"}, draft : Drafts, ids : {Studio!Unasked} \cup SUBSET BookingIds] :
               c.ids = Studio!Unasked \/ Covered(c.draft, c.ids)}
Creates  == {c \in [kind : {"create"}, draft : Drafts, forced : SUBSET BookingIds, off : {0} \cup OffIds] :
               Covered(c.draft, c.forced)}
Requests ==
  {Studio!Free} \cup [kind : {"save"}, room : StudioRooms, data : RoomRequest] \cup
  [kind : {"add"}, room : {0} \cup StudioRooms, data : RoomRequest] \cup [kind : {"remove"}, room : StudioRooms] \cup
  Checks \cup Creates \cup [kind : {"drop"}, off : OffIds, done : BOOLEAN]

ServerOK == studio \in [StudioRooms -> RoomOrNone] /\ canceled \subseteq BookingIds
RowsOK ==
  /\ roomRows \in [StudioRooms -> RoomOrNone]
  /\ \A r \in StudioRooms : roomRows[r] # Studio!NoRoom => studio[r] # Studio!NoRoom
PanelOK == opening \subseteq {"rooms", "daysOff"} /\ roomTab \in {"rooms", "daysOff"}
PathOK  == path \in Seq(ViewsNow) /\ path # <<>> /\ EntryFits(path[Len(path)], entry)

(* A request about a room is about one the server has.                     *)
AboutRoom(c) == c.kind \in {"save", "remove"} \/ (c.kind = "add" /\ c.room # 0)
RequestOK(c) == c \in Requests /\ (AboutRoom(c) => studio[c.room] # Studio!NoRoom)
RequestsOK   == /\ roomCalls = [k \in 1 .. MaxCalls |-> roomCalls[k]]
                /\ \A k \in 1 .. MaxCalls : RequestOK(roomCalls[k])

StudioInv == ServerOK /\ RowsOK /\ PanelOK /\ PathOK /\ RequestsOK

LEMMA RequestRuns ==
  ASSUME NEW d \in Drafts
  PROVE  Studio!toDayOffRequest(d).start < Studio!toDayOffRequest(d).end
<1>1. LastSlot \in Nat BY ScreensAssumption
<1> QED BY <1>1 DEF Drafts, Studio!toDayOffRequest

LEMMA DefaultDraft == Studio!defaultDayOffDraft \in Drafts
<1>1. LastSlot \in Nat BY ScreensAssumption
<1>2. 0 \in 0 .. LastSlot /\ LastSlot + 1 \in 1 .. LastSlot + 1 /\ 0 < LastSlot + 1 BY <1>1
<1> QED BY <1>2 DEF Drafts, Studio!defaultDayOffDraft, Studio!Kinds

LEMMA DraftStaysForwards ==
  ASSUME NEW d \in Drafts, NEW e \in Studio!Edited(d)
  PROVE  e \in Drafts
<1>1. LastSlot \in Nat BY ScreensAssumption
<1>2. d.start \in Nat /\ d.end \in Nat /\ d.start < d.end BY DEF Drafts
<1>3. CASE \E r \in Studio!activeRooms \cup {Studio!All} : e = [d EXCEPT !.room = r]
  BY <1>3 DEF Drafts, Studio!activeRooms
<1>4. CASE \/ \E t \in Studio!Kinds : e = [d EXCEPT !.type = t]
           \/ \E x \in OffDates : e = [d EXCEPT !.date = x] \/ e = [d EXCEPT !.endDate = x]
           \/ e = [d EXCEPT !.allDay = ~@]
  BY <1>4 DEF Drafts
<1>5. CASE \E s \in 0 .. LastSlot : e = Studio!StartingAt(d, s)
  <2>1. PICK s \in 0 .. LastSlot : e = [d EXCEPT !.start = s, !.end = IF @ <= s THEN s + 1 ELSE @]
    BY <1>5 DEF Studio!StartingAt
  <2>2. s + 1 \in 1 .. LastSlot + 1 /\ s < s + 1 /\ (~(d.end <= s) => s < d.end) BY <1>1, <1>2
  <2> QED BY <2>1, <2>2 DEF Drafts
<1>6. CASE \E x \in d.start + 1 .. LastSlot + 1 : e = [d EXCEPT !.end = x]
  <2>1. PICK x \in d.start + 1 .. LastSlot + 1 : e = [d EXCEPT !.end = x] BY <1>6
  <2>2. x \in 1 .. LastSlot + 1 /\ d.start < x BY <1>1, <1>2
  <2> QED BY <2>1, <2>2 DEF Drafts
<1> QED BY <1>3, <1>4, <1>5, <1>6 DEF Studio!Edited

LEMMA MountedFits ==
  ASSUME NEW v \in ViewsNow, RowsOK
  PROVE  EntryFits(v, Studio!Mounted(v))
<1>1. v.name = "room-edit" => roomRows[v.arg] \in RoomRecord
  BY DEF ViewsNow, Views, RowsOK, RoomOrNone, Studio!RoomViews, Studio!OffViews
<1>2. v.name = "room-edit" => EntryFits(v, Studio!Mounted(v))
  BY <1>1 DEF EntryFits, Studio!Mounted, RoomRecord, RoomEntries
<1>3. v.name # "room-edit" => EntryFits(v, Studio!Mounted(v))
  BY DefaultDraft DEF EntryFits, Studio!Mounted, RoomEntries, Studio!Hours
<1> QED BY <1>2, <1>3

LEMMA StudioFirst ==
  ASSUME Studio!Init
  PROVE  StudioInv
<1>1. ServerOK /\ RowsOK /\ PanelOK
  BY DEF Studio!Init, ServerOK, RowsOK, PanelOK, RoomOrNone, RoomRecord, Studio!Room, Studio!Hours
<1>2. RequestsOK BY DEF Studio!Init, RequestsOK, RequestOK, AboutRoom, Requests, Studio!Free
<1>3. path = <<[name |-> "list", arg |-> 0]>> /\ entry = Studio!NoEntry
  BY DEF Studio!Init, Studio!List, Studio!View
<1>4. [name |-> "list", arg |-> 0] \in ViewsNow BY DEF ViewsNow, Views, Studio!RoomViews
<1>5. PathOK BY <1>3, <1>4 DEF PathOK, EntryFits
<1> QED BY <1>1, <1>2, <1>5 DEF StudioInv

(* A room that is known stays known.                                       *)
RowsLast == \A r \in StudioRooms : roomRows[r] # Studio!NoRoom => roomRows'[r] # Studio!NoRoom
RoomsLast == \A r \in StudioRooms : studio[r] # Studio!NoRoom => studio'[r] # Studio!NoRoom

LEMMA ViewsLast ==
  ASSUME RowsLast
  PROVE  ViewsNow \subseteq ViewsNow'
<1> SUFFICES ASSUME NEW v \in ViewsNow PROVE v \in ViewsNow' OBVIOUS
<1>1. v \in Views BY DEF ViewsNow
<1>2. v.name \in Studio!RoomViews => v.arg \in StudioRooms
  BY <1>1 DEF Views, Studio!RoomViews, Studio!OffViews
<1> QED BY <1>1, <1>2 DEF ViewsNow, RowsLast

LEMMA PathStays ==
  ASSUME PathOK, RowsLast, UNCHANGED <<path, entry>>
  PROVE  PathOK'
<1>1. ViewsNow \subseteq ViewsNow' BY ViewsLast
<1>2. path \in Seq(ViewsNow') BY <1>1 DEF PathOK
<1> QED BY <1>2 DEF PathOK

LEMMA GotoFits ==
  ASSUME PathOK, RowsOK, RowsLast, NEW stack \in Seq(ViewsNow), stack # <<>>, Studio!Goto(stack)
  PROVE  PathOK'
<1> DEFINE v == stack[Len(stack)]
<1>1. v \in ViewsNow OBVIOUS
<1>2. EntryFits(v, Studio!Mounted(v)) BY <1>1, MountedFits
<1>3. path' = stack /\ entry' = IF v = path[Len(path)] THEN entry ELSE Studio!Mounted(v)
  BY DEF Studio!Goto, Studio!Top, Studio!Last
<1>4. EntryFits(v, entry') BY <1>2, <1>3 DEF PathOK
<1>5. ViewsNow \subseteq ViewsNow' BY ViewsLast
<1>6. stack \in Seq(ViewsNow') BY <1>5
<1> QED BY <1>3, <1>4, <1>6 DEF PathOK

LEMMA ListIsPath ==
  /\ Studio!List \in Seq(ViewsNow) /\ Studio!List # <<>>
  /\ Studio!List[Len(Studio!List)] = [name |-> "list", arg |-> 0]
<1>1. [name |-> "list", arg |-> 0] \in ViewsNow BY DEF ViewsNow, Views, Studio!RoomViews
<1> QED BY <1>1 DEF Studio!List, Studio!View

LEMMA BackIsPath ==
  ASSUME PathOK
  PROVE  Studio!Back \in Seq(ViewsNow) /\ Studio!Back # <<>>
<1>1. path \in Seq(ViewsNow) BY DEF PathOK
<1>2. Len(path) > 1 => /\ SubSeq(path, 1, Len(path) - 1) \in Seq(ViewsNow)
                       /\ SubSeq(path, 1, Len(path) - 1) # <<>>
  <2> SUFFICES ASSUME Len(path) > 1
               PROVE  /\ SubSeq(path, 1, Len(path) - 1) \in Seq(ViewsNow)
                      /\ SubSeq(path, 1, Len(path) - 1) # <<>>
    OBVIOUS
  <2>1. Len(path) \in Nat BY <1>1
  <2>2. /\ 1 \in Int /\ Len(path) - 1 \in Int /\ 1 <= Len(path) - 1
        /\ \A n \in 1 .. Len(path) - 1 : n \in 1 .. Len(path)
    BY <2>1
  <2>3. \A n \in 1 .. Len(path) - 1 : path[n] \in ViewsNow BY <1>1, <2>2
  <2>4. /\ SubSeq(path, 1, Len(path) - 1) \in Seq(ViewsNow)
        /\ Len(SubSeq(path, 1, Len(path) - 1)) = Len(path) - 1 - 1 + 1
    BY <2>2, <2>3, SubSeqProperties
  <2>5. \A n \in Nat : n > 1 => n - 1 - 1 + 1 # 0 OBVIOUS
  <2>6. Len(path) - 1 - 1 + 1 # 0 BY <2>1, <2>5
  <2>7. \A s : s = <<>> => Len(s) = 0 OBVIOUS
  <2> QED BY <2>4, <2>6, <2>7
<1> QED BY <1>2, ListIsPath DEF Studio!Back, Studio!Front

(* The view on top, and what is under it.                                  *)
LEMMA TopIs ==
  ASSUME PathOK
  PROVE  /\ Studio!Top = path[Len(path)] /\ Studio!Top \in ViewsNow /\ EntryFits(Studio!Top, entry)
         /\ Studio!Top.name \in Studio!RoomViews => Studio!Top.arg \in StudioRooms
         /\ Studio!Top.name \in Studio!OffViews => Studio!Top.arg \in OffIds
         /\ Studio!Top.name = "dayoff-impact" => Studio!Top.arg \in Impacts
<1>1. Studio!Top = path[Len(path)] /\ Studio!Top \in ViewsNow /\ EntryFits(Studio!Top, entry)
  BY DEF PathOK, Studio!Top, Studio!Last
<1>2. Studio!Top \in Views BY <1>1 DEF ViewsNow
<1> QED BY <1>1, <1>2 DEF Views, Studio!RoomViews, Studio!OffViews

LEMMA RequestStays ==
  ASSUME NEW c, RequestOK(c), RoomsLast
  PROVE  RequestOK(c)'
<1>1. AboutRoom(c) => c.room \in StudioRooms
  BY DEF RequestOK, AboutRoom, Requests, Checks, Creates, Studio!Free
<1> QED BY <1>1 DEF RequestOK, RoomsLast, AboutRoom, Requests, Checks, Creates, RoomRequest, Drafts, Impacts, Covered

LEMMA RequestsStay ==
  ASSUME RequestsOK, RoomsLast, roomCalls' = roomCalls
  PROVE  RequestsOK'
  BY RequestStays DEF RequestsOK

LEMMA OneRequest ==
  ASSUME RequestsOK, RoomsLast, NEW x, NEW c, roomCalls' = [roomCalls EXCEPT ![x] = c], RequestOK(c)'
  PROVE  RequestsOK'
<1>1. \A k \in 1 .. MaxCalls : roomCalls'[k] = roomCalls[k] \/ roomCalls'[k] = c
  BY DEF RequestsOK
<1>2. \A k \in 1 .. MaxCalls : RequestOK(roomCalls[k])' BY RequestStays DEF RequestsOK
<1>3. roomCalls' = [k \in 1 .. MaxCalls |-> roomCalls'[k]] BY DEF RequestsOK
<1> QED BY <1>1, <1>2, <1>3 DEF RequestsOK

(* The views of the panel, and what is typed in them.                      *)
LEMMA StudioViews ==
  ASSUME StudioInv,
         \/ Studio!goBack \/ Studio!OpenForm \/ Studio!DayOffDetailScreen \/ Studio!RoomDetailScreen
         \/ Studio!RoomFormScreen \/ Studio!RoomDeleteScreen
         \/ \E t \in {"rooms", "daysOff"} : Studio!SelectTab(t)
         \/ \E r \in StudioRooms : Studio!RoomList(r)
         \/ \E k \in OffIds : Studio!DayOffList(k)
         \/ Studio!On("dayoff-create") /\ \E d \in Studio!Edited(entry.draft) : Studio!DayOffCreateScreen(d)
  PROVE  StudioInv'
<1> USE DEF Studio!KeepServer, Studio!KeepRows
<1>0. ServerOK /\ RowsOK /\ PanelOK /\ PathOK /\ RequestsOK BY DEF StudioInv
<1>1. ASSUME UNCHANGED <<studio, canceled, roomRows, opening, roomCalls>>,
             roomTab' \in {roomTab, "rooms", "daysOff"}, PathOK'
      PROVE  StudioInv'
  <2>1. ServerOK' /\ RowsOK' /\ PanelOK' BY <1>0, <1>1 DEF ServerOK, RowsOK, PanelOK
  <2>2. RoomsLast BY <1>1 DEF RoomsLast
  <2> QED BY <1>0, <1>1, <2>1, <2>2, RequestsStay DEF StudioInv
<1>2. ASSUME UNCHANGED roomRows PROVE RowsLast BY <1>2 DEF RowsLast
<1>3. ASSUME NEW n, NEW a, [name |-> n, arg |-> a] \in ViewsNow, Studio!navigate(n, a)
      PROVE  StudioInv'
  <2>1. /\ Studio!Goto(Append(path, [name |-> n, arg |-> a]))
        /\ UNCHANGED <<studio, canceled, roomRows, opening, roomTab, roomCalls>>
    BY <1>3 DEF Studio!navigate, Studio!View
  <2>2. Append(path, [name |-> n, arg |-> a]) \in Seq(ViewsNow) /\ Append(path, [name |-> n, arg |-> a]) # <<>>
    BY <1>0, <1>3 DEF PathOK
  <2>3. PathOK' BY <1>0, <1>2, <2>1, <2>2, GotoFits
  <2> QED BY <1>1, <2>1, <2>3
<1>4. ASSUME NEW e, Studio!Fill(e), EntryFits(Studio!Top, e) PROVE StudioInv'
  <2>1. entry' = e /\ UNCHANGED <<studio, canceled, roomRows, opening, roomTab, path, roomCalls>>
    BY <1>4 DEF Studio!Fill
  <2>2. RowsLast BY <1>2, <2>1
  <2>3. path \in Seq(ViewsNow') BY <1>0, <2>2, ViewsLast DEF PathOK
  <2>4. PathOK' BY <1>0, <1>4, <2>1, <2>3, TopIs DEF PathOK
  <2> QED BY <1>1, <2>1, <2>4
<1>5. ASSUME Studio!goBack PROVE StudioInv'
  <2>1. Studio!Goto(Studio!Back) /\ UNCHANGED <<studio, canceled, roomRows, opening, roomTab, roomCalls>>
    BY <1>5 DEF Studio!goBack
  <2>2. PathOK' BY <1>0, <1>2, <2>1, GotoFits, BackIsPath
  <2> QED BY <1>1, <2>1, <2>2
<1>6. ASSUME Studio!OpenForm PROVE StudioInv'
  <2>1. /\ [name |-> "room-create", arg |-> 0] \in ViewsNow
        /\ [name |-> "dayoff-create", arg |-> 0] \in ViewsNow
    BY DEF ViewsNow, Views, Studio!RoomViews
  <2> QED BY <1>3, <1>6, <2>1 DEF Studio!OpenForm
<1>7. ASSUME Studio!DayOffDetailScreen PROVE StudioInv'
  <2>1. Studio!Top.arg \in OffIds /\ Studio!navigate("dayoff-delete", Studio!Top.arg)
    BY <1>0, <1>7, TopIs DEF Studio!DayOffDetailScreen, Studio!On, Studio!OffViews
  <2>2. [name |-> "dayoff-delete", arg |-> Studio!Top.arg] \in ViewsNow
    BY <2>1 DEF ViewsNow, Views, Studio!RoomViews, Studio!OffViews
  <2> QED BY <1>3, <2>1, <2>2
<1>8. ASSUME Studio!RoomDetailScreen PROVE StudioInv'
  <2>1. CASE Studio!navigate("room-edit", Studio!Top.arg) \/ Studio!navigate("room-delete", Studio!Top.arg)
    <3>1. Studio!On("room-detail") BY <1>8 DEF Studio!RoomDetailScreen
    <3>2. Studio!Top.arg \in StudioRooms /\ roomRows[Studio!Top.arg] # Studio!NoRoom
      BY <1>0, <3>1, TopIs DEF Studio!On, Studio!RoomViews
    <3>3. /\ [name |-> "room-edit", arg |-> Studio!Top.arg] \in ViewsNow
          /\ [name |-> "room-delete", arg |-> Studio!Top.arg] \in ViewsNow
      BY <3>2 DEF ViewsNow, Views, Studio!RoomViews
    <3> QED BY <1>3, <2>1, <3>3
  <2>2. CASE /\ roomTab' = "daysOff" /\ Studio!Goto(Studio!List)
             /\ UNCHANGED <<studio, canceled, roomRows, opening, roomCalls>>
    <3>1. PathOK' BY <1>0, <1>2, <2>2, GotoFits, ListIsPath
    <3> QED BY <1>1, <2>2, <3>1
  <2> QED BY <1>8, <2>1, <2>2 DEF Studio!RoomDetailScreen
<1>9. ASSUME Studio!RoomFormScreen PROVE StudioInv'
  <2>1. Studio!Top.name \in {"room-edit", "room-create"}
    BY <1>9 DEF Studio!RoomFormScreen, Studio!On
  <2>2. entry \in RoomEntries BY <1>0, <2>1, TopIs DEF EntryFits
  <2>3. /\ \A h \in Studio!Hours : [entry EXCEPT !.hours = h] \in RoomEntries
        /\ [entry EXCEPT !.active = ~@] \in RoomEntries
    BY <2>2 DEF RoomEntries
  <2>4. \A e \in RoomEntries : EntryFits(Studio!Top, e) BY <2>1 DEF EntryFits
  <2> QED BY <1>4, <1>9, <2>3, <2>4 DEF Studio!RoomFormScreen
<1>10. ASSUME Studio!RoomDeleteScreen PROVE StudioInv'
  <2>1. Studio!Top.name \in {"room-delete", "dayoff-delete"} /\ Studio!Fill([entry EXCEPT !.typed = ~@])
    BY <1>10 DEF Studio!RoomDeleteScreen, Studio!On
  <2>2. entry \in [on : {"confirm"}, typed : BOOLEAN] BY <1>0, <2>1, TopIs DEF EntryFits
  <2>3. [entry EXCEPT !.typed = ~@] \in [on : {"confirm"}, typed : BOOLEAN] BY <2>2
  <2>4. EntryFits(Studio!Top, [entry EXCEPT !.typed = ~@]) BY <2>1, <2>3 DEF EntryFits
  <2> QED BY <1>4, <2>1, <2>4
<1>11. ASSUME NEW t \in {"rooms", "daysOff"}, Studio!SelectTab(t) PROVE StudioInv'
  <2>1. roomTab' = t /\ UNCHANGED <<studio, canceled, roomRows, opening, path, entry, roomCalls>>
    BY <1>11 DEF Studio!SelectTab
  <2>2. PathOK' BY <1>0, <1>2, <2>1, PathStays
  <2> QED BY <1>1, <2>1, <2>2
<1>12. ASSUME NEW r \in StudioRooms, Studio!RoomList(r) PROVE StudioInv'
  <2>1. roomRows[r] # Studio!NoRoom /\ Studio!navigate("room-detail", r)
    BY <1>12 DEF Studio!RoomList, Studio!activeRooms
  <2>2. [name |-> "room-detail", arg |-> r] \in ViewsNow BY <2>1 DEF ViewsNow, Views, Studio!RoomViews
  <2> QED BY <1>3, <2>1, <2>2
<1>13. ASSUME NEW k \in OffIds, Studio!DayOffList(k) PROVE StudioInv'
  <2>1. Studio!navigate("dayoff-detail", k) BY <1>13 DEF Studio!DayOffList
  <2>2. [name |-> "dayoff-detail", arg |-> k] \in ViewsNow
    BY DEF ViewsNow, Views, Studio!RoomViews, Studio!OffViews
  <2> QED BY <1>3, <2>1, <2>2
<1>14. ASSUME NEW d \in Studio!Edited(entry.draft), Studio!DayOffCreateScreen(d) PROVE StudioInv'
  <2>1. Studio!Top.name = "dayoff-create" /\ Studio!Fill([entry EXCEPT !.draft = d])
    BY <1>14 DEF Studio!DayOffCreateScreen, Studio!On
  <2>2. entry \in [on : {"dayoff"}, draft : Drafts] BY <1>0, <2>1, TopIs DEF EntryFits
  <2>3. d \in Drafts BY <1>14, <2>2, DraftStaysForwards
  <2>4. [entry EXCEPT !.draft = d] \in [on : {"dayoff"}, draft : Drafts] BY <2>2, <2>3
  <2>5. EntryFits(Studio!Top, [entry EXCEPT !.draft = d]) BY <2>1, <2>4 DEF EntryFits
  <2> QED BY <1>4, <2>1, <2>5
<1> QED BY <1>5, <1>6, <1>7, <1>8, <1>9, <1>10, <1>11, <1>12, <1>13, <1>14

(* What the panel sends.                                                   *)
LEMMA StudioSends ==
  ASSUME StudioInv,
         \/ Studio!handleSaveRoom \/ Studio!SubmitRoom \/ Studio!ConfirmDeleteRoom
         \/ Studio!CheckDayOff \/ Studio!DayOffImpactScreen \/ Studio!ConfirmDeleteDayOff
  PROVE  StudioInv'
<1> USE DEF Studio!KeepServer, Studio!KeepRows
<1>0. ServerOK /\ RowsOK /\ PanelOK /\ PathOK /\ RequestsOK BY DEF StudioInv
<1>1. ASSUME NEW x, NEW c, roomCalls' = [roomCalls EXCEPT ![x] = c], RequestOK(c),
             UNCHANGED <<studio, canceled, roomRows, opening, roomTab, path, entry>>
      PROVE  StudioInv'
  <2>1. ServerOK' /\ RowsOK' /\ PanelOK' BY <1>0, <1>1 DEF ServerOK, RowsOK, PanelOK
  <2>2. RoomsLast /\ RowsLast BY <1>1 DEF RoomsLast, RowsLast
  <2>3. PathOK' BY <1>0, <1>1, <2>2, PathStays
  <2>4. RequestsOK' BY <1>0, <1>1, <2>2, OneRequest, RequestStays
  <2> QED BY <2>1, <2>3, <2>4 DEF StudioInv
<1>2. ASSUME Studio!handleSaveRoom PROVE StudioInv'
  <2> DEFINE r == Studio!Top.arg
             c == [kind |-> "save", room |-> r, data |-> [hours |-> entry.hours]]
  <2>1. /\ Studio!Top.name = "room-edit" /\ roomRows[r] # Studio!NoRoom
        /\ \E x : roomCalls' = [roomCalls EXCEPT ![x] = c]
        /\ roomRows' = [roomRows EXCEPT ![r] = Studio!Room(entry.active, entry.hours)]
        /\ path' = <<[name |-> "list", arg |-> 0], [name |-> "room-detail", arg |-> r]>>
        /\ entry' = Studio!NoEntry
        /\ UNCHANGED <<studio, canceled, opening, roomTab>>
    BY <1>2 DEF Studio!handleSaveRoom, Studio!On, Studio!RoomViews, Studio!Sent, Studio!View,
      Studio!toRoomRequest
  <2>2. r \in StudioRooms /\ entry \in RoomEntries /\ studio[r] # Studio!NoRoom
    BY <1>0, <2>1, TopIs DEF EntryFits, Studio!RoomViews, RowsOK
  <2> HIDE DEF r
  <2>3. Studio!Room(entry.active, entry.hours) \in RoomRecord
        /\ Studio!Room(entry.active, entry.hours) # Studio!NoRoom
    BY <2>2 DEF Studio!Room, RoomRecord, RoomEntries, Studio!NoRoom
  <2>4. RowsLast /\ RoomsLast BY <1>0, <2>1, <2>2, <2>3 DEF RowsLast, RoomsLast, RowsOK
  <2>5. ServerOK' /\ RowsOK' /\ PanelOK'
    BY <1>0, <2>1, <2>2, <2>3 DEF ServerOK, RowsOK, PanelOK, RoomOrNone
  <2>6. RequestOK(c) BY <2>2 DEF RequestOK, AboutRoom, Requests, RoomEntries, RoomRequest
  <2>7. RequestsOK'
    <3> HIDE DEF c
    <3> QED BY <1>0, <2>1, <2>4, <2>6, OneRequest, RequestStays
  <2>8. PathOK'
    <3>1. roomRows'[r] # Studio!NoRoom BY <1>0, <2>1, <2>2, <2>3 DEF RowsOK
    <3>2. /\ [name |-> "list", arg |-> 0] \in ViewsNow'
          /\ [name |-> "room-detail", arg |-> r] \in ViewsNow'
      BY <2>2, <3>1 DEF ViewsNow, Views, Studio!RoomViews
    <3> QED BY <2>1, <3>2 DEF PathOK, EntryFits
  <2> QED BY <2>5, <2>7, <2>8 DEF StudioInv
<1>3. ASSUME Studio!SubmitRoom PROVE StudioInv'
  <2> DEFINE c == [kind |-> "add", data |-> [hours |-> entry.hours], room |-> 0]
  <2>1. /\ Studio!Top.name = "room-create" /\ \E x : roomCalls' = [roomCalls EXCEPT ![x] = c]
        /\ UNCHANGED <<studio, canceled, roomRows, opening, roomTab, path, entry>>
    BY <1>3 DEF Studio!SubmitRoom, Studio!On, Studio!Sent, Studio!toRoomRequest
  <2>2. entry \in RoomEntries BY <1>0, <2>1, TopIs DEF EntryFits
  <2>3. RequestOK(c) BY <2>2 DEF RequestOK, AboutRoom, Requests, RoomEntries, RoomRequest
  <2> HIDE DEF c
  <2> QED BY <1>1, <2>1, <2>3
<1>4. ASSUME Studio!ConfirmDeleteRoom PROVE StudioInv'
  <2> DEFINE r == Studio!Top.arg
             c == [kind |-> "remove", room |-> r]
  <2>1. /\ Studio!Top.name = "room-delete" /\ roomRows[r] # Studio!NoRoom
        /\ \E x : roomCalls' = [roomCalls EXCEPT ![x] = c]
        /\ roomRows' = [roomRows EXCEPT ![r].active = FALSE]
        /\ Studio!Goto(Studio!List)
        /\ UNCHANGED <<studio, canceled, opening, roomTab>>
    BY <1>4 DEF Studio!ConfirmDeleteRoom, Studio!On, Studio!RoomViews, Studio!Sent
  <2>2. r \in StudioRooms /\ studio[r] # Studio!NoRoom
    BY <1>0, <2>1, TopIs DEF Studio!RoomViews, RowsOK
  <2> HIDE DEF r
  <2>3. roomRows[r] \in RoomRecord BY <1>0, <2>1, <2>2 DEF RowsOK, RoomOrNone
  <2>4. /\ [roomRows[r] EXCEPT !.active = FALSE] \in RoomRecord
        /\ [roomRows[r] EXCEPT !.active = FALSE] # Studio!NoRoom
    BY <2>3 DEF RoomRecord, Studio!NoRoom
  <2>5. roomRows' = [roomRows EXCEPT ![r] = [roomRows[r] EXCEPT !.active = FALSE]] BY <2>1
  <2>6. RowsLast /\ RoomsLast BY <1>0, <2>1, <2>2, <2>4, <2>5 DEF RowsLast, RoomsLast, RowsOK
  <2>7. ServerOK' /\ RowsOK' /\ PanelOK'
    BY <1>0, <2>1, <2>2, <2>4, <2>5 DEF ServerOK, RowsOK, PanelOK, RoomOrNone
  <2>8. RequestOK(c) BY <2>2 DEF RequestOK, AboutRoom, Requests
  <2>9. RequestsOK'
    <3> HIDE DEF c
    <3> QED BY <1>0, <2>1, <2>6, <2>8, OneRequest, RequestStays
  <2>10. PathOK' BY <1>0, <2>1, <2>6, GotoFits, ListIsPath
  <2> QED BY <2>7, <2>9, <2>10 DEF StudioInv
<1>5. ASSUME Studio!CheckDayOff PROVE StudioInv'
  <2> DEFINE c == [kind |-> "check", draft |-> entry.draft, ids |-> Studio!Unasked]
  <2>1. /\ Studio!Top.name = "dayoff-create" /\ \E x : roomCalls' = [roomCalls EXCEPT ![x] = c]
        /\ UNCHANGED <<studio, canceled, roomRows, opening, roomTab, path, entry>>
    BY <1>5 DEF Studio!CheckDayOff, Studio!On, Studio!Sent
  <2>2. entry \in [on : {"dayoff"}, draft : Drafts] BY <1>0, <2>1, TopIs DEF EntryFits
  <2>3. RequestOK(c) BY <2>2 DEF RequestOK, AboutRoom, Requests, Checks
  <2> HIDE DEF c
  <2> QED BY <1>1, <2>1, <2>3
<1>6. ASSUME Studio!DayOffImpactScreen PROVE StudioInv'
  <2>1. Studio!Top.name = "dayoff-impact" BY <1>6 DEF Studio!DayOffImpactScreen, Studio!On
  <2>2. Studio!Top.arg \in Impacts BY <1>0, <2>1, TopIs
  <2>3. CASE /\ \E x : roomCalls' = [roomCalls EXCEPT ![x] = Studio!CreateCall(Studio!Top.arg.draft, Studio!Top.arg.ids)]
             /\ UNCHANGED <<studio, canceled, roomRows, opening, roomTab, path, entry>>
    <3>1. RequestOK(Studio!CreateCall(Studio!Top.arg.draft, Studio!Top.arg.ids))
      BY <2>2 DEF RequestOK, AboutRoom, Requests, Creates, Impacts, Studio!CreateCall
    <3> QED BY <1>1, <2>3, <3>1
  <2>4. CASE /\ path' = <<[name |-> "gone", arg |-> 0]>> /\ entry' = Studio!NoEntry
             /\ UNCHANGED <<studio, canceled, roomRows, opening, roomTab, roomCalls>>
    <3>1. ServerOK' /\ RowsOK' /\ PanelOK' BY <1>0, <2>4 DEF ServerOK, RowsOK, PanelOK
    <3>2. [name |-> "gone", arg |-> 0] \in ViewsNow' BY DEF ViewsNow, Views, Studio!RoomViews
    <3>3. PathOK' BY <2>4, <3>2 DEF PathOK, EntryFits
    <3>4. RequestsOK' BY <1>0, <2>4, RequestsStay DEF RoomsLast
    <3> QED BY <3>1, <3>3, <3>4 DEF StudioInv
  <2> QED BY <1>6, <2>3, <2>4 DEF Studio!DayOffImpactScreen, Studio!Sent, Studio!Gone, Studio!View
<1>7. ASSUME Studio!ConfirmDeleteDayOff PROVE StudioInv'
  <2> DEFINE c == [kind |-> "drop", off |-> Studio!Top.arg, done |-> FALSE]
  <2>1. /\ Studio!Top.name = "dayoff-delete" /\ \E x : roomCalls' = [roomCalls EXCEPT ![x] = c]
        /\ UNCHANGED <<studio, canceled, roomRows, opening, roomTab, path, entry>>
    BY <1>7 DEF Studio!ConfirmDeleteDayOff, Studio!On, Studio!Sent
  <2>2. Studio!Top.arg \in OffIds BY <1>0, <2>1, TopIs DEF Studio!OffViews
  <2>3. RequestOK(c) BY <2>2 DEF RequestOK, AboutRoom, Requests
  <2> HIDE DEF c
  <2> QED BY <1>1, <2>1, <2>3
<1> QED BY <1>2, <1>3, <1>4, <1>5, <1>6, <1>7

LEMMA FreeIsRequest == RequestOK(Studio!Free)
  BY DEF RequestOK, AboutRoom, Requests, Studio!Free

(* What becomes of a request.                                              *)
LEMMA StudioAnswers ==
  ASSUME StudioInv, NEW k \in DOMAIN roomCalls,
         \/ Studio!handleCreateRoom(k) \/ Studio!handleCheckDayOff(k) \/ Studio!handleConfirmDayOff(k)
         \/ Studio!handleDeleteDayOff(k) \/ Studio!Refused(k) \/ Studio!RoomServed(k) \/ Studio!DayOffServed(k)
  PROVE  StudioInv'
<1> USE DEF Studio!KeepServer, Studio!KeepRows, Studio!Waits
<1> DEFINE call == roomCalls[k]
<1>0. /\ ServerOK /\ RowsOK /\ PanelOK /\ PathOK /\ RequestsOK
      /\ k \in 1 .. MaxCalls /\ RequestOK(call)
  BY DEF StudioInv, RequestsOK
<1>1. ASSUME NEW c, roomCalls' = [roomCalls EXCEPT ![k] = c], RequestOK(c),
             UNCHANGED <<studio, roomRows, opening>>, canceled' \subseteq BookingIds,
             roomTab' \in {roomTab, "daysOff"},
             UNCHANGED <<path, entry>> \/ \E s \in Seq(ViewsNow) : s # <<>> /\ Studio!Goto(s)
      PROVE  StudioInv'
  <2>1. ServerOK' /\ RowsOK' /\ PanelOK' BY <1>0, <1>1 DEF ServerOK, RowsOK, PanelOK
  <2>2. RoomsLast /\ RowsLast BY <1>1 DEF RoomsLast, RowsLast
  <2>3. PathOK' BY <1>0, <1>1, <2>2, PathStays, GotoFits
  <2>4. RequestsOK' BY <1>0, <1>1, <2>2, OneRequest, RequestStays
  <2> QED BY <2>1, <2>3, <2>4 DEF StudioInv
(* A room of the server comes to be, or changes.                           *)
<1>2. ASSUME NEW r \in StudioRooms, NEW v \in RoomRecord, studio' = [studio EXCEPT ![r] = v],
             NEW c, roomCalls' = [roomCalls EXCEPT ![k] = c], RequestOK(c)',
             UNCHANGED <<roomRows, opening, roomTab, path, entry>>, canceled' \subseteq BookingIds
      PROVE  StudioInv'
  <2>1. v # Studio!NoRoom BY DEF RoomRecord, Studio!NoRoom
  <2>2. RoomsLast /\ RowsLast BY <1>0, <1>2, <2>1 DEF RoomsLast, RowsLast, ServerOK
  <2>3. ServerOK' BY <1>0, <1>2 DEF ServerOK, RoomOrNone
  <2>4. RowsOK' /\ PanelOK' BY <1>0, <1>2, <2>2 DEF RowsOK, PanelOK, RoomsLast
  <2>5. PathOK' BY <1>0, <1>2, <2>2, PathStays
  <2>6. RequestsOK' BY <1>0, <1>2, <2>2, OneRequest
  <2> QED BY <2>3, <2>4, <2>5, <2>6 DEF StudioInv
<1>3. canceled \subseteq BookingIds BY <1>0 DEF ServerOK
<1>4. ASSUME Studio!handleCreateRoom(k) PROVE StudioInv'
  <2> DEFINE r == call.room
             v == Studio!Room(TRUE, call.data.hours)
  <2>1. /\ call.kind = "add" /\ r # 0 /\ roomRows' = [roomRows EXCEPT ![r] = v]
        /\ roomTab' = "rooms" /\ entry' = Studio!NoEntry
        /\ path' = <<[name |-> "list", arg |-> 0], [name |-> "room-detail", arg |-> r]>>
        /\ roomCalls' = [roomCalls EXCEPT ![k] = Studio!Free]
        /\ UNCHANGED <<studio, canceled, opening>>
    BY <1>4 DEF Studio!handleCreateRoom, Studio!View, Studio!Answered
  <2>2. r \in StudioRooms /\ call.data.hours \in Studio!Hours /\ studio[r] # Studio!NoRoom
    BY <1>0, <2>1 DEF RequestOK, AboutRoom, Requests, RoomRequest, Checks, Creates, Studio!Free
  <2>3. v \in RoomRecord /\ v # Studio!NoRoom BY <2>2 DEF Studio!Room, RoomRecord, Studio!NoRoom
  <2> HIDE DEF r, v, call
  <2>4. RowsLast /\ RoomsLast BY <1>0, <2>1, <2>2, <2>3 DEF RowsLast, RoomsLast, RowsOK
  <2>5. ServerOK' /\ RowsOK' /\ PanelOK'
    BY <1>0, <2>1, <2>2, <2>3 DEF ServerOK, RowsOK, PanelOK, RoomOrNone
  <2>6. RequestsOK' BY <1>0, <2>1, <2>4, FreeIsRequest, RequestStays, OneRequest
  <2>7. PathOK'
    <3>1. roomRows'[r] # Studio!NoRoom BY <1>0, <2>1, <2>2, <2>3 DEF RowsOK
    <3>2. /\ [name |-> "list", arg |-> 0] \in ViewsNow'
          /\ [name |-> "room-detail", arg |-> r] \in ViewsNow'
      BY <2>2, <3>1 DEF ViewsNow, Views, Studio!RoomViews
    <3> QED BY <2>1, <3>2 DEF PathOK, EntryFits
  <2> QED BY <2>5, <2>6, <2>7 DEF StudioInv
<1>5. ASSUME Studio!handleCheckDayOff(k) PROVE StudioInv'
  <2>1. call.kind = "check" /\ call.ids # Studio!Unasked BY <1>5 DEF Studio!handleCheckDayOff
  <2>2. call.draft \in Drafts /\ call.ids \subseteq BookingIds /\ Covered(call.draft, call.ids)
    <3>1. call \in Checks BY <1>0, <2>1 DEF RequestOK, Requests, Creates, Studio!Free
    <3> QED BY <2>1, <3>1 DEF Checks
  <2>3. CASE call.ids = {}
    <3>1. /\ roomCalls' = [roomCalls EXCEPT ![k] = Studio!CreateCall(call.draft, {})]
          /\ UNCHANGED <<studio, canceled, roomRows, opening, roomTab, path, entry>>
      BY <1>5, <2>3 DEF Studio!handleCheckDayOff
    <3>2. RequestOK(Studio!CreateCall(call.draft, {}))
      BY <2>2 DEF RequestOK, AboutRoom, Requests, Creates, Studio!CreateCall, Covered
    <3> QED BY <1>1, <1>3, <3>1, <3>2
  <2>4. CASE call.ids # {}
    <3> DEFINE v == [name |-> "dayoff-impact", arg |-> [draft |-> call.draft, ids |-> call.ids]]
    <3>1. /\ Studio!Goto(Append(path, v)) /\ roomCalls' = [roomCalls EXCEPT ![k] = Studio!Free]
          /\ UNCHANGED <<studio, canceled, roomRows, opening, roomTab>>
      BY <1>5, <2>4 DEF Studio!handleCheckDayOff, Studio!View, Studio!ImpactOf, Studio!Answered
    <3>2. v \in ViewsNow BY <2>2 DEF ViewsNow, Views, Impacts, Studio!RoomViews
    <3> HIDE DEF v
    <3>3. Append(path, v) \in Seq(ViewsNow) /\ Append(path, v) # <<>> BY <1>0, <3>2 DEF PathOK
    <3> QED BY <1>1, <1>3, <3>1, <3>3, FreeIsRequest
  <2> QED BY <2>3, <2>4
<1>6. ASSUME Studio!handleConfirmDayOff(k) \/ Studio!handleDeleteDayOff(k) PROVE StudioInv'
  <2>1. /\ roomTab' = "daysOff" /\ Studio!Goto(Studio!List)
        /\ roomCalls' = [roomCalls EXCEPT ![k] = Studio!Free]
        /\ UNCHANGED <<studio, canceled, roomRows, opening>>
    BY <1>6 DEF Studio!handleConfirmDayOff, Studio!handleDeleteDayOff, Studio!ShowDayOffs, Studio!Answered
  <2> QED BY <1>1, <1>3, <2>1, FreeIsRequest, ListIsPath
<1>7. ASSUME Studio!Refused(k) PROVE StudioInv'
  <2>1. /\ roomCalls' = [roomCalls EXCEPT ![k] = Studio!Free]
        /\ UNCHANGED <<studio, canceled, roomRows, opening, roomTab, path, entry>>
    BY <1>7 DEF Studio!Refused, Studio!Answered
  <2> QED BY <1>1, <1>3, <2>1, FreeIsRequest
<1>8. ASSUME Studio!RoomServed(k) PROVE StudioInv'
  <2>0. UNCHANGED <<roomRows, opening, roomTab, path, entry>> BY <1>8 DEF Studio!RoomServed
  <2>1. CASE \/ call.kind = "save" /\ studio' = [studio EXCEPT ![call.room].hours = call.data.hours]
                /\ UNCHANGED canceled /\ roomCalls' = [roomCalls EXCEPT ![k] = Studio!Free]
             \/ /\ call.kind = "remove" /\ studio' = [studio EXCEPT ![call.room].active = FALSE]
                /\ canceled' = canceled \cup {b \in BookingIds : BookedSlots[b].room = call.room}
                /\ roomCalls' = [roomCalls EXCEPT ![k] = Studio!Free]
    <3> DEFINE r == call.room
               v == IF call.kind = "save" THEN [studio[r] EXCEPT !.hours = call.data.hours]
                    ELSE [studio[r] EXCEPT !.active = FALSE]
    <3>1. r \in StudioRooms /\ studio[r] # Studio!NoRoom /\ (call.kind = "save" => call.data.hours \in Studio!Hours)
      BY <1>0, <2>1 DEF RequestOK, AboutRoom, Requests, RoomRequest, Checks, Creates, Studio!Free
    <3>2. studio[r] \in RoomRecord BY <1>0, <3>1 DEF ServerOK, RoomOrNone
    <3>3. v \in RoomRecord BY <3>1, <3>2 DEF RoomRecord
    <3>4. studio' = [studio EXCEPT ![r] = v] BY <2>1
    <3>5. canceled' \subseteq BookingIds /\ roomCalls' = [roomCalls EXCEPT ![k] = Studio!Free]
      BY <1>3, <2>1
    <3>6. RequestOK(Studio!Free)' BY DEF RequestOK, AboutRoom, Requests, Studio!Free
    <3> HIDE DEF r, v
    <3> QED BY <1>2, <2>0, <3>1, <3>3, <3>4, <3>5, <3>6
  <2>2. CASE /\ call.kind = "add" /\ call.room = 0
             /\ \E r \in StudioRooms : /\ studio[r] = Studio!NoRoom
                                       /\ studio' = [studio EXCEPT ![r] = Studio!Room(TRUE, call.data.hours)]
                                       /\ roomCalls' = [roomCalls EXCEPT ![k].room = r]
             /\ UNCHANGED canceled
    <3>1. PICK r \in StudioRooms : /\ studio' = [studio EXCEPT ![r] = Studio!Room(TRUE, call.data.hours)]
                                   /\ roomCalls' = [roomCalls EXCEPT ![k] = [call EXCEPT !.room = r]]
      BY <2>2
    <3>2. call \in [kind : {"add"}, room : {0} \cup StudioRooms, data : RoomRequest]
      BY <1>0, <2>2 DEF RequestOK, Requests, Checks, Creates, Studio!Free
    <3>3. /\ Studio!Room(TRUE, call.data.hours) \in RoomRecord
          /\ Studio!Room(TRUE, call.data.hours) # Studio!NoRoom
      BY <3>2 DEF RoomRecord, Studio!Room, RoomRequest, Studio!NoRoom
    <3>4. studio'[r] # Studio!NoRoom
      BY <1>0, <3>1, <3>3 DEF ServerOK
    <3>5. PICK c : c = [call EXCEPT !.room = r] OBVIOUS
    <3>6. c \in [kind : {"add"}, room : {0} \cup StudioRooms, data : RoomRequest] /\ c.room = r
      BY <3>2, <3>5
    <3>7. RequestOK(c)' BY <3>4, <3>6 DEF RequestOK, Requests
    <3>8. roomCalls' = [roomCalls EXCEPT ![k] = c] /\ canceled' \subseteq BookingIds
      BY <1>3, <2>2, <3>1, <3>5
    <3> HIDE DEF call
    <3> QED BY <1>2, <2>0, <3>1, <3>3, <3>7, <3>8
  <2> QED BY <1>8, <2>1, <2>2 DEF Studio!RoomServed, Studio!Answered, BookingIds
<1>9. ASSUME Studio!DayOffServed(k) PROVE StudioInv'
  <2> DEFINE q == Studio!toDayOffRequest(call.draft)
  <2>0. UNCHANGED <<studio, roomRows, opening, roomTab, path, entry>> BY <1>9 DEF Studio!DayOffServed
  <2>1. CASE /\ call.kind = "check" /\ roomCalls' = [roomCalls EXCEPT ![k].ids = Studio!Conflicts(q)]
             /\ UNCHANGED canceled
    <3>1. call \in Checks BY <1>0, <2>1 DEF RequestOK, Requests, Creates, Studio!Free
    <3>2. Studio!Conflicts(q) \subseteq BookingIds /\ Covered(call.draft, Studio!Conflicts(q))
      BY DEF Studio!Conflicts, Covered, BookingIds
    <3>3. [call EXCEPT !.ids = Studio!Conflicts(q)] \in Checks
      BY <3>1, <3>2 DEF Checks
    <3>4. RequestOK([call EXCEPT !.ids = Studio!Conflicts(q)])
      BY <3>3 DEF RequestOK, Requests, AboutRoom, Checks
    <3> QED BY <1>1, <1>3, <2>0, <2>1, <3>4
  <2>2. CASE /\ call.kind = "create" /\ canceled' = canceled \cup call.forced
             /\ \E i \in OffIds : roomCalls' = [roomCalls EXCEPT ![k].off = i]
    <3>1. call \in Creates BY <1>0, <2>2 DEF RequestOK, Requests, Checks, Studio!Free
    <3>2. PICK i \in OffIds : roomCalls' = [roomCalls EXCEPT ![k] = [call EXCEPT !.off = i]] BY <2>2
    <3>3. [call EXCEPT !.off = i] \in Creates BY <3>1 DEF Creates
    <3>4. RequestOK([call EXCEPT !.off = i]) BY <3>3 DEF RequestOK, Requests, AboutRoom, Creates
    <3>5. canceled' \subseteq BookingIds BY <1>3, <2>2, <3>1 DEF Creates
    <3> QED BY <1>1, <2>0, <3>2, <3>4, <3>5
  <2>3. CASE call.kind = "drop" /\ UNCHANGED canceled /\ roomCalls' = [roomCalls EXCEPT ![k].done = TRUE]
    <3>1. call \in [kind : {"drop"}, off : OffIds, done : BOOLEAN]
      BY <1>0, <2>3 DEF RequestOK, Requests, Checks, Creates, Studio!Free
    <3>2. [call EXCEPT !.done = TRUE] \in [kind : {"drop"}, off : OffIds, done : BOOLEAN] BY <3>1
    <3>3. RequestOK([call EXCEPT !.done = TRUE]) BY <3>2 DEF RequestOK, Requests, AboutRoom
    <3> QED BY <1>1, <1>3, <2>0, <2>3, <3>3
  <2> QED BY <1>9, <2>1, <2>2, <2>3 DEF Studio!DayOffServed
<1> QED BY <1>4, <1>5, <1>6, <1>7, <1>8, <1>9

LEMMA StudioStep ==
  ASSUME StudioInv, [Studio!Next]_(Studio!roomVars)
  PROVE  StudioInv'
<1>0. ServerOK /\ RowsOK /\ PanelOK /\ PathOK /\ RequestsOK BY DEF StudioInv
<1>1. ASSUME Studio!RoomsArrive \/ Studio!DayOffsArrive \/ UNCHANGED Studio!roomVars PROVE StudioInv'
  <2>1. /\ UNCHANGED <<studio, canceled, roomTab, path, entry, roomCalls>>
        /\ opening' \subseteq opening /\ roomRows' \in {studio, roomRows}
    BY <1>1 DEF Studio!RoomsArrive, Studio!DayOffsArrive, Studio!KeepServer, Studio!roomVars
  <2>2. ServerOK' /\ RowsOK' /\ PanelOK' BY <1>0, <2>1 DEF ServerOK, RowsOK, PanelOK
  <2>3. RowsLast /\ RoomsLast BY <1>0, <2>1 DEF RowsLast, RoomsLast, RowsOK
  <2>4. PathOK' /\ RequestsOK' BY <1>0, <2>1, <2>3, PathStays, RequestsStay
  <2> QED BY <2>2, <2>4 DEF StudioInv
<1>2. CASE Studio!Answers
  BY <1>1, <1>2, StudioAnswers DEF Studio!Answers
<1>3. ASSUME Studio!AdminActs PROVE StudioInv'
  <2>1. (\E d \in Studio!Edited(entry.draft) : Studio!DayOffCreateScreen(d)) => Studio!On("dayoff-create")
    BY DEF Studio!DayOffCreateScreen
  <2> QED BY <1>3, <2>1, StudioViews, StudioSends, Zenon DEF Studio!AdminActs
<1> QED BY <1>1, <1>2, <1>3, Zenon DEF Studio!Next

LEMMA StudioTyped ==
  ASSUME StudioInv
  PROVE  Studio!TypeOK
  BY DEF StudioInv, ServerOK, RowsOK, PanelOK, PathOK, RequestsOK, RoomOrNone, RoomRecord, BookingIds,
    Studio!TypeOK

LEMMA StudioStays == Spec => [](screen = "rooms" => StudioInv)
<1>1. Init => (screen = "rooms" => StudioInv) BY FirstPage, StudioFirst
<1>2. (screen = "rooms" => StudioInv) /\ [Next]_vars => (screen = "rooms" => StudioInv)'
  BY PageSteps, StudioStep
<1> QED BY <1>1, <1>2, PTL DEF Spec

(* A day-off is sent with reservations that it covers only, and it does    *)
(* not end before it starts, although its form changes during its check.   *)
THEOREM DayOffsCancelWhatTheyCover == Spec => []DayOffCancelsItsOwn
<1>1. StudioInv => Studio!DayOffCancelsItsOwn
  <2> SUFFICES ASSUME StudioInv, NEW k \in DOMAIN roomCalls, roomCalls[k].kind = "create"
               PROVE  LET q == Studio!toDayOffRequest(roomCalls[k].draft)
                      IN  q.start < q.end /\ \A b \in roomCalls[k].forced : Studio!Covers(q, b)
    BY DEF Studio!DayOffCancelsItsOwn
  <2>1. RequestOK(roomCalls[k]) BY DEF StudioInv, RequestsOK
  <2>2. roomCalls[k] \in Creates BY <2>1 DEF RequestOK, Requests, Checks, Studio!Free
  <2> QED BY <2>2, RequestRuns DEF Creates, Covered
<1>2. (screen = "rooms" => StudioInv) => DayOffCancelsItsOwn BY <1>1 DEF DayOffCancelsItsOwn
<1> QED BY <1>2, StudioStays, PTL

(***************************************************************************)
(* All pages.                                                              *)
(***************************************************************************)
(* Every page keeps the types of its variables.                            *)
THEOREM PagesTyped == Spec => []TypeOK
<1>1. /\ screen = "apply" => WindowInv
      /\ screen = "detail" => DetailInv
      /\ screen = "list" => ListInv
      /\ screen = "team" => TeamInv
      /\ screen = "profile" => OwnInv
      /\ screen = "reservations" => PanelInv
      /\ screen = "teams" => CrewsInv
      /\ screen = "users" => PeopleInv
      /\ screen = "rooms" => StudioInv
      => TypeOK
  BY DetailTyped, ListTyped, TeamTypes, PanelTyped, CrewsTyped, PeopleTyped, StudioTyped
  DEF TypeOK, WindowInv, OwnInv, OwnTypes
<1> QED
  BY <1>1, WizardStays, DetailStays, ListStays, TeamStays, OwnStays, PanelStays, CrewsHold,
     PeopleStays, StudioStays, PTL

==============================================================================
