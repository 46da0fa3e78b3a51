-------------------------- MODULE ReservationDetail --------------------------
(***************************************************************************)
(* The page of one reservation                                             *)
(* (src/FE/src/pages/MyReservationDetailPage.tsx): a single reservation,   *)
(* or a repetition with the list of its rounds and the page of one round.  *)
(* The page is opened from the list or straight after applying, with what  *)
(* those pages knew; it loads the reservation from the server, again after *)
(* a refresh and after a cancellation, and answers may overtake each other.*)
(*                                                                         *)
(* Rounds are weeks 1, 2, ...; week w starts and ends within time w.       *)
(* A single reservation is a repetition of one week whose page is the page *)
(* of that round.                                                          *)
(***************************************************************************)
EXTENDS Integers, FiniteSets, FiniteSetsExt

CONSTANTS
  Weeks,      (* the occurrences of the repetition: 1 .. count *)
  Undecided,  (* bound: the weeks the back office still decides about *)
  MaxTime,    (* bound: how far the clock goes *)
  MaxLoads    (* bound: how many loads are on their way at once *)

VARIABLES
  server,       (* the status of every occurrence *)
  clock,
  openedAt,     (* now: the time the page was opened, kept by useMemo *)
  isRepeat,
  rounds,       (* the rounds on show: {} until the page knows any *)
  picked,       (* selectedRound, as it was when it was picked *)
  modal,        (* isCancelModalOpen *)
  loads,        (* requests for the reservation on their way *)
  cancels,      (* handlers of a cancellation under way *)
  refreshing,   (* isRefreshing *)
  where         (* "here", or the page the user went to *)

detailVars == <<server, clock, openedAt, isRepeat, rounds, picked, modal,
                loads, cancels, refreshing, where>>

NoRound   == [round |-> 0]
Bookings  == {"PENDING", "RESERVED", "REJECTED", "CANCELED"}
Statuses  == {"pending", "completed", "approved", "rejected", "conflict", "canceled"}
Filters   == {"all", "approved", "conflict", "canceled"}
StartOf(w) == w
EndOf(w)   == w
Dates      == IF isRepeat THEN Weeks ELSE {1}

TypeOK ==
  /\ server \in [Weeks -> Bookings \cup {"CONFLICT"}] /\ clock \in 0 .. MaxTime
  /\ \A r \in rounds : r.round \in Weeks /\ r.date \in Weeks /\ r.status \in Statuses
  /\ modal \in BOOLEAN
  /\ where \in {"here", "list", "calendar", "apply"}
  /\ \A c \in cancels : c.stage \in {"sent", "reload"}

(***************************************************************************)
(* What the page makes of the server's answers.                            *)
(***************************************************************************)
mapOccurrenceStatus(status, w, now) ==
  CASE status = "CONFLICT" -> "conflict"
    [] status = "CANCELED" -> "canceled"
    [] status = "PENDING"  -> "pending"
    [] status = "REJECTED" -> "rejected"
    [] OTHER -> IF EndOf(w) < now THEN "completed" ELSE "approved"

mapReservationDetailRounds(snapshot, now) ==
  { [round |-> w, date |-> w, numbered |-> snapshot[w] # "CONFLICT",
     status |-> mapOccurrenceStatus(snapshot[w], w, now)] : w \in Dates }

mapReservationState(status) ==
  CASE status = "RESERVED" -> "approved"
    [] status = "REJECTED" -> "rejected"
    [] status = "CANCELED" -> "canceled"
    [] OTHER -> "pending"

(* A created round is numbered by its distance from the first one created. *)
BugRoundFromZero(created, w) == Max({1, w - Min(created)})

RoundNumber(created, w) == w - Min(created) + 1

mapCreatedRepeatRounds(created) ==
  { [round |-> RoundNumber(created, w), date |-> w, numbered |-> TRUE,
     status |-> mapReservationState(server[w])] : w \in created }
  \cup
  { [round |-> w, date |-> w, numbered |-> FALSE, status |-> "conflict"] :
      w \in Dates \ created }

(* The round on its page: the one with the number of the round picked.     *)
currentSelectedRound ==
  IF \E r \in rounds : r.round = picked.round
  THEN CHOOSE r \in rounds : r.round = picked.round
  ELSE picked

getRoundReservationState(status) ==
  IF status \in {"pending", "rejected", "canceled"} THEN status ELSE "approved"

getCancelInfo(r) ==
  /\ getRoundReservationState(r.status) \in {"pending", "approved"}
  /\ openedAt < StartOf(r.date)

(* The heading of a repetition and the rounds a filter leaves.             *)
Count(status) == Cardinality({r \in rounds : r.status = status})

BugCompletedNotCounted ==
  CASE Count("pending") > 0 -> "pending"
    [] Count("pending") = 0 /\ Count("approved") > 0 -> "approved"
    [] Count("pending") + Count("approved") = 0
         -> IF Count("rejected") > 0 THEN "rejected" ELSE "canceled"

summaryState ==
  CASE Count("pending") > 0 -> "pending"
    [] Count("pending") = 0 /\ Count("approved") + Count("completed") > 0 -> "approved"
    [] Count("pending") + Count("approved") + Count("completed") = 0
         -> IF Count("rejected") > 0 THEN "rejected" ELSE "canceled"

filteredRepeatRounds(f) ==
  { r \in rounds :
      CASE f = "all"      -> TRUE
        [] f = "approved" -> r.status \in {"approved", "completed"}
        [] OTHER          -> r.status = f }

(* The four steps of the progress of a round: the tone of each.            *)
getProgressSteps(r, now) ==
  LET using == StartOf(r.date) <= now /\ now <= EndOf(r.date)
  IN  CASE getRoundReservationState(r.status) = "pending"
             -> <<"pending", "muted", "muted", "muted">>
        [] getRoundReservationState(r.status) = "rejected"
             -> <<"danger", "danger", "muted", "muted">>
        [] getRoundReservationState(r.status) = "canceled"
             -> <<"primary", "primary", "muted", "muted">>
        [] OTHER -> IF r.status = "completed" \/ now > EndOf(r.date)
                    THEN <<"blue", "blue", "blue", "blue">>
                    ELSE <<"success", "success", IF using THEN "success" ELSE "muted", "muted">>

(***************************************************************************)
(* Opening: after applying for a repetition the page knows the rounds      *)
(* created; otherwise it knows the reservation and not its rounds.         *)
(***************************************************************************)
Created == {w \in Dates : server[w] # "CONFLICT"}

Init ==
  /\ isRepeat \in BOOLEAN
  /\ server \in [Weeks -> {"PENDING", "CONFLICT"}] /\ Created # {}
  /\ isRepeat \/ server[1] = "PENDING"
  /\ clock = 0 /\ openedAt = 0
  /\ rounds = IF isRepeat THEN mapCreatedRepeatRounds(Created)
              ELSE mapReservationDetailRounds(server, 0)
  /\ picked = IF isRepeat THEN NoRound ELSE CHOOSE r \in rounds : TRUE
  /\ modal = FALSE
  /\ loads = {[why |-> "open", snapshot |-> server]}
  /\ cancels = {} /\ refreshing = FALSE /\ where = "here"

Here == where = "here"
KeepPage == UNCHANGED <<isRepeat, openedAt, where>>

(***************************************************************************)
(* The server: people of the back office decide, time passes.              *)
(***************************************************************************)
OthersDecide(w, status) ==
  /\ Here /\ w \in Dates \cap Undecided
  /\ \/ server[w] = "PENDING"  /\ status \in {"RESERVED", "REJECTED", "CANCELED"}
     \/ server[w] = "RESERVED" /\ status = "CANCELED"
  /\ server' = [server EXCEPT ![w] = status]
  /\ UNCHANGED <<clock, rounds, picked, modal, loads, cancels, refreshing>>
  /\ KeepPage

TimePasses ==
  /\ Here /\ clock < MaxTime /\ clock' = clock + 1
  /\ UNCHANGED <<server, rounds, picked, modal, loads, cancels, refreshing>>
  /\ KeepPage

(***************************************************************************)
(* loadReservationDetail: the answer shows the reservation as it was at    *)
(* some moment since the request.  A failed load leaves what is on show.   *)
(***************************************************************************)
Load(why) ==
  /\ Cardinality(loads) < MaxLoads
  /\ loads' = loads \cup {[why |-> why, snapshot |-> server]}

Answered(load, snapshot) ==
  /\ Here /\ load \in loads /\ load.why # "cancel"
  /\ snapshot \in {load.snapshot, server}
  /\ rounds' = mapReservationDetailRounds(snapshot, clock)
  /\ loads' = loads \ {load}
  /\ refreshing' = (refreshing /\ load.why # "refresh")
  /\ UNCHANGED <<server, clock, picked, modal, cancels>> /\ KeepPage

LoadFailed(load) ==
  /\ Here /\ load \in loads /\ load.why # "cancel"
  /\ loads' = loads \ {load}
  /\ refreshing' = (refreshing /\ load.why # "refresh")
  /\ UNCHANGED <<server, clock, rounds, picked, modal, cancels>>
  /\ KeepPage

MayRefresh == Here /\ ~refreshing   (* neither the button nor a pull again *)

Refresh ==
  /\ MayRefresh /\ refreshing' = TRUE /\ Load("refresh")
  /\ UNCHANGED <<server, clock, rounds, picked, modal, cancels>>
  /\ KeepPage

(***************************************************************************)
(* The list of the rounds and the page of one.                             *)
(***************************************************************************)
RoundList == Here /\ isRepeat /\ picked = NoRound
RoundPage == Here /\ picked # NoRound

SelectRound(f, r) ==
  /\ RoundList /\ r \in filteredRepeatRounds(f) /\ r.status # "conflict"
  /\ picked' = r /\ modal' = FALSE
  /\ UNCHANGED <<server, clock, rounds, loads, cancels, refreshing>>
  /\ KeepPage

ReapplyRound(f, r) ==
  /\ RoundList /\ r \in filteredRepeatRounds(f) /\ r.status = "conflict"
  /\ where' = "apply"
  /\ UNCHANGED <<server, clock, openedAt, isRepeat, rounds, picked, modal,
                 loads, cancels, refreshing>>

LeaveRound ==
  /\ RoundPage /\ isRepeat /\ ~modal /\ picked' = NoRound
  /\ UNCHANGED <<server, clock, rounds, modal, loads, cancels, refreshing>>
  /\ KeepPage

(* handleBack: to the calendar after applying, else to the list.           *)
Back ==
  /\ Here /\ (RoundList \/ (RoundPage /\ ~isRepeat /\ ~modal))
  /\ where' \in {"list", "calendar"}
  /\ UNCHANGED <<server, clock, openedAt, isRepeat, rounds, picked, modal,
                 loads, cancels, refreshing>>

OpenCancelModal ==
  /\ RoundPage /\ ~modal /\ getCancelInfo(currentSelectedRound) /\ modal' = TRUE
  /\ UNCHANGED <<server, clock, rounds, picked, loads, cancels, refreshing>>
  /\ KeepPage

CloseCancelModal ==
  /\ RoundPage /\ modal /\ modal' = FALSE
  /\ UNCHANGED <<server, clock, rounds, picked, loads, cancels, refreshing>>
  /\ KeepPage

(***************************************************************************)
(* handleCancelRepeatRound and handleConfirmCancel.  isPending covers the  *)
(* request and not the load after it, so that a second handler may start.  *)
(***************************************************************************)
isPending == \E c \in cancels : c.stage = "sent"

ConfirmCancel ==
  LET r == currentSelectedRound
  IN  /\ RoundPage /\ modal /\ ~isPending /\ r.numbered
      /\ Cardinality(cancels) < MaxLoads
      /\ cancels' = cancels \cup {[date |-> r.date, stage |-> "sent"]}
      /\ UNCHANGED <<server, clock, rounds, picked, modal, loads, refreshing>>
      /\ KeepPage

(* The server cancels what has not started and is not over.                *)
Cancellable(w) == server[w] \in {"PENDING", "RESERVED"} /\ clock < StartOf(w)

CancelServed(c) ==
  /\ c \in cancels /\ c.stage = "sent" /\ Here
  /\ IF Cancellable(c.date)
     THEN /\ server' = [server EXCEPT ![c.date] = "CANCELED"]
          /\ IF isRepeat
             THEN /\ cancels' = (cancels \ {c}) \cup {[c EXCEPT !.stage = "reload"]}
                  /\ UNCHANGED where
             ELSE cancels' = {} /\ where' = "list"
     ELSE cancels' = cancels \ {c} /\ UNCHANGED <<server, where>>
  /\ UNCHANGED <<clock, openedAt, isRepeat, rounds, picked, modal, loads, refreshing>>

(* The load after a cancellation: once it has answered, the page of the    *)
(* round gives way to the list.                                            *)
BugShowOld(snapshot) == rounds

ShownAfterCancel(snapshot) == mapReservationDetailRounds(snapshot, clock)

CancelReloaded(c) ==
  /\ Here /\ c \in cancels /\ c.stage = "reload"
  /\ rounds' = ShownAfterCancel(server)
  /\ cancels' = cancels \ {c}
  /\ picked' = NoRound /\ modal' = FALSE
  /\ UNCHANGED <<server, clock, loads, refreshing>> /\ KeepPage

CancelReloadFailed(c) ==
  /\ Here /\ c \in cancels /\ c.stage = "reload"
  /\ cancels' = cancels \ {c}
  /\ UNCHANGED <<server, clock, rounds, picked, modal, loads, refreshing>>
  /\ KeepPage

Next ==
  \/ \E w \in Weeks, s \in Bookings : OthersDecide(w, s)
  \/ TimePasses
  \/ \E l \in loads : LoadFailed(l) \/ \E s \in {l.snapshot, server} : Answered(l, s)
  \/ Refresh
  \/ \E f \in Filters, r \in rounds : SelectRound(f, r) \/ ReapplyRound(f, r)
  \/ LeaveRound \/ Back \/ OpenCancelModal \/ CloseCancelModal \/ ConfirmCancel
  \/ \E c \in cancels : CancelServed(c) \/ CancelReloaded(c) \/ CancelReloadFailed(c)

Spec == Init /\ [][Next]_detailVars

(***************************************************************************)
(* The page of a round stays the page of the date that was picked while    *)
(* answers renumber the rounds under it, so that a cancellation hits the   *)
(* date the user saw.  It does not when the first week was skipped: the    *)
(* rounds known from applying are then numbered from the first one         *)
(* created, the server's from the first week.                              *)
(***************************************************************************)
RoundStaysPut ==
  picked # NoRound /\ server[1] # "CONFLICT" => currentSelectedRound.date = picked.date

(***************************************************************************)
(* A list that comes back after a cancellation shows the round cancelled,  *)
(* whatever refresh is on its way meanwhile.                               *)
(***************************************************************************)
CancelledIsShown ==
  \A c \in cancels :
    CancelReloaded(c) => \E r \in rounds' : r.date = c.date /\ r.status = "canceled"

ClosedWhenCancelled == [][CancelledIsShown]_detailVars

(***************************************************************************)
(* A booked round whose page offers to cancel it is one the heading counts *)
(* as live, and whose steps are not those of an ended one, although they   *)
(* read different clocks: a round is completed by the time of the last     *)
(* load, and offered for cancellation by the time the page was opened.     *)
(***************************************************************************)
HeadingAgrees ==
  \A r \in rounds :
    r.numbered /\ getCancelInfo(r) =>
      /\ summaryState \in {"pending", "approved"}
      /\ getProgressSteps(r, openedAt)[2] \notin {"danger", "primary"}
==============================================================================
