----------------------------- MODULE Reservations -----------------------------
(***************************************************************************)
(* Bookings, their slot rows, weekly occurrences, rooms and day-offs of   *)
(* the b201 back end: ReservationCommandService of                         *)
(* src/BE/bookings/services.py together with AdminReservationService,      *)
(* AdminRoomService and AdminDayOffService of src/BE/backoffice/services.py*)
(*                                                                         *)
(* Every service call is one PostgreSQL transaction at READ COMMITTED, with*)
(* no lock on what it read.  A call whose writes depend on what it read is *)
(* split in two actions, Begin... (its reads and checks, remembered in tx) *)
(* and Commit... (its writes, made visible at once).  A call that writes   *)
(* the same thing whatever happened since its reads, or that locks what it *)
(* reads, is one action.                                                   *)
(*                                                                         *)
(* Definitions named Bug... are plausible defects of the definition that   *)
(* follows them; nothing uses them but the checks that a property notices. *)
(***************************************************************************)
EXTENDS RoomClock, Functions

CONSTANTS
  Ids,            (* reservation numbers that may be handed out             *)
  Rooms,          (* room ids                                              *)
  Dates,          (* reservation dates, as day numbers                     *)
  Groups,         (* UUIDs for repeat groups                               *)
  DayOffs,        (* ids of room closures                                  *)
  Txs,            (* requests that may be in progress at the same time     *)
  NoGroup,        (* a booking outside any repeat group                    *)
  AllRooms,       (* room column of a closure that covers every room       *)
  HourInputs,     (* operating hours an admin may enter                    *)
  Windows,        (* windows a user may ask for                            *)
  OwnerWindows,   (* windows an admin may book                             *)
  DayOffSpans,    (* times of a day-off an admin may enter                 *)
  RepeatCounts,   (* numbers of weeks a request may ask for                *)
  Cutoffs         (* dates the slot rows may be pruned up to               *)

ASSUME InputAssumption ==
  /\ Dates \subseteq Nat
  /\ RepeatCounts \subseteq Nat \ {0}
  /\ Cutoffs \subseteq Nat
  /\ HourInputs \subseteq Hours
  /\ Windows \subseteq Window
  /\ OwnerWindows \subseteq Window
  /\ DayOffSpans \subseteq Span
  /\ NoGroup \notin Groups
  /\ AllRooms \notin Rooms

VARIABLES
  rooms,       (* room -> its status and operating hours                   *)
  booking,     (* reservation number -> booking row, or NoBooking          *)
  slots,       (* reservation number -> slot times of its BookingSlot rows *)
  occurrence,  (* group -> date -> status of its occurrence row            *)
  dayOff,      (* closure id -> closure row, or NoDayOff                   *)
  tx,          (* request -> what it has read and is about to write        *)
  released     (* history: bookings whose slot rows a statement deleted     *)

vars == <<rooms, booking, slots, occurrence, dayOff, tx, released>>

-------------------------------------------------------------------------------
(* Rows *)

LiveStatus    == {"PENDING", "RESERVED"}
BookingStatus == LiveStatus \cup {"CANCELED"}
OccStatus     == {"none", "PENDING", "RESERVED", "CANCELED", "CONFLICT"}

(* hours and byAdmin are history: the operating hours the request was      *)
(* checked against, and whether create_owner_reservation made the row.     *)
Booking == [room: Rooms, date: Dates, window: Window, group: Groups \cup {NoGroup},
            status: BookingStatus, hours: Hours, byAdmin: BOOLEAN]
NoBooking == [status |-> "none"]

DayOff   == [room: Rooms \cup {AllRooms}, from: Dates, to: Dates, span: Span]
NoDayOff == [room |-> "none"]

RoomRow == [status: {"none", "ACTIVE", "INACTIVE"}, hours: Hours]

CreateTx == [op: {"create", "repeat", "owner"}, room: Rooms, hours: Hours,
             window: Window, weeks: Nat, dates: SUBSET Dates,
             skipped: SUBSET Dates, forced: SUBSET Ids]
DayOffTx == [op: {"dayOff"}, row: DayOff, forced: SUBSET Ids]
DeleteTx == [op: {"deleteRoom"}, room: Rooms, doomed: SUBSET Ids]
Idle     == [op |-> "idle"]

Exists(i) == booking[i] # NoBooking
Live(i)   == booking[i].status \in LiveStatus
FreeIds   == { i \in Ids : ~Exists(i) }

GroupBookings(g) == { i \in Ids : Exists(i) /\ booking[i].group = g }
HasGroupRow(g)   == \E d \in Dates : occurrence[g][d] # "none"
FreeGroups       == { g \in Groups : GroupBookings(g) = {} /\ ~HasGroupRow(g) }

Init ==
  /\ rooms \in [Rooms -> [status: {"none"}, hours: HourInputs]]
  /\ booking    = [i \in Ids |-> NoBooking]
  /\ slots      = [i \in Ids |-> {}]
  /\ occurrence = [g \in Groups |-> [d \in Dates |-> "none"]]
  /\ dayOff     = [k \in DayOffs |-> NoDayOff]
  /\ tx         = [t \in Txs |-> Idle]
  /\ released   = {}

-------------------------------------------------------------------------------
(* Rooms *)

CreateRoom(r, h) ==
  /\ rooms[r].status = "none"
  /\ rooms' = [rooms EXCEPT ![r] = [status |-> "ACTIVE", hours |-> NormalizeCloseTime(h)]]
  /\ UNCHANGED <<booking, slots, occurrence, dayOff, tx, released>>

(* The hours change under the feet of the room's live bookings. *)
UpdateRoom(r, h) ==
  /\ rooms[r].status # "none"
  /\ rooms' = [rooms EXCEPT ![r].hours = NormalizeCloseTime(h)]
  /\ UNCHANGED <<booking, slots, occurrence, dayOff, tx, released>>

BugReservedIn(r) == { i \in Ids : booking[i].status = "RESERVED" /\ booking[i].room = r }

LiveIn(r) == { i \in Ids : Live(i) /\ booking[i].room = r }

(* delete_room picks the slot rows to delete in one statement and the       *)
(* bookings to cancel in a later one, which sees what committed in between.*)
BeginDeleteRoom(t, r) ==
  /\ tx[t] = Idle
  /\ rooms[r].status # "none"
  /\ tx' = [tx EXCEPT ![t] = [op |-> "deleteRoom", room |-> r, doomed |-> LiveIn(r)]]
  /\ UNCHANGED <<rooms, booking, slots, occurrence, dayOff, released>>

CommitDeleteRoom(t) ==
  /\ tx[t].op = "deleteRoom"
  /\ LET q == tx[t]
     IN  /\ rooms' = [rooms EXCEPT ![q.room].status = "INACTIVE"]
         /\ booking' = [i \in Ids |-> IF i \in LiveIn(q.room)
                                      THEN [booking[i] EXCEPT !.status = "CANCELED"]
                                      ELSE booking[i]]
         /\ slots' = [i \in Ids |-> IF i \in q.doomed THEN {} ELSE slots[i]]
         /\ released' = released \cup q.doomed
  /\ tx' = [tx EXCEPT ![t] = Idle]
  /\ UNCHANGED <<occurrence, dayOff>>

-------------------------------------------------------------------------------
(* What a request collides with *)

OverlappingBookings(r, h, d, w) ==
  { i \in LiveIn(r) : booking[i].date = d /\ Overlap(h, w, booking[i].window) }

BugOwnRoomOnly(k, r, d) ==
  /\ dayOff[k] # NoDayOff
  /\ dayOff[k].room = r
  /\ d \in dayOff[k].from .. dayOff[k].to \/ d = dayOff[k].from

Effective(k, r, d) ==
  /\ dayOff[k] # NoDayOff
  /\ dayOff[k].room \in {r, AllRooms}
  /\ d \in dayOff[k].from .. dayOff[k].to \/ d = dayOff[k].from

OverlapsDayOff(r, h, d, w) ==
  \E k \in DayOffs : Effective(k, r, d) /\ Overlap(h, w, ClosureWindow(h, dayOff[k].span))

HasOverlap(r, h, d, w) ==
  OverlappingBookings(r, h, d, w) # {} \/ OverlapsDayOff(r, h, d, w)

RecurringDates(d, n) == { d + 7 * i : i \in 0 .. n - 1 }

-------------------------------------------------------------------------------
(* Creating bookings *)

Request(op, r, w, n, ds, skipped, forced) ==
  [op |-> op, room |-> r, hours |-> rooms[r].hours, window |-> w, weeks |-> n,
   dates |-> ds, skipped |-> skipped, forced |-> forced]

(* create_private_reservation and create_team_reservation: every week must *)
(* be free.                                                                *)
BeginReservation(t, r, d, n, w) ==
  LET h == rooms[r].hours
  IN  /\ tx[t] = Idle
      /\ rooms[r].status = "ACTIVE"
      /\ RecurringDates(d, n) \subseteq Dates
      /\ ValidTimeWindow(h, w)
      /\ \A x \in RecurringDates(d, n) : ~HasOverlap(r, h, x, w)
      /\ tx' = [tx EXCEPT ![t] = Request("create", r, w, n, RecurringDates(d, n), {}, {})]
      /\ UNCHANGED <<rooms, booking, slots, occurrence, dayOff, released>>

(* create_private_repeat_reservation and its team twin: weeks that collide  *)
(* are recorded as conflicts, one week at least must be free.               *)
BeginRepeat(t, r, d, n, w) ==
  LET h        == rooms[r].hours
      conflict == { x \in RecurringDates(d, n) : HasOverlap(r, h, x, w) }
  IN  /\ tx[t] = Idle
      /\ rooms[r].status = "ACTIVE"
      /\ RecurringDates(d, n) \subseteq Dates
      /\ ValidTimeWindow(h, w)
      /\ conflict # RecurringDates(d, n)
      /\ tx' = [tx EXCEPT ![t] =
                  Request("repeat", r, w, n, RecurringDates(d, n) \ conflict, conflict, {})]
      /\ UNCHANGED <<rooms, booking, slots, occurrence, dayOff, released>>

(* create_owner_reservation: no check of the window or of day-offs, and the*)
(* admin may name bookings to cancel, conflicting or not.                  *)
BeginOwnerReservation(t, r, d, w, forced) ==
  /\ tx[t] = Idle
  /\ rooms[r].status = "ACTIVE"
  /\ OverlappingBookings(r, rooms[r].hours, d, w) \subseteq forced
  /\ tx' = [tx EXCEPT ![t] = Request("owner", r, w, 1, {d}, {}, forced)]
  /\ UNCHANGED <<rooms, booking, slots, occurrence, dayOff, released>>

Freed(q)    == { i \in q.forced : Live(i) }
SlotRows(q) == SlotTimes(q.hours, q.window)

BugUniquePerStatus(q) ==
  \E i \in Ids \ Freed(q) :
     /\ Exists(i) /\ booking[i].room = q.room /\ booking[i].date \in q.dates
     /\ booking[i].status = "RESERVED"
     /\ slots[i] \cap SlotRows(q) # {}

(* The unique constraint (room, reservation_date, slot_time) would reject   *)
(* the rows of request q.                                                  *)
SlotsTaken(q) ==
  \E i \in Ids \ Freed(q) :
     /\ Exists(i) /\ booking[i].room = q.room /\ booking[i].date \in q.dates
     /\ slots[i] \cap SlotRows(q) # {}

NewBooking(q, d, g) ==
  [room |-> q.room, date |-> d, window |-> q.window, group |-> g,
   status |-> IF q.op = "owner" THEN "RESERVED" ELSE "PENDING",
   hours |-> q.hours, byAdmin |-> q.op = "owner"]

(* Cancel the forced bookings, then insert one row per date (new assigns a *)
(* date to each fresh reservation number) and its slot rows.               *)
Store(t, new, g) ==
  LET q == tx[t]
  IN  /\ ~SlotsTaken(q)
      /\ booking' = [i \in Ids |->
                       IF i \in DOMAIN new THEN NewBooking(q, new[i], g)
                       ELSE IF i \in Freed(q)
                            THEN [booking[i] EXCEPT !.status = "CANCELED"]
                            ELSE booking[i]]
      /\ slots' = [i \in Ids |-> IF i \in DOMAIN new THEN SlotRows(q)
                                 ELSE IF i \in Freed(q) THEN {} ELSE slots[i]]
      /\ released' = released \cup Freed(q)
      /\ tx' = [tx EXCEPT ![t] = Idle]
      /\ UNCHANGED <<rooms, dayOff>>

FreshNumbers(ds) == UNION { Bijection(S, ds) : S \in SUBSET FreeIds }

(* Several weeks share a repeat group id, without a ReservationRepeatGroup  *)
(* row: what the cancel service calls a legacy group.                      *)
CommitReservation(t) ==
  /\ tx[t].op = "create"
  /\ \E new \in FreshNumbers(tx[t].dates),
        g \in IF tx[t].weeks > 1 THEN FreeGroups ELSE {NoGroup} : Store(t, new, g)
  /\ UNCHANGED occurrence

CommitRepeat(t) ==
  /\ tx[t].op = "repeat"
  /\ \E new \in FreshNumbers(tx[t].dates), g \in FreeGroups :
       /\ Store(t, new, g)
       /\ occurrence' = [occurrence EXCEPT ![g] =
                           [d \in Dates |-> IF d \in tx[t].dates THEN "PENDING"
                                            ELSE IF d \in tx[t].skipped THEN "CONFLICT"
                                            ELSE "none"]]

CommitOwnerReservation(t) ==
  /\ tx[t].op = "owner"
  /\ \E new \in FreshNumbers(tx[t].dates) : Store(t, new, NoGroup)
  /\ UNCHANGED occurrence

(* IntegrityError on the slot rows: the whole request is rolled back. *)
RejectDuplicate(t) ==
  /\ tx[t].op \in {"create", "repeat", "owner"}
  /\ SlotsTaken(tx[t])
  /\ tx' = [tx EXCEPT ![t] = Idle]
  /\ UNCHANGED <<rooms, booking, slots, occurrence, dayOff, released>>

-------------------------------------------------------------------------------
(* Canceling and approving bookings *)

BugCancelKeepsRows(S) ==
  /\ booking' = [i \in Ids |-> IF i \in S THEN [booking[i] EXCEPT !.status = "CANCELED"]
                               ELSE booking[i]]
  /\ UNCHANGED <<slots, released>>

BugCancelFreesDay(S) ==
  /\ booking' = [i \in Ids |-> IF i \in S THEN [booking[i] EXCEPT !.status = "CANCELED"]
                               ELSE booking[i]]
  /\ slots' = [i \in Ids |-> IF \E j \in S : Exists(i) /\ booking[i].date = booking[j].date
                             THEN {} ELSE slots[i]]
  /\ released' = released \cup S

CancelBookings(S) ==
  /\ booking' = [i \in Ids |-> IF i \in S THEN [booking[i] EXCEPT !.status = "CANCELED"]
                               ELSE booking[i]]
  /\ slots' = [i \in Ids |-> IF i \in S THEN {} ELSE slots[i]]
  /\ released' = released \cup S

(* The occurrence row of a weekly booking is left as it is. *)
CancelReservation(i) ==
  /\ Exists(i) /\ booking[i].status # "CANCELED"
  /\ CancelBookings({i})
  /\ UNCHANGED <<rooms, occurrence, dayOff, tx>>

AdminCancelReservation(i) ==
  /\ Exists(i)
  /\ CancelBookings({i})
  /\ UNCHANGED <<rooms, occurrence, dayOff, tx>>

CancelRepeatOccurrences(g, ds) ==
  /\ GroupBookings(g) # {} /\ HasGroupRow(g)
  /\ \A d \in ds : occurrence[g][d] \notin {"none", "CANCELED"}
  /\ CancelBookings({ i \in GroupBookings(g) : booking[i].date \in ds })
  /\ occurrence' = [occurrence EXCEPT ![g] =
                      [d \in Dates |-> IF d \in ds THEN "CANCELED" ELSE occurrence[g][d]]]
  /\ UNCHANGED <<rooms, dayOff, tx>>

CancelLegacyOccurrences(g, ds) ==
  LET S == { i \in GroupBookings(g) : booking[i].date \in ds }
  IN  /\ ~HasGroupRow(g)
      /\ \A d \in ds : \E i \in S : booking[i].date = d
      /\ \A i \in S : booking[i].status # "CANCELED"
      /\ CancelBookings(S)
      /\ UNCHANGED <<rooms, occurrence, dayOff, tx>>

(* A single booking: anything but RESERVED becomes RESERVED, CANCELED too, *)
(* and no slot row is written.                                             *)
ApproveReservation(i) ==
  /\ Exists(i) /\ booking[i].group = NoGroup /\ booking[i].status # "RESERVED"
  /\ booking' = [booking EXCEPT ![i].status = "RESERVED"]
  /\ UNCHANGED <<rooms, slots, occurrence, dayOff, tx, released>>

BugApproveOne(g) ==
  \E i \in GroupBookings(g) :
    /\ booking[i].status = "PENDING"
    /\ booking' = [booking EXCEPT ![i].status = "RESERVED"]
    /\ occurrence' = [occurrence EXCEPT ![g] =
                        [d \in Dates |-> IF occurrence[g][d] = "PENDING"
                                         THEN "RESERVED" ELSE occurrence[g][d]]]
    /\ UNCHANGED <<rooms, slots, dayOff, tx, released>>

BugApproveRevives(g) ==
  LET pending == { i \in GroupBookings(g) : booking[i].status # "RESERVED" }
  IN  /\ pending # {}
      /\ booking' = [i \in Ids |-> IF i \in pending
                                   THEN [booking[i] EXCEPT !.status = "RESERVED"]
                                   ELSE booking[i]]
      /\ UNCHANGED <<rooms, slots, occurrence, dayOff, tx, released>>

ApproveGroup(g) ==
  LET pending == { i \in GroupBookings(g) : booking[i].status = "PENDING" }
  IN  /\ pending # {}
      /\ booking' = [i \in Ids |-> IF i \in pending
                                   THEN [booking[i] EXCEPT !.status = "RESERVED"]
                                   ELSE booking[i]]
      /\ occurrence' = [occurrence EXCEPT ![g] =
                          [d \in Dates |-> IF occurrence[g][d] = "PENDING"
                                           THEN "RESERVED" ELSE occurrence[g][d]]]
      /\ UNCHANGED <<rooms, slots, dayOff, tx, released>>

-------------------------------------------------------------------------------
(* Day-offs *)

(* check_conflicts asks, for each date and each target room, for the live   *)
(* bookings the day-off would overlap.                                     *)
DayOffConflicts(c) ==
  UNION { OverlappingBookings(r, rooms[r].hours, d, ClosureWindow(rooms[r].hours, c.span)) :
            r \in { x \in Rooms : /\ rooms[x].status # "none"
                                  /\ c.room \in {x, AllRooms} },
            d \in { x \in Dates : c.from <= x /\ x <= c.to } }

BeginDayOff(t, c, forced) ==
  /\ tx[t] = Idle
  /\ c.room \in {AllRooms} \cup { r \in Rooms : rooms[r].status # "none" }
  /\ DayOffConflicts(c) \subseteq forced
  /\ tx' = [tx EXCEPT ![t] = [op |-> "dayOff", row |-> c, forced |-> forced]]
  /\ UNCHANGED <<rooms, booking, slots, occurrence, dayOff, released>>

CommitDayOff(t, k) ==
  /\ tx[t].op = "dayOff"
  /\ dayOff[k] = NoDayOff
  /\ CancelBookings(Freed(tx[t]))
  /\ dayOff' = [dayOff EXCEPT ![k] = tx[t].row]
  /\ tx' = [tx EXCEPT ![t] = Idle]
  /\ UNCHANGED <<rooms, occurrence>>

DeleteDayOff(k) ==
  /\ dayOff[k] # NoDayOff
  /\ dayOff' = [dayOff EXCEPT ![k] = NoDayOff]
  /\ UNCHANGED <<rooms, booking, slots, occurrence, tx, released>>

-------------------------------------------------------------------------------
(* manage.py prune_booking_slots --before cutoff --apply *)

PruneBookingSlots(cutoff) ==
  LET old == { i \in Ids : Exists(i) /\ booking[i].date < cutoff }
  IN  /\ slots' = [i \in Ids |-> IF i \in old THEN {} ELSE slots[i]]
      /\ released' = released \cup old
      /\ UNCHANGED <<rooms, booking, occurrence, dayOff, tx>>

-------------------------------------------------------------------------------
RoomNext ==
  \/ \E r \in Rooms, h \in HourInputs : CreateRoom(r, h) \/ UpdateRoom(r, h)
  \/ \E t \in Txs, r \in Rooms : BeginDeleteRoom(t, r)
  \/ \E t \in Txs : CommitDeleteRoom(t)

CreateNext ==
  \/ \E t \in Txs, r \in Rooms, d \in Dates, n \in RepeatCounts, w \in Windows :
       BeginReservation(t, r, d, n, w) \/ BeginRepeat(t, r, d, n, w)
  \/ \E t \in Txs, r \in Rooms, d \in Dates, w \in OwnerWindows,
        forced \in SUBSET { i \in Ids : Exists(i) } :
       BeginOwnerReservation(t, r, d, w, forced)
  \/ \E t \in Txs : \/ CommitReservation(t)
                    \/ CommitRepeat(t)
                    \/ CommitOwnerReservation(t)
                    \/ RejectDuplicate(t)

ReviewNext ==
  \/ \E i \in Ids : \/ CancelReservation(i)
                    \/ AdminCancelReservation(i)
                    \/ ApproveReservation(i)
  \/ \E g \in Groups : ApproveGroup(g)
  \/ \E g \in Groups, ds \in SUBSET Dates \ {{}} :
       CancelRepeatOccurrences(g, ds) \/ CancelLegacyOccurrences(g, ds)

DayOffNext ==
  \/ \E t \in Txs, r \in Rooms \cup {AllRooms}, from \in Dates, to \in Dates,
        s \in DayOffSpans, forced \in SUBSET { i \in Ids : Exists(i) } :
       BeginDayOff(t, [room |-> r, from |-> from, to |-> to, span |-> s], forced)
  \/ \E t \in Txs, k \in DayOffs : CommitDayOff(t, k)
  \/ \E k \in DayOffs : DeleteDayOff(k)

Prune == \E cutoff \in Cutoffs : PruneBookingSlots(cutoff)

Next == RoomNext \/ CreateNext \/ ReviewNext \/ DayOffNext \/ Prune

Spec == Init /\ [][Next]_vars

-------------------------------------------------------------------------------
TypeOK ==
  /\ rooms \in [Rooms -> RoomRow]
  /\ booking \in [Ids -> Booking \cup {NoBooking}]
  /\ slots \in [Ids -> SUBSET TimesOfDay]
  /\ occurrence \in [Groups -> [Dates -> OccStatus]]
  /\ dayOff \in [DayOffs -> DayOff \cup {NoDayOff}]
  /\ tx \in [Txs -> CreateTx \cup DayOffTx \cup DeleteTx \cup {Idle}]
  /\ released \subseteq Ids

Occupies(h, w) == StartAt(h, w) < EndAt(h, w)

(* A live booking whose slot rows nothing has deleted, and whose window ran*)
(* forwards under the hours it was made under.  What this leaves out are   *)
(* the ways the code loses the rows of a live booking: approving a CANCELED*)
(* one, pruning its date, or a window such as 21:00-01:00 booked by an     *)
(* admin in a room that closes before midnight.                            *)
Firm(i) ==
  /\ Live(i)
  /\ i \notin released
  /\ Occupies(booking[i].hours, booking[i].window)

SameDay(i, j) == booking[i].room = booking[j].room /\ booking[i].date = booking[j].date

(* Every live booking that kept its rows holds exactly the half-hours of    *)
(* its window on the clock face, whatever the room's hours were when it    *)
(* was made and whichever of create, repeat create and owner create made it*)
BackedBySlots ==
  \A i \in Ids : Firm(i) => slots[i] = WallSlots(booking[i].window)

(* Two such bookings of one room and date do not overlap under the hours    *)
(* the room has NOW, even if update_room changed them since, and however    *)
(* the check-then-insert requests that made them interleaved.              *)
NoDoubleBooking ==
  \A i, j \in Ids :
    LET h == rooms[booking[i].room].hours
    IN  /\ i # j /\ Firm(i) /\ Firm(j) /\ SameDay(i, j)
        /\ IsHalfHourUnit(booking[i].window.start) /\ IsHalfHourUnit(booking[j].window.start)
        /\ Occupies(h, booking[i].window) /\ Occupies(h, booking[j].window)
        => ~Overlap(h, booking[i].window, booking[j].window)

(* Bookings users made on different dates of a room that closes at some time*)
(* never meet, although an overnight room runs into the next date and the  *)
(* checks compare bookings of one date only.                               *)
Follows(i, j) ==
  booking[i].date * DayLength + EndAt(booking[i].hours, booking[i].window)
    <= booking[j].date * DayLength + StartAt(booking[j].hours, booking[j].window)

OperatingDaysApart ==
  \A i, j \in Ids :
    /\ Live(i) /\ Live(j) /\ ~booking[i].byAdmin /\ ~booking[j].byAdmin
    /\ booking[i].room = booking[j].room /\ booking[i].hours = booking[j].hours
    /\ ~booking[i].hours.allDay /\ booking[i].date < booking[j].date
    => Follows(i, j)

(* In a room that is still open, a canceled booking holds no slot row, so a*)
(* cancel always makes the time bookable again.                            *)
CanceledHoldsNothing ==
  \A i \in Ids : /\ Exists(i) /\ booking[i].status = "CANCELED"
                 /\ rooms[booking[i].room].status = "ACTIVE"
                 => slots[i] = {}

(* The live bookings of a repeat group are all PENDING or all RESERVED:     *)
(* approve decides a group as a whole, even if single weeks were canceled   *)
(* by any of the cancel paths before.                                      *)
GroupDecidedTogether ==
  \A i, j \in Ids :
    /\ Live(i) /\ Live(j) /\ booking[i].group # NoGroup
    /\ booking[i].group = booking[j].group
    => booking[i].status = booking[j].status

(* The occurrence row of a live weekly booking agrees with the booking; it *)
(* is only the occurrence of a canceled one that may lag behind.           *)
LiveOccurrenceAgrees ==
  \A i \in Ids, g \in Groups :
    /\ Live(i) /\ booking[i].group = g /\ HasGroupRow(g)
    => occurrence[g][booking[i].date] = booking[i].status

CanceledWeeksKept ==
  \A i \in Ids : /\ Exists(i) /\ booking[i].group # NoGroup
                 /\ booking[i].status = "CANCELED"
                 => booking'[i].status = "CANCELED"

(* A weekly booking that was canceled stays canceled: approving the rest of*)
(* its group does not bring it back.                                       *)
WeeklyCancelIsFinal == [][CanceledWeeksKept]_vars

(* With one request in progress at a time: no live booking is left in a     *)
(* room that delete_room closed, unless an admin approved it back.         *)
InactiveRoomEmpty ==
  \A i \in Ids : /\ Live(i) /\ i \notin released
                 => rooms[booking[i].room].status = "ACTIVE"

(* With one request in progress at a time: no booking a user made meets a   *)
(* day-off of its date, for its room or for all of them.                   *)
DayOffsRespected ==
  \A i \in Ids, k \in DayOffs :
    LET h == rooms[booking[i].room].hours
    IN  /\ Firm(i) /\ ~booking[i].byAdmin /\ booking[i].hours = h
        /\ dayOff[k] # NoDayOff
        /\ dayOff[k].room \in {booking[i].room, AllRooms}
        /\ dayOff[k].from <= booking[i].date /\ booking[i].date <= dayOff[k].to
        => ~Overlap(h, booking[i].window, ClosureWindow(h, dayOff[k].span))

-------------------------------------------------------------------------------
(* The inductive invariant behind the safety properties above. *)

(* Rows nothing deleted are those written with the booking, also when the   *)
(* booking was canceled (by a delete_room that missed them).               *)
IntactRows ==
  \A i \in Ids : Exists(i) /\ i \notin released
                => slots[i] = SlotTimes(booking[i].hours, booking[i].window)

(* The unique constraint (room, reservation_date, slot_time). *)
UniqueRows ==
  \A i, j \in Ids : i # j /\ Exists(i) /\ Exists(j) /\ SameDay(i, j)
                   => slots[i] \cap slots[j] = {}

(* What the create paths of users store, or are about to store, passed      *)
(* _validate_time_window.                                                  *)
UserWindows ==
  /\ \A i \in Ids : Exists(i) /\ ~booking[i].byAdmin
                    => ValidTimeWindow(booking[i].hours, booking[i].window)
  /\ \A t \in Txs : tx[t].op \in {"create", "repeat"}
                    => ValidTimeWindow(tx[t].hours, tx[t].window)

IInv == TypeOK /\ IntactRows /\ UniqueRows /\ UserWindows

(* Bookings, and requests about a room, refer to a room that was created;    *)
(* an id is never reused, so a room that was closed stays closed.           *)
KnownRooms ==
  /\ \A i \in Ids : Exists(i) => rooms[booking[i].room].status # "none"
  /\ \A t \in Txs : tx[t].op \in {"create", "repeat", "owner"}
                    => rooms[tx[t].room].status # "none"

-------------------------------------------------------------------------------
(* The calendar the services keep between them. *)

(* The BookingSlot rows of a booking: room, reservation_date, slot_time.    *)
Held(i) == IF Exists(i) THEN {booking[i].room} \X {booking[i].date} \X slots[i] ELSE {}

Calendar == INSTANCE ExclusiveCalendar
              WITH Bookings <- Ids, Cells <- Rooms \X Dates \X TimesOfDay,
                   numbers <- { i \in Ids : Exists(i) }, held <- [i \in Ids |-> Held(i)]

(* Through every interleaving of requests, what the slot rows show is a     *)
(* calendar whose half-hours are taken as a whole request at a time, out of *)
(* those that are free or that the request displaces, and are given up a    *)
(* whole booking at a time.                                                 *)
KeepsCalendar == Calendar!Spec

-------------------------------------------------------------------------------
(* Statements of the repository that the code does not keep. *)

(* BookingSlot rows are created to prevent double booking                   *)
(* (src/BE/README.md:216): no two live bookings of users overlap.          *)
SlotsPreventDoubleBooking ==
  \A i, j \in Ids :
    LET h == rooms[booking[i].room].hours
    IN  i # j /\ Live(i) /\ Live(j) /\ SameDay(i, j)
        => ~Overlap(h, booking[i].window, booking[j].window)

(* The same, for bookings of different dates of a room that never closes.  *)
FullDayBookingsApart ==
  \A i, j \in Ids :
    /\ Live(i) /\ Live(j) /\ booking[i].room = booking[j].room
    /\ booking[i].hours = booking[j].hours /\ booking[i].date < booking[j].date
    => Follows(i, j)

(* The repeat create checks for conflicts again when it creates and skips   *)
(* the weeks that conflict (src/BE/bookings/views.py:680): it never fails   *)
(* because some week is taken, so it ends by storing its occurrences.      *)
RepeatSkipsConflicts ==
  [][\A t \in Txs : tx[t].op = "repeat" /\ tx'[t] = Idle => occurrence' # occurrence]_vars
===============================================================================
