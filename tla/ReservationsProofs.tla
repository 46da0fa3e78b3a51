-------------------------- MODULE ReservationsProofs --------------------------
(***************************************************************************)
(* Proofs about Reservations, for every set of bookings, rooms, dates,     *)
(* concurrent requests, windows and operating hours: the slot rows and     *)
(* what they keep apart, the calendar they implement, the life of bookings *)
(* and weekly groups, and what holds of closed rooms and day-offs while    *)
(* requests come one at a time.                                            *)
(***************************************************************************)
EXTENDS Reservations, RoomClockProofs

-------------------------------------------------------------------------------
(* Facts about rows *)

(* Live bookings exist and are rows; free numbers are neither.              *)
LEMMA ExistingRow ==
  ASSUME TypeOK, NEW i \in Ids
  PROVE  /\ Exists(i) => booking[i] \in Booking
         /\ Live(i) => Exists(i)
         /\ i \in FreeIds => ~Live(i)
  BY DEF TypeOK, Exists, Live, LiveStatus, NoBooking, FreeIds

(* Setting the status of a row gives a row.                                 *)
LEMMA CanceledRow ==
  ASSUME NEW b \in Booking
  PROVE  /\ [b EXCEPT !.status = "CANCELED"] \in Booking
         /\ [b EXCEPT !.status = "RESERVED"] \in Booking
  BY DEF Booking, BookingStatus, LiveStatus

(* What a request in progress holds, by its kind.                           *)
LEMMA TxRow ==
  ASSUME TypeOK, NEW t \in Txs
  PROVE  /\ tx[t].op \in {"create", "repeat", "owner"} => tx[t] \in CreateTx
         /\ tx[t].op = "dayOff" => tx[t] \in DayOffTx
         /\ tx[t].op = "deleteRoom" => tx[t] \in DeleteTx
  BY DEF TypeOK, CreateTx, DayOffTx, DeleteTx, Idle

(* Slot times are times of a day.                                           *)
LEMMA SlotTimesTyped ==
  ASSUME NEW h \in Hours, NEW w \in Window
  PROVE  SlotTimes(h, w) \subseteq TimesOfDay
<1>1. ASSUME NEW x \in StartAt(h, w) .. EndAt(h, w) - 1
      PROVE  TimeOfDay(x) \in TimesOfDay
  BY <1>1, WindowArithmetic, DayAssumption DEF TimeOfDay, TimesOfDay, DayAssumption
<1>. QED  BY <1>1 DEF SlotTimes

(* _normalize_close_time returns operating hours.                           *)
LEMMA ClosedHours ==
  ASSUME NEW h \in Hours
  PROVE  NormalizeCloseTime(h) \in Hours
  BY DEF NormalizeCloseTime, Hours

(* Fresh reservation numbers are unused, and each gets a date of its own.   *)
LEMMA FreshRow ==
  ASSUME TypeOK, NEW ds, NEW new \in FreshNumbers(ds)
  PROVE  /\ DOMAIN new \subseteq FreeIds
         /\ \A i \in DOMAIN new : new[i] \in ds
         /\ \A i, j \in DOMAIN new : new[i] = new[j] => i = j
<1>1. PICK S \in SUBSET FreeIds : new \in Bijection(S, ds)
  BY DEF FreshNumbers
<1>. QED  BY <1>1, Zenon DEF Bijection, Injection, Surjection, IsInjective

-------------------------------------------------------------------------------
(* Type correctness *)

(* Canceling bookings keeps every row well formed.                          *)
LEMMA CancelTyped ==
  ASSUME TypeOK, NEW S \in SUBSET Ids, \A i \in S : Exists(i), CancelBookings(S)
  PROVE  /\ booking' \in [Ids -> Booking \cup {NoBooking}]
         /\ slots' \in [Ids -> SUBSET TimesOfDay]
         /\ released' \subseteq Ids
<1>1. ASSUME NEW i \in Ids PROVE booking'[i] \in Booking \cup {NoBooking}
  <2>1. CASE i \in S
    BY <2>1, ExistingRow, CanceledRow DEF CancelBookings
  <2>2. CASE i \notin S
    BY <2>2 DEF CancelBookings, TypeOK
  <2>. QED  BY <2>1, <2>2
<1>. QED  BY <1>1 DEF CancelBookings, TypeOK

(* So does inserting the bookings of a request.                             *)
LEMMA StoreTyped ==
  ASSUME TypeOK, NEW t \in Txs, tx[t] \in CreateTx,
         NEW new \in FreshNumbers(tx[t].dates), NEW g \in Groups \cup {NoGroup},
         Store(t, new, g)
  PROVE  /\ booking' \in [Ids -> Booking \cup {NoBooking}]
         /\ slots' \in [Ids -> SUBSET TimesOfDay]
         /\ released' \subseteq Ids
         /\ tx' \in [Txs -> CreateTx \cup DayOffTx \cup DeleteTx \cup {Idle}]
         /\ UNCHANGED <<rooms, dayOff>>
<1> DEFINE q == tx[t]
<1>0. /\ q.room \in Rooms /\ q.hours \in Hours /\ q.window \in Window
      /\ q.dates \subseteq Dates /\ q.forced \subseteq Ids
  BY DEF CreateTx
<1>1. ASSUME NEW i \in Ids PROVE booking'[i] \in Booking \cup {NoBooking}
  <2>1. CASE i \in DOMAIN new
    <3>1. new[i] \in Dates
      BY <1>0, <2>1, FreshRow
    <3>2. NewBooking(q, new[i], g) \in Booking
      BY <1>0, <3>1 DEF NewBooking, Booking, BookingStatus, LiveStatus
    <3>. QED  BY <2>1, <3>2 DEF Store
  <2>2. CASE i \notin DOMAIN new /\ i \in Freed(q)
    <3>1. booking[i] \in Booking
      BY <2>2, ExistingRow DEF Freed
    <3>. QED  BY <2>2, <3>1, CanceledRow DEF Store
  <2>3. CASE i \notin DOMAIN new /\ i \notin Freed(q)
    BY <2>3 DEF Store, TypeOK
  <2>. QED  BY <2>1, <2>2, <2>3
<1>2. ASSUME NEW i \in Ids PROVE slots'[i] \subseteq TimesOfDay
  BY <1>0, SlotTimesTyped DEF Store, SlotRows, TypeOK
<1>3. released' \subseteq Ids
  BY <1>0 DEF Store, Freed, TypeOK
<1>. QED  BY <1>1, <1>2, <1>3 DEF Store, TypeOK

(* A request remembers well formed values.                                  *)
LEMMA RequestTyped ==
  ASSUME TypeOK, NEW op \in {"create", "repeat", "owner"}, NEW r \in Rooms,
         NEW w \in Window, NEW n \in Nat, NEW ds \in SUBSET Dates,
         NEW skipped \in SUBSET Dates, NEW forced \in SUBSET Ids
  PROVE  Request(op, r, w, n, ds, skipped, forced) \in CreateTx
  BY DEF Request, CreateTx, TypeOK, RoomRow

(* The empty database is well formed.                                       *)
LEMMA InitTyped ==
  ASSUME Init
  PROVE  TypeOK
  BY InputAssumption DEF InputAssumption, Init, TypeOK, RoomRow, OccStatus

(* The type invariant, one lemma per group of actions.                      *)
LEMMA RoomStepTyped ==
  ASSUME TypeOK, RoomNext
  PROVE  TypeOK'
<1>1. ASSUME NEW r \in Rooms, NEW h \in HourInputs, CreateRoom(r, h) \/ UpdateRoom(r, h)
      PROVE  TypeOK'
  <2>1. NormalizeCloseTime(h) \in Hours
    BY ClosedHours, InputAssumption DEF InputAssumption
  <2>2. /\ rooms \in [Rooms -> RoomRow] /\ rooms[r] \in RoomRow
        /\ [status |-> "ACTIVE", hours |-> NormalizeCloseTime(h)] \in RoomRow
        /\ [rooms[r] EXCEPT !.hours = NormalizeCloseTime(h)] \in RoomRow
    BY <2>1 DEF TypeOK, RoomRow
  <2>3. rooms' \in [Rooms -> RoomRow]
    BY <1>1, <2>2 DEF CreateRoom, UpdateRoom
  <2>. QED  BY <1>1, <2>3 DEF CreateRoom, UpdateRoom, TypeOK
<1>2. ASSUME NEW t \in Txs, NEW r \in Rooms, BeginDeleteRoom(t, r)
      PROVE  TypeOK'
  <2>1. [op |-> "deleteRoom", room |-> r, doomed |-> LiveIn(r)] \in DeleteTx
    BY DEF DeleteTx, LiveIn
  <2>. QED  BY <1>2, <2>1 DEF BeginDeleteRoom, TypeOK
<1>3. ASSUME NEW t \in Txs, CommitDeleteRoom(t)
      PROVE  TypeOK'
  <2>0. tx[t] \in DeleteTx
    BY <1>3, TxRow DEF CommitDeleteRoom
  <2>1. tx[t].room \in Rooms /\ tx[t].doomed \subseteq Ids
    BY <2>0 DEF DeleteTx
  <2>2. ASSUME NEW i \in Ids PROVE booking'[i] \in Booking \cup {NoBooking}
    <3>1. i \in LiveIn(tx[t].room) => booking[i] \in Booking
      BY ExistingRow DEF LiveIn
    <3>. QED  BY <1>3, <3>1, CanceledRow DEF CommitDeleteRoom, TypeOK
  <2>3. rooms' \in [Rooms -> RoomRow]
    BY <1>3, <2>1 DEF CommitDeleteRoom, TypeOK, RoomRow
  <2>4. slots' \in [Ids -> SUBSET TimesOfDay] /\ released' \subseteq Ids
    BY <1>3, <2>1 DEF CommitDeleteRoom, TypeOK
  <2>5. booking' \in [Ids -> Booking \cup {NoBooking}]
    BY <1>3, <2>2 DEF CommitDeleteRoom
  <2>. QED  BY <1>3, <2>3, <2>4, <2>5 DEF CommitDeleteRoom, TypeOK
<1>. QED  BY <1>1, <1>2, <1>3 DEF RoomNext

LEMMA CreateStepTyped ==
  ASSUME TypeOK, CreateNext
  PROVE  TypeOK'
<1>1. ASSUME NEW t \in Txs, NEW r \in Rooms, NEW d \in Dates, NEW n \in RepeatCounts,
             NEW w \in Windows, BeginReservation(t, r, d, n, w) \/ BeginRepeat(t, r, d, n, w)
      PROVE  TypeOK'
  <2>0. w \in Window /\ n \in Nat
    BY InputAssumption DEF InputAssumption
  <2>1. RecurringDates(d, n) \subseteq Dates
    BY <1>1 DEF BeginReservation, BeginRepeat
  <2>2. CASE BeginReservation(t, r, d, n, w)
    <3>1. Request("create", r, w, n, RecurringDates(d, n), {}, {}) \in CreateTx
      BY <2>0, <2>1, RequestTyped
    <3>. QED  BY <2>2, <3>1 DEF BeginReservation, TypeOK
  <2>3. CASE BeginRepeat(t, r, d, n, w)
    <3> DEFINE conflict == { x \in RecurringDates(d, n) : HasOverlap(r, rooms[r].hours, x, w) }
    <3>1. conflict \in SUBSET Dates /\ RecurringDates(d, n) \ conflict \in SUBSET Dates
      BY <2>1
    <3>2. Request("repeat", r, w, n, RecurringDates(d, n) \ conflict, conflict, {}) \in CreateTx
      BY <2>0, <3>1, RequestTyped
    <3>. QED  BY <2>3, <3>2 DEF BeginRepeat, TypeOK
  <2>. QED  BY <1>1, <2>2, <2>3
<1>2. ASSUME NEW t \in Txs, NEW r \in Rooms, NEW d \in Dates, NEW w \in OwnerWindows,
             NEW forced \in SUBSET { i \in Ids : Exists(i) },
             BeginOwnerReservation(t, r, d, w, forced)
      PROVE  TypeOK'
  <2>1. w \in Window /\ {d} \in SUBSET Dates /\ forced \in SUBSET Ids
    BY InputAssumption DEF InputAssumption
  <2>2. Request("owner", r, w, 1, {d}, {}, forced) \in CreateTx
    BY <2>1, RequestTyped
  <2>. QED  BY <1>2, <2>2 DEF BeginOwnerReservation, TypeOK
<1>3. ASSUME NEW t \in Txs, CommitReservation(t)
      PROVE  TypeOK'
  <2>1. tx[t] \in CreateTx
    BY <1>3, TxRow DEF CommitReservation
  <2>2. PICK new \in FreshNumbers(tx[t].dates), g \in Groups \cup {NoGroup} : Store(t, new, g)
    BY <1>3 DEF CommitReservation, FreeGroups
  <2>. QED  BY <1>3, <2>1, <2>2, StoreTyped DEF CommitReservation, TypeOK
<1>4. ASSUME NEW t \in Txs, CommitRepeat(t)
      PROVE  TypeOK'
  <2>1. tx[t] \in CreateTx
    BY <1>4, TxRow DEF CommitRepeat
  <2>2. PICK new \in FreshNumbers(tx[t].dates), g \in FreeGroups :
          /\ Store(t, new, g)
          /\ occurrence' = [occurrence EXCEPT ![g] =
                              [d \in Dates |-> IF d \in tx[t].dates THEN "PENDING"
                                               ELSE IF d \in tx[t].skipped THEN "CONFLICT"
                                               ELSE "none"]]
    BY <1>4 DEF CommitRepeat
  <2>3. g \in Groups
    BY DEF FreeGroups
  <2>4. occurrence' \in [Groups -> [Dates -> OccStatus]]
    BY <2>2, <2>3 DEF TypeOK, OccStatus
  <2>. QED  BY <2>1, <2>2, <2>3, <2>4, StoreTyped DEF TypeOK
<1>5. ASSUME NEW t \in Txs, CommitOwnerReservation(t)
      PROVE  TypeOK'
  <2>1. tx[t] \in CreateTx
    BY <1>5, TxRow DEF CommitOwnerReservation
  <2>. QED  BY <1>5, <2>1, StoreTyped DEF CommitOwnerReservation, TypeOK
<1>6. ASSUME NEW t \in Txs, RejectDuplicate(t)
      PROVE  TypeOK'
  BY <1>6 DEF RejectDuplicate, TypeOK
<1>. QED  BY <1>1, <1>2, <1>3, <1>4, <1>5, <1>6 DEF CreateNext

LEMMA ReviewStepTyped ==
  ASSUME TypeOK, ReviewNext
  PROVE  TypeOK'
<1>1. ASSUME NEW i \in Ids, CancelReservation(i) \/ AdminCancelReservation(i)
      PROVE  TypeOK'
  <2>1. Exists(i) /\ CancelBookings({i})
    BY <1>1 DEF CancelReservation, AdminCancelReservation
  <2>. QED  BY <1>1, <2>1, CancelTyped DEF CancelReservation, AdminCancelReservation, TypeOK
<1>2. ASSUME NEW i \in Ids, ApproveReservation(i)
      PROVE  TypeOK'
  <2>1. booking[i] \in Booking
    BY <1>2, ExistingRow DEF ApproveReservation
  <2>2. booking' \in [Ids -> Booking \cup {NoBooking}]
    BY <1>2, <2>1, CanceledRow DEF ApproveReservation, TypeOK
  <2>. QED  BY <1>2, <2>2 DEF ApproveReservation, TypeOK
<1>3. ASSUME NEW g \in Groups, ApproveGroup(g)
      PROVE  TypeOK'
  <2>1. ASSUME NEW i \in Ids PROVE booking'[i] \in Booking \cup {NoBooking}
    <3>1. i \in GroupBookings(g) => booking[i] \in Booking
      BY ExistingRow DEF GroupBookings
    <3>. QED  BY <1>3, <3>1, CanceledRow DEF ApproveGroup, TypeOK
  <2>2. booking' \in [Ids -> Booking \cup {NoBooking}]
    BY <1>3, <2>1 DEF ApproveGroup
  <2>3. occurrence' \in [Groups -> [Dates -> OccStatus]]
    BY <1>3 DEF ApproveGroup, TypeOK, OccStatus
  <2>. QED  BY <1>3, <2>2, <2>3 DEF ApproveGroup, TypeOK
<1>4. ASSUME NEW g \in Groups, NEW ds \in SUBSET Dates,
             CancelRepeatOccurrences(g, ds) \/ CancelLegacyOccurrences(g, ds)
      PROVE  TypeOK'
  <2> DEFINE S == { i \in GroupBookings(g) : booking[i].date \in ds }
  <2>1. S \in SUBSET Ids /\ (\A i \in S : Exists(i)) /\ CancelBookings(S)
    BY <1>4 DEF CancelRepeatOccurrences, CancelLegacyOccurrences, GroupBookings
  <2>2. occurrence' \in [Groups -> [Dates -> OccStatus]]
    BY <1>4 DEF CancelRepeatOccurrences, CancelLegacyOccurrences, TypeOK, OccStatus
  <2>3. UNCHANGED <<rooms, dayOff, tx>>
    BY <1>4 DEF CancelRepeatOccurrences, CancelLegacyOccurrences
  <2>. QED  BY <2>1, <2>2, <2>3, CancelTyped DEF TypeOK
<1>. QED  BY <1>1, <1>2, <1>3, <1>4 DEF ReviewNext

LEMMA DayOffStepTyped ==
  ASSUME TypeOK, DayOffNext \/ Prune
  PROVE  TypeOK'
<1>1. ASSUME NEW t \in Txs, NEW c \in DayOff, NEW forced \in SUBSET Ids,
             BeginDayOff(t, c, forced)
      PROVE  TypeOK'
  <2>1. [op |-> "dayOff", row |-> c, forced |-> forced] \in DayOffTx
    BY DEF DayOffTx
  <2>. QED  BY <1>1, <2>1 DEF BeginDayOff, TypeOK
<1>2. ASSUME NEW t \in Txs, NEW k \in DayOffs, CommitDayOff(t, k)
      PROVE  TypeOK'
  <2>1. tx[t] \in DayOffTx
    BY <1>2, TxRow DEF CommitDayOff
  <2>2. /\ Freed(tx[t]) \in SUBSET Ids
        /\ \A i \in Freed(tx[t]) : Exists(i)
        /\ tx[t].row \in DayOff
    BY <2>1, ExistingRow DEF Freed, DayOffTx
  <2>. QED  BY <1>2, <2>2, CancelTyped DEF CommitDayOff, TypeOK
<1>3. ASSUME NEW k \in DayOffs, DeleteDayOff(k)
      PROVE  TypeOK'
  BY <1>3 DEF DeleteDayOff, TypeOK
<1>4. ASSUME NEW cutoff, PruneBookingSlots(cutoff)
      PROVE  TypeOK'
  BY <1>4 DEF PruneBookingSlots, TypeOK
<1>5. ASSUME NEW r \in Rooms \cup {AllRooms}, NEW from \in Dates, NEW to \in Dates,
             NEW s \in DayOffSpans
      PROVE  [room |-> r, from |-> from, to |-> to, span |-> s] \in DayOff
  BY InputAssumption DEF InputAssumption, DayOff
<1>. QED  BY <1>1, <1>2, <1>3, <1>4, <1>5 DEF DayOffNext, Prune

(* Every row has the columns and values the models of the code declare.     *)
THEOREM TypeCorrect == Spec => []TypeOK
<1>1. Init => TypeOK
  BY InitTyped
<1>2. TypeOK /\ [Next]_vars => TypeOK'
  <2>1. ASSUME TypeOK, UNCHANGED vars PROVE TypeOK'
    BY <2>1 DEF vars, TypeOK
  <2>. QED  BY <2>1, RoomStepTyped, CreateStepTyped, ReviewStepTyped, DayOffStepTyped DEF Next
<1>. QED  BY <1>1, <1>2, PTL DEF Spec

-------------------------------------------------------------------------------
(* The slot rows *)

SameRow(i) ==
  /\ booking'[i].room = booking[i].room /\ booking'[i].date = booking[i].date
  /\ booking'[i].window = booking[i].window /\ booking'[i].hours = booking[i].hours
  /\ booking'[i].byAdmin = booking[i].byAdmin

(* A step that adds no booking and may only take slot rows away.            *)
OnlyReleases ==
  /\ \A i \in Ids : (Exists(i)' <=> Exists(i)) /\ (Exists(i) => SameRow(i))
  /\ \A i \in Ids : slots'[i] = slots[i] \/ (slots'[i] = {} /\ i \in released')
  /\ released \subseteq released'

(* Taking slot rows away breaks neither invariant about them.               *)
LEMMA ReleasesKeepRows ==
  ASSUME IntactRows, UniqueRows, OnlyReleases
  PROVE  IntactRows' /\ UniqueRows'
<1>1. IntactRows'
  BY DEF IntactRows, OnlyReleases, SameRow
<1>2. UniqueRows'
  BY DEF UniqueRows, OnlyReleases, SameRow, SameDay
<1>. QED  BY <1>1, <1>2

(* Setting the status of a row leaves its other columns alone.              *)
LEMMA StatusOnly ==
  ASSUME NEW b \in Booking, NEW st \in BookingStatus
  PROVE  LET c == [b EXCEPT !.status = st]
         IN  /\ c # NoBooking /\ b # NoBooking
             /\ c.room = b.room /\ c.date = b.date /\ c.window = b.window
             /\ c.hours = b.hours /\ c.byAdmin = b.byAdmin
             /\ c.group = b.group /\ c.status = st
  BY DEF Booking, NoBooking, BookingStatus, LiveStatus

(* Canceling bookings only takes slot rows away.                            *)
LEMMA CancelReleases ==
  ASSUME TypeOK, NEW S \in SUBSET Ids, \A i \in S : Exists(i), CancelBookings(S)
  PROVE  OnlyReleases
<1>1. ASSUME NEW i \in Ids
      PROVE  (Exists(i)' <=> Exists(i)) /\ (Exists(i) => SameRow(i))
  <2>1. CASE i \in S
    <3>1. booking[i] \in Booking
      BY <2>1, ExistingRow
    <3>2. booking'[i] = [booking[i] EXCEPT !.status = "CANCELED"]
      BY <2>1 DEF CancelBookings
    <3>. QED  BY <3>1, <3>2, StatusOnly DEF Exists, SameRow, BookingStatus
  <2>2. CASE i \notin S
    BY <2>2 DEF CancelBookings, Exists, SameRow
  <2>. QED  BY <2>1, <2>2
<1>. QED  BY <1>1 DEF OnlyReleases, CancelBookings

(* Inserting the rows of a request leaves other bookings as they are, or    *)
(* takes all their slot rows away.                                         *)
LEMMA StoreLeavesOthers ==
  ASSUME TypeOK, NEW t \in Txs, NEW new, NEW g, Store(t, new, g),
         NEW i \in Ids, i \notin DOMAIN new
  PROVE  /\ Exists(i)' <=> Exists(i)
         /\ Exists(i) => SameRow(i)
         /\ \/ slots'[i] = slots[i] /\ i \notin Freed(tx[t])
            \/ slots'[i] = {} /\ i \in released' /\ i \in Freed(tx[t])
<1>1. CASE i \in Freed(tx[t])
  <2>1. booking[i] \in Booking
    BY <1>1, ExistingRow DEF Freed
  <2>2. booking'[i] = [booking[i] EXCEPT !.status = "CANCELED"]
    BY <1>1 DEF Store
  <2>3. slots'[i] = {} /\ i \in released'
    BY <1>1 DEF Store
  <2>. QED  BY <1>1, <2>1, <2>2, <2>3, StatusOnly DEF Exists, SameRow, BookingStatus
<1>2. CASE i \notin Freed(tx[t])
  BY <1>2 DEF Store, Exists, SameRow
<1>. QED  BY <1>1, <1>2

(* Inserting the rows of a request: the unique constraint keeps them apart  *)
(* from the rows of other bookings, the dates from one another.            *)
LEMMA StoreKeepsRows ==
  ASSUME TypeOK, IntactRows, UniqueRows, NEW t \in Txs, tx[t] \in CreateTx,
         NEW new \in FreshNumbers(tx[t].dates), NEW g, Store(t, new, g)
  PROVE  IntactRows' /\ UniqueRows'
<1> DEFINE q == tx[t]
<1>1. ASSUME NEW i \in Ids, i \in DOMAIN new
      PROVE  /\ booking'[i].room = q.room /\ booking'[i].date = new[i]
             /\ booking'[i].window = q.window /\ booking'[i].hours = q.hours
             /\ slots'[i] = SlotTimes(q.hours, q.window)
             /\ new[i] \in q.dates
  BY <1>1, FreshRow DEF Store, NewBooking, SlotRows
<1>2. ASSUME NEW i \in Ids, i \notin DOMAIN new
      PROVE  /\ Exists(i)' <=> Exists(i)
             /\ Exists(i) => SameRow(i)
             /\ \/ slots'[i] = slots[i] /\ i \notin Freed(q)
                \/ slots'[i] = {} /\ i \in released'
  BY <1>2, StoreLeavesOthers
<1>3. released \subseteq released'
  BY DEF Store
<1>4. IntactRows'
  BY <1>1, <1>2, <1>3 DEF IntactRows, SameRow
<1>5. ASSUME NEW i \in Ids, NEW j \in Ids, i \in DOMAIN new, j \notin DOMAIN new,
             Exists(j)', SameDay(i, j)'
      PROVE  slots'[i] \cap slots'[j] = {}
  <2>1. booking[j].room = q.room /\ booking[j].date \in q.dates
    BY <1>1, <1>2, <1>5 DEF SameDay, SameRow
  <2>2. CASE slots'[j] = slots[j] /\ j \notin Freed(q)
    BY <1>1, <1>2, <1>5, <2>1, <2>2 DEF Store, SlotsTaken, SlotRows
  <2>. QED  BY <1>2, <1>5, <2>2
<1>6. UniqueRows'
  <2> SUFFICES ASSUME NEW i \in Ids, NEW j \in Ids, i # j, Exists(i)', Exists(j)',
                      SameDay(i, j)'
               PROVE  slots'[i] \cap slots'[j] = {}
    BY DEF UniqueRows
  <2>1. CASE i \in DOMAIN new /\ j \in DOMAIN new
    <3>1. new[i] = new[j]
      BY <1>1, <2>1 DEF SameDay
    <3>. QED  BY <2>1, <3>1, FreshRow
  <2>2. CASE i \in DOMAIN new /\ j \notin DOMAIN new
    BY <1>5, <2>2
  <2>3. CASE i \notin DOMAIN new /\ j \in DOMAIN new
    BY <1>5, <2>3 DEF SameDay
  <2>4. CASE i \notin DOMAIN new /\ j \notin DOMAIN new
    BY <1>2, <2>4 DEF UniqueRows, SameDay, SameRow
  <2>. QED  BY <2>1, <2>2, <2>3, <2>4
<1>. QED  BY <1>4, <1>6

(* A step that leaves every row and every slot row where they are.         *)
LEMMA NoRowTouched ==
  ASSUME UNCHANGED <<booking, slots, released>>
  PROVE  OnlyReleases
  BY DEF OnlyReleases, SameRow, Exists

(* A step that only sets the status of some bookings.                       *)
LEMMA StatusStep ==
  ASSUME TypeOK, NEW S \in SUBSET Ids, \A i \in S : Exists(i), NEW st \in BookingStatus,
         booking' = [i \in Ids |-> IF i \in S THEN [booking[i] EXCEPT !.status = st]
                                   ELSE booking[i]]
  PROVE  \A i \in Ids : (Exists(i)' <=> Exists(i)) /\ (Exists(i) => SameRow(i))
<1> SUFFICES ASSUME NEW i \in Ids
             PROVE  (Exists(i)' <=> Exists(i)) /\ (Exists(i) => SameRow(i))
  OBVIOUS
<1>1. CASE i \in S
  <2>1. booking[i] \in Booking /\ booking'[i] = [booking[i] EXCEPT !.status = st]
    BY <1>1, ExistingRow
  <2>. QED  BY <2>1, StatusOnly DEF Exists, SameRow
<1>2. CASE i \notin S
  BY <1>2 DEF Exists, SameRow
<1>. QED  BY <1>1, <1>2

(* No action but a commit of a create adds slot rows.                       *)
LEMMA RoomStepReleases ==
  ASSUME TypeOK, RoomNext
  PROVE  OnlyReleases
<1>1. ASSUME NEW t \in Txs, CommitDeleteRoom(t)
      PROVE  OnlyReleases
  <2>1. tx[t] \in DeleteTx
    BY <1>1, TxRow DEF CommitDeleteRoom
  <2>2. \A i \in LiveIn(tx[t].room) : Exists(i)
    BY ExistingRow DEF LiveIn
  <2>3. \A i \in Ids : (Exists(i)' <=> Exists(i)) /\ (Exists(i) => SameRow(i))
    BY <1>1, <2>2, StatusStep DEF CommitDeleteRoom, BookingStatus, LiveIn
  <2>4. \A i \in Ids : slots'[i] = slots[i] \/ (slots'[i] = {} /\ i \in released')
    BY <1>1 DEF CommitDeleteRoom
  <2>. QED  BY <1>1, <2>3, <2>4 DEF CommitDeleteRoom, OnlyReleases
<1>. QED  BY <1>1, NoRowTouched DEF RoomNext, CreateRoom, UpdateRoom, BeginDeleteRoom

LEMMA ReviewStepReleases ==
  ASSUME TypeOK, ReviewNext
  PROVE  OnlyReleases
<1>1. ASSUME NEW i \in Ids, CancelReservation(i) \/ AdminCancelReservation(i)
      PROVE  OnlyReleases
  BY <1>1, CancelReleases DEF CancelReservation, AdminCancelReservation
<1>2. ASSUME NEW i \in Ids, ApproveReservation(i)
      PROVE  OnlyReleases
  <2>1. booking' = [j \in Ids |-> IF j \in {i} THEN [booking[j] EXCEPT !.status = "RESERVED"]
                                  ELSE booking[j]]
    BY <1>2 DEF ApproveReservation, TypeOK
  <2>2. {i} \in SUBSET Ids /\ \A j \in {i} : Exists(j)
    BY <1>2 DEF ApproveReservation
  <2>3. "RESERVED" \in BookingStatus
    BY DEF BookingStatus, LiveStatus
  <2>4. \A j \in Ids : (Exists(j)' <=> Exists(j)) /\ (Exists(j) => SameRow(j))
    BY <2>1, <2>2, <2>3, StatusStep
  <2>. QED  BY <1>2, <2>4 DEF ApproveReservation, OnlyReleases
<1>3. ASSUME NEW g \in Groups, ApproveGroup(g)
      PROVE  OnlyReleases
  <2> DEFINE S == { i \in GroupBookings(g) : booking[i].status = "PENDING" }
  <2>1. S \in SUBSET Ids /\ \A i \in S : Exists(i)
    BY DEF GroupBookings
  <2>2. booking' = [i \in Ids |-> IF i \in S THEN [booking[i] EXCEPT !.status = "RESERVED"]
                                  ELSE booking[i]]
    BY <1>3 DEF ApproveGroup
  <2>3. \A i \in Ids : (Exists(i)' <=> Exists(i)) /\ (Exists(i) => SameRow(i))
    BY <2>1, <2>2, StatusStep DEF BookingStatus, LiveStatus
  <2>. QED  BY <1>3, <2>3 DEF ApproveGroup, OnlyReleases
<1>4. ASSUME NEW g \in Groups, NEW ds \in SUBSET Dates,
             CancelRepeatOccurrences(g, ds) \/ CancelLegacyOccurrences(g, ds)
      PROVE  OnlyReleases
  <2> DEFINE S == { i \in GroupBookings(g) : booking[i].date \in ds }
  <2>1. S \in SUBSET Ids /\ (\A i \in S : Exists(i)) /\ CancelBookings(S)
    BY <1>4 DEF CancelRepeatOccurrences, CancelLegacyOccurrences, GroupBookings
  <2>. QED  BY <2>1, CancelReleases
<1>. QED  BY <1>1, <1>2, <1>3, <1>4 DEF ReviewNext

LEMMA DayOffStepReleases ==
  ASSUME TypeOK, DayOffNext \/ Prune
  PROVE  OnlyReleases
<1>1. ASSUME NEW t \in Txs, NEW k \in DayOffs, CommitDayOff(t, k)
      PROVE  OnlyReleases
  <2>1. tx[t] \in DayOffTx
    BY <1>1, TxRow DEF CommitDayOff
  <2>2. Freed(tx[t]) \in SUBSET Ids /\ \A i \in Freed(tx[t]) : Exists(i)
    BY <2>1, ExistingRow DEF Freed, DayOffTx
  <2>. QED  BY <1>1, <2>2, CancelReleases DEF CommitDayOff
<1>2. ASSUME NEW cutoff, PruneBookingSlots(cutoff)
      PROVE  OnlyReleases
  <2>1. \A i \in Ids : slots'[i] = slots[i] \/ (slots'[i] = {} /\ i \in released')
    BY <1>2 DEF PruneBookingSlots
  <2>. QED  BY <1>2, <2>1 DEF PruneBookingSlots, OnlyReleases, SameRow, Exists
<1>3. ASSUME NEW t \in Txs, NEW c, NEW forced, BeginDayOff(t, c, forced)
      PROVE  OnlyReleases
  BY <1>3, NoRowTouched DEF BeginDayOff
<1>4. ASSUME NEW k \in DayOffs, DeleteDayOff(k)
      PROVE  OnlyReleases
  BY <1>4, NoRowTouched DEF DeleteDayOff
<1>. QED  BY <1>1, <1>2, <1>3, <1>4 DEF DayOffNext, Prune

(* Creating bookings either touches no row or stores a request.             *)
LEMMA CreateStepCases ==
  ASSUME TypeOK, CreateNext
  PROVE  \/ OnlyReleases
         \/ \E t \in Txs : /\ tx[t] \in CreateTx
                           /\ \E new \in FreshNumbers(tx[t].dates), g \in Groups \cup {NoGroup} :
                                Store(t, new, g)
<1>1. ASSUME NEW t \in Txs, CommitReservation(t) \/ CommitRepeat(t) \/ CommitOwnerReservation(t)
      PROVE  /\ tx[t] \in CreateTx
             /\ \E new \in FreshNumbers(tx[t].dates), g \in Groups \cup {NoGroup} : Store(t, new, g)
  BY <1>1, TxRow DEF CommitReservation, CommitRepeat, CommitOwnerReservation, FreeGroups
<1>2. ASSUME NEW t \in Txs, NEW r, NEW d, NEW n, NEW w,
             BeginReservation(t, r, d, n, w) \/ BeginRepeat(t, r, d, n, w)
      PROVE  OnlyReleases
  BY <1>2, NoRowTouched DEF BeginReservation, BeginRepeat
<1>3. ASSUME NEW t \in Txs, NEW r, NEW d, NEW w, NEW forced,
             BeginOwnerReservation(t, r, d, w, forced)
      PROVE  OnlyReleases
  BY <1>3, NoRowTouched DEF BeginOwnerReservation
<1>4. ASSUME NEW t \in Txs, RejectDuplicate(t)
      PROVE  OnlyReleases
  BY <1>4, NoRowTouched DEF RejectDuplicate
<1>. QED  BY <1>1, <1>2, <1>3, <1>4 DEF CreateNext

(* Every step keeps the two invariants about slot rows.                     *)
LEMMA RowsKept ==
  ASSUME TypeOK, IntactRows, UniqueRows, Next
  PROVE  IntactRows' /\ UniqueRows'
<1>1. ASSUME NEW t \in Txs, tx[t] \in CreateTx, NEW new \in FreshNumbers(tx[t].dates),
             NEW g \in Groups \cup {NoGroup}, Store(t, new, g)
      PROVE  IntactRows' /\ UniqueRows'
  BY <1>1, StoreKeepsRows
<1>. QED
  BY <1>1, ReleasesKeepRows, RoomStepReleases, CreateStepCases, ReviewStepReleases,
     DayOffStepReleases DEF Next

-------------------------------------------------------------------------------
(* The windows of users *)

(* Bookings of users keep the window and hours that were validated.         *)
LEMMA BookedWindowsKept ==
  ASSUME TypeOK, UserWindows, Next
  PROVE  \A i \in Ids : Exists(i)' /\ ~booking'[i].byAdmin
                        => ValidTimeWindow(booking'[i].hours, booking'[i].window)
<1>1. ASSUME OnlyReleases, NEW i \in Ids, Exists(i)', ~booking'[i].byAdmin
      PROVE  ValidTimeWindow(booking'[i].hours, booking'[i].window)
  <2>1. Exists(i) /\ SameRow(i)
    BY <1>1 DEF OnlyReleases
  <2>. QED  BY <1>1, <2>1 DEF SameRow, UserWindows
<1>2. ASSUME NEW t \in Txs, tx[t] \in CreateTx, NEW new \in FreshNumbers(tx[t].dates),
             NEW g, Store(t, new, g), NEW i \in Ids, Exists(i)', ~booking'[i].byAdmin
      PROVE  ValidTimeWindow(booking'[i].hours, booking'[i].window)
  <2>1. CASE i \in DOMAIN new
    <3>1. booking'[i] = NewBooking(tx[t], new[i], g)
      BY <1>2, <2>1 DEF Store
    <3>2. tx[t].op \in {"create", "repeat"}
      <4>1. booking'[i].byAdmin = (tx[t].op = "owner")
        BY <3>1 DEF NewBooking
      <4>2. tx[t].op # "owner"
        BY <1>2, <4>1
      <4>. QED  BY <1>2, <4>2 DEF CreateTx
    <3>. QED  BY <3>1, <3>2 DEF NewBooking, UserWindows
  <2>2. CASE i \notin DOMAIN new /\ i \in Freed(tx[t])
    <3>1. booking[i] \in Booking /\ Exists(i)
      BY <2>2, ExistingRow DEF Freed
    <3>2. booking'[i] = [booking[i] EXCEPT !.status = "CANCELED"]
      BY <1>2, <2>2 DEF Store
    <3>3. SameRow(i)
      BY <3>1, <3>2, StatusOnly DEF SameRow, BookingStatus
    <3>. QED  BY <1>2, <3>1, <3>3 DEF SameRow, UserWindows
  <2>3. CASE i \notin DOMAIN new /\ i \notin Freed(tx[t])
    BY <1>2, <2>3 DEF Store, Exists, UserWindows
  <2>. QED  BY <2>1, <2>2, <2>3
<1>. QED
  BY <1>1, <1>2, RoomStepReleases, CreateStepCases, ReviewStepReleases, DayOffStepReleases
  DEF Next

(* A step that creates no booking leaves each request in progress alone, or  *)
(* ends it, or starts a day-off or the closing of a room.                   *)
LEMMA OtherRequests ==
  ASSUME TypeOK, NEW u \in Txs, RoomNext \/ ReviewNext \/ DayOffNext \/ Prune
  PROVE  tx'[u] = tx[u] \/ tx'[u].op \in {"idle", "dayOff", "deleteRoom"}
<1> DEFINE Goal == tx'[u] = tx[u] \/ tx'[u].op \in {"idle", "dayOff", "deleteRoom"}
<1>1. ASSUME NEW t \in Txs, NEW v, tx' = [tx EXCEPT ![t] = v],
             v.op \in {"idle", "dayOff", "deleteRoom"}
      PROVE  Goal
  BY <1>1 DEF TypeOK
<1>2. ASSUME NEW t \in Txs, tx' = [tx EXCEPT ![t] = Idle]
      PROVE  Goal
  <2>1. Idle.op \in {"idle", "dayOff", "deleteRoom"}
    BY DEF Idle
  <2>. QED  BY <1>1, <1>2, <2>1
<1>3. CASE RoomNext
  <2>1. ASSUME NEW t \in Txs, NEW r \in Rooms, BeginDeleteRoom(t, r)
        PROVE  Goal
    <3> DEFINE v == [op |-> "deleteRoom", room |-> r, doomed |-> LiveIn(r)]
    <3>1. tx' = [tx EXCEPT ![t] = v]
      BY <2>1 DEF BeginDeleteRoom
    <3>2. v.op \in {"idle", "dayOff", "deleteRoom"}
      OBVIOUS
    <3> HIDE DEF v
    <3>. QED  BY <1>1, <3>1, <3>2
  <2>2. ASSUME NEW t \in Txs, CommitDeleteRoom(t)
        PROVE  Goal
    BY <1>2, <2>2 DEF CommitDeleteRoom
  <2>3. ASSUME NEW r, NEW h, CreateRoom(r, h) \/ UpdateRoom(r, h)
        PROVE  Goal
    BY <2>3 DEF CreateRoom, UpdateRoom
  <2>. QED  BY <1>3, <2>1, <2>2, <2>3 DEF RoomNext
<1>4. CASE ReviewNext \/ Prune
  <2>1. tx' = tx
    BY <1>4
    DEF ReviewNext, CancelReservation, AdminCancelReservation, ApproveReservation, ApproveGroup,
        CancelRepeatOccurrences, CancelLegacyOccurrences, Prune, PruneBookingSlots
  <2>. QED  BY <2>1
<1>5. CASE DayOffNext
  <2>1. ASSUME NEW t \in Txs, NEW c, NEW forced, BeginDayOff(t, c, forced)
        PROVE  Goal
    <3> DEFINE v == [op |-> "dayOff", row |-> c, forced |-> forced]
    <3>1. tx' = [tx EXCEPT ![t] = v]
      BY <2>1 DEF BeginDayOff
    <3>2. v.op \in {"idle", "dayOff", "deleteRoom"}
      OBVIOUS
    <3> HIDE DEF v
    <3>. QED  BY <1>1, <3>1, <3>2
  <2>2. ASSUME NEW t \in Txs, NEW k \in DayOffs, CommitDayOff(t, k)
        PROVE  Goal
    BY <1>2, <2>2 DEF CommitDayOff
  <2>3. ASSUME NEW k \in DayOffs, DeleteDayOff(k)
        PROVE  Goal
    BY <2>3 DEF DeleteDayOff
  <2>. QED  BY <1>5, <2>1, <2>2, <2>3 DEF DayOffNext
<1>. QED  BY <1>3, <1>4, <1>5

(* Requests of users in progress hold a validated window.                   *)
LEMMA RequestedWindowsKept ==
  ASSUME TypeOK, UserWindows, Next
  PROVE  \A t \in Txs : tx'[t].op \in {"create", "repeat"}
                        => ValidTimeWindow(tx'[t].hours, tx'[t].window)
<1> SUFFICES ASSUME NEW u \in Txs, tx'[u].op \in {"create", "repeat"}
             PROVE  ValidTimeWindow(tx'[u].hours, tx'[u].window)
  OBVIOUS
<1>0. ASSUME tx'[u] = tx[u] PROVE ValidTimeWindow(tx'[u].hours, tx'[u].window)
  BY <1>0 DEF UserWindows
<1>1. ASSUME tx'[u].op = "idle" PROVE FALSE
  BY <1>1
<1>2. CASE RoomNext \/ ReviewNext \/ DayOffNext \/ Prune
  BY <1>0, <1>2, OtherRequests
<1>3. CASE CreateNext
  <2>1. ASSUME NEW t \in Txs, NEW r, NEW d, NEW n, NEW w,
               BeginReservation(t, r, d, n, w) \/ BeginRepeat(t, r, d, n, w)
        PROVE  ValidTimeWindow(tx'[u].hours, tx'[u].window)
    <3>1. CASE u = t
      BY <2>1, <3>1 DEF BeginReservation, BeginRepeat, Request, TypeOK
    <3>2. CASE u # t
      BY <1>0, <2>1, <3>2 DEF BeginReservation, BeginRepeat, TypeOK
    <3>. QED  BY <3>1, <3>2
  <2>2. ASSUME NEW t \in Txs, NEW r, NEW d, NEW w, NEW forced,
               BeginOwnerReservation(t, r, d, w, forced)
        PROVE  ValidTimeWindow(tx'[u].hours, tx'[u].window)
    <3>1. CASE u = t
      <4>1. tx'[u].op = "owner"
        BY <2>2, <3>1 DEF BeginOwnerReservation, Request, TypeOK
      <4>. QED  BY <4>1
    <3>2. CASE u # t
      BY <1>0, <2>2, <3>2 DEF BeginOwnerReservation, TypeOK
    <3>. QED  BY <3>1, <3>2
  <2>3. ASSUME NEW t \in Txs, \/ CommitReservation(t) \/ CommitRepeat(t)
                              \/ CommitOwnerReservation(t) \/ RejectDuplicate(t)
        PROVE  ValidTimeWindow(tx'[u].hours, tx'[u].window)
    <3>1. tx' = [tx EXCEPT ![t] = Idle]
      BY <2>3 DEF CommitReservation, CommitRepeat, CommitOwnerReservation, RejectDuplicate, Store
    <3>2. CASE u = t
      BY <1>1, <3>1, <3>2 DEF Idle, TypeOK
    <3>3. CASE u # t
      BY <1>0, <3>1, <3>3 DEF TypeOK
    <3>. QED  BY <3>2, <3>3
  <2>. QED  BY <1>3, <2>1, <2>2, <2>3 DEF CreateNext
<1>. QED  BY <1>2, <1>3 DEF Next

-------------------------------------------------------------------------------
(* Safety *)

(* The inductive invariant: rows are typed, a booking whose slot rows no     *)
(* statement deleted still has those it was created with, the unique        *)
(* constraint holds, and what users book passed _validate_time_window.      *)
THEOREM RowInvariant == Spec => []IInv
<1>1. Init => IInv
  <2> SUFFICES ASSUME Init PROVE IInv
    OBVIOUS
  <2>1. (\A i \in Ids : ~Exists(i)) /\ (\A t \in Txs : tx[t].op = "idle")
    BY DEF Init, Exists, Idle
  <2>2. IntactRows /\ UniqueRows /\ UserWindows
    BY <2>1 DEF IntactRows, UniqueRows, UserWindows
  <2>. QED  BY <2>2, InitTyped DEF IInv
<1>2. IInv /\ [Next]_vars => IInv'
  <2> SUFFICES ASSUME IInv, [Next]_vars PROVE IInv'
    OBVIOUS
  <2>1. CASE Next
    <3>1. TypeOK'
      BY <2>1, RoomStepTyped, CreateStepTyped, ReviewStepTyped, DayOffStepTyped DEF IInv, Next
    <3>2. IntactRows' /\ UniqueRows'
      BY <2>1, RowsKept DEF IInv
    <3>3. UserWindows'
      BY <2>1, BookedWindowsKept, RequestedWindowsKept DEF IInv, UserWindows, Exists
    <3>. QED  BY <3>1, <3>2, <3>3 DEF IInv
  <2>2. CASE UNCHANGED vars
    BY <2>2 DEF IInv, vars, TypeOK, IntactRows, UniqueRows, UserWindows, Exists, SameDay
  <2>. QED  BY <2>1, <2>2
<1>. QED  BY <1>1, <1>2, PTL DEF Spec

(* What the inductive invariant says of a booking that kept its slot rows.  *)
LEMMA FirmRow ==
  ASSUME IInv, NEW i \in Ids, Firm(i)
  PROVE  /\ booking[i] \in Booking
         /\ slots[i] = WallSlots(booking[i].window)
<1>1. Exists(i) /\ booking[i] \in Booking
  BY ExistingRow DEF IInv, Firm
<1>2. slots[i] = SlotTimes(booking[i].hours, booking[i].window)
  BY <1>1 DEF IInv, IntactRows, Firm
<1>3. booking[i].hours \in Hours /\ booking[i].window \in Window
  BY <1>1 DEF Booking
<1>. QED  BY <1>1, <1>2, <1>3, SlotTimesAreWallSlots DEF Firm, Occupies

(* Whichever path made a live booking and whatever the room's hours were,    *)
(* its slot rows are the half-hours of its window, until prune, a cancel or  *)
(* an admin reviving it took them away.                                     *)
THEOREM SlotRowsBackBookings == Spec => []BackedBySlots
<1>1. IInv => BackedBySlots
  BY FirmRow DEF BackedBySlots
<1>. QED  BY <1>1, RowInvariant, PTL

(* No double booking: for any number of requests whose checks and inserts    *)
(* interleave, and any change of the room's hours, two live bookings of a    *)
(* room and date that kept their slot rows do not overlap.                  *)
THEOREM BookingsDoNotOverlap == Spec => []NoDoubleBooking
<1>1. ASSUME IInv PROVE NoDoubleBooking
  <2> SUFFICES ASSUME NEW i \in Ids, NEW j \in Ids, i # j, Firm(i), Firm(j), SameDay(i, j),
                      IsHalfHourUnit(booking[i].window.start),
                      IsHalfHourUnit(booking[j].window.start),
                      Occupies(rooms[booking[i].room].hours, booking[i].window),
                      Occupies(rooms[booking[i].room].hours, booking[j].window),
                      Overlap(rooms[booking[i].room].hours, booking[i].window, booking[j].window)
               PROVE  FALSE
    BY DEF NoDoubleBooking
  <2> DEFINE h == rooms[booking[i].room].hours
             v == booking[i].window
             w == booking[j].window
  <2>1. /\ booking[i] \in Booking /\ slots[i] = WallSlots(v)
        /\ booking[j] \in Booking /\ slots[j] = WallSlots(w)
    BY <1>1, FirmRow
  <2>2. v \in Window /\ w \in Window /\ booking[i].room \in Rooms
    BY <2>1 DEF Booking
  <2>3. h \in Hours
    BY <1>1, <2>2 DEF IInv, TypeOK, RoomRow
  <2>4. SlotTimes(h, v) = WallSlots(v) /\ SlotTimes(h, w) = WallSlots(w)
    BY <2>2, <2>3, SlotTimesAreWallSlots DEF Occupies
  <2>5. SlotTimes(h, v) \cap SlotTimes(h, w) # {}
    BY <2>2, <2>3, OverlappingWindowsShare DEF Occupies
  <2>6. slots[i] \cap slots[j] = {}
    BY <1>1, ExistingRow DEF IInv, UniqueRows, Firm
  <2>. QED  BY <2>1, <2>4, <2>5, <2>6
<1>. QED  BY <1>1, RowInvariant, PTL

(* In a room that closes, what users book on one date is over before what    *)
(* they book on a later date begins, in overnight rooms too, although no     *)
(* check compares bookings of two dates.                                    *)
THEOREM DatesDoNotMeet == Spec => []OperatingDaysApart
<1>1. ASSUME IInv PROVE OperatingDaysApart
  <2> SUFFICES ASSUME NEW i \in Ids, NEW j \in Ids, Live(i), Live(j),
                      ~booking[i].byAdmin, ~booking[j].byAdmin,
                      booking[i].hours = booking[j].hours, ~booking[i].hours.allDay,
                      booking[i].date < booking[j].date
               PROVE  Follows(i, j)
    BY DEF OperatingDaysApart
  <2>1. Exists(i) /\ Exists(j) /\ booking[i] \in Booking /\ booking[j] \in Booking
    BY <1>1, ExistingRow DEF IInv
  <2>2. /\ booking[i].hours \in Hours
        /\ booking[i].window \in Window /\ booking[j].window \in Window
        /\ booking[i].date \in Nat /\ booking[j].date \in Nat
    BY <2>1, InputAssumption DEF Booking, InputAssumption
  <2>3. /\ ValidTimeWindow(booking[i].hours, booking[i].window)
        /\ ValidTimeWindow(booking[i].hours, booking[j].window)
    BY <1>1, <2>1 DEF IInv, UserWindows
  <2>. QED  BY <2>2, <2>3, WindowsOfTwoDates DEF Follows
<1>. QED  BY <1>1, RowInvariant, PTL

-------------------------------------------------------------------------------
(* The calendar *)

Numbers == { i \in Ids : Exists(i) }

(* A step that only takes slot rows away releases whole bookings.          *)
LEMMA ReleaseStep ==
  ASSUME OnlyReleases
  PROVE  Calendar!Next
<1> DEFINE S == { i \in Numbers : slots'[i] = {} }
<1>1. S \in SUBSET Numbers /\ Numbers' = Numbers
  BY DEF OnlyReleases, Numbers
<1>2. ASSUME NEW i \in Ids
      PROVE  Held(i)' = IF i \in S THEN {} ELSE Held(i)
  <2>1. CASE ~Exists(i)
    BY <2>1 DEF OnlyReleases, Held, Numbers
  <2>2. CASE i \in S
    BY <2>2 DEF Held
  <2>3. CASE Exists(i) /\ i \notin S
    <3>1. slots'[i] = slots[i]
      BY <2>3 DEF OnlyReleases, Numbers
    <3>. QED  BY <2>3, <3>1 DEF OnlyReleases, SameRow, Held
  <2>. QED  BY <2>1, <2>2, <2>3
<1>3. [i \in Ids |-> Held(i)]' = [i \in Ids |-> IF i \in S THEN {} ELSE [j \in Ids |-> Held(j)][i]]
  BY <1>2
<1>4. Calendar!Release(S)
  BY <1>1, <1>3 DEF Calendar!Release, Numbers
<1>. QED  BY <1>1, <1>4 DEF Calendar!Next, Numbers

(* Storing a request reserves the cells of its bookings, in the place of the*)
(* bookings it cancels.                                                    *)
LEMMA StoreStep ==
  ASSUME TypeOK, TypeOK', UniqueRows', NEW t \in Txs, tx[t] \in CreateTx,
         NEW new \in FreshNumbers(tx[t].dates), NEW g \in Groups \cup {NoGroup},
         Store(t, new, g)
  PROVE  Calendar!Next
<1> DEFINE N == DOMAIN new
           F == Freed(tx[t])
<1>1. N \in SUBSET (Ids \ Numbers) /\ \A i \in N : Exists(i)'
  <2>1. N \subseteq FreeIds
    BY DEF FreshNumbers, Bijection, Injection, IsInjective, Surjection
  <2>2. \A i \in N : booking'[i] = NewBooking(tx[t], new[i], g)
    BY <2>1 DEF Store, FreeIds
  <2>3. ASSUME NEW i \in N  PROVE  booking'[i] # NoBooking
    <3>1. new[i] \in Dates /\ tx[t].room \in Rooms /\ tx[t].hours \in Hours /\ tx[t].window \in Window
      BY <2>3, FreshRow DEF CreateTx
    <3>2. NewBooking(tx[t], new[i], g) \in Booking
      BY <3>1 DEF NewBooking, Booking, BookingStatus, LiveStatus
    <3>3. "CANCELED" \in BookingStatus
      BY DEF BookingStatus
    <3>. QED  BY <2>2, <2>3, <3>2, <3>3, StatusOnly
  <2>. QED  BY <2>1, <2>3 DEF FreeIds, Numbers, Exists
<1>2. F \in SUBSET Numbers
  BY ExistingRow DEF Freed, Numbers, CreateTx
<1>3. \A i \in Ids \ N : Exists(i)' <=> Exists(i)
  BY StoreLeavesOthers
<1>4. Numbers' = Numbers \cup N
  BY <1>1, <1>3 DEF Numbers
<1>5. ASSUME NEW i \in F  PROVE  Held(i)' = {}
  <2>1. slots'[i] = {}
    BY <1>1, <1>2, StoreLeavesOthers DEF Numbers
  <2>. QED  BY <2>1 DEF Held
<1>6. ASSUME NEW i \in Ids \ (N \cup F)  PROVE  Held(i)' = Held(i)
  <2>1. (Exists(i)' <=> Exists(i)) /\ (Exists(i) => SameRow(i)) /\ slots'[i] = slots[i]
    BY <1>6, StoreLeavesOthers
  <2>. QED  BY <2>1 DEF Held, SameRow
<1>7. ASSUME NEW i \in Ids, NEW j \in Ids, i # j  PROVE  Held(i)' \cap Held(j)' = {}
  <2>1. CASE Exists(i)' /\ Exists(j)' /\ SameDay(i, j)'
    BY <1>7, <2>1 DEF UniqueRows, Held
  <2>2. CASE Exists(i)' /\ Exists(j)' /\ ~SameDay(i, j)'
    BY <2>2 DEF Held, SameDay
  <2>3. CASE ~Exists(i)' \/ ~Exists(j)'
    BY <2>3 DEF Held
  <2>. QED  BY <2>1, <2>2, <2>3
<1>8. [i \in Ids |-> Held(i)]' \in [Ids -> SUBSET (Rooms \X Dates \X TimesOfDay)]
  <2>1. ASSUME NEW i \in Ids  PROVE  Held(i)' \in SUBSET (Rooms \X Dates \X TimesOfDay)
    <3>1. CASE Exists(i)'
      <4>1. booking'[i] \in Booking /\ slots'[i] \subseteq TimesOfDay
        BY <3>1 DEF TypeOK, Exists
      <4>. QED  BY <3>1, <4>1 DEF Held, Booking
    <3>2. CASE ~Exists(i)'
      BY <3>2 DEF Held
    <3>. QED  BY <3>1, <3>2
  <2>. QED  BY <2>1
<1>9. CASE N # {}
  <2>1. Calendar!Reserve(N, F)
    BY <1>1, <1>2, <1>4, <1>5, <1>6, <1>7, <1>8, <1>9 DEF Calendar!Reserve, Numbers
  <2>. QED  BY <1>1, <1>2, <2>1 DEF Calendar!Next, Numbers
<1>10. CASE N = {}
  <2>1. [i \in Ids |-> Held(i)]' = [i \in Ids |-> IF i \in F THEN {} ELSE [j \in Ids |-> Held(j)][i]]
    BY <1>2, <1>5, <1>6, <1>10
  <2>2. Calendar!Release(F)
    BY <1>4, <1>10, <2>1 DEF Calendar!Release, Numbers
  <2>. QED  BY <1>2, <2>2 DEF Calendar!Next, Numbers
<1>. QED  BY <1>9, <1>10

(* However the requests interleave, the slot rows are a calendar: cells are  *)
(* taken a whole request at a time, out of those free or displaced by it,   *)
(* and given up a whole booking at a time.                                  *)
THEOREM ReservationsKeepCalendar == Spec => KeepsCalendar
<1>1. Init => Calendar!Init
  <2> SUFFICES ASSUME Init PROVE Calendar!Init
    OBVIOUS
  <2>1. \A i \in Ids : ~Exists(i)
    BY DEF Init, Exists
  <2>. QED  BY <2>1 DEF Calendar!Init, Held
<1>2. ASSUME IInv, IInv', [Next]_vars  PROVE  [Calendar!Next]_(Calendar!vars)
  <2>1. CASE Next
    <3>1. ASSUME NEW t \in Txs, tx[t] \in CreateTx, NEW new \in FreshNumbers(tx[t].dates),
                 NEW g \in Groups \cup {NoGroup}, Store(t, new, g)
          PROVE  Calendar!Next
      BY <1>2, <3>1, StoreStep DEF IInv
    <3>. QED
      BY <1>2, <2>1, <3>1, ReleaseStep, RoomStepReleases, CreateStepCases, ReviewStepReleases,
         DayOffStepReleases DEF Next, IInv
  <2>2. CASE UNCHANGED vars
    BY <2>2 DEF vars, Calendar!vars, Held, Exists
  <2>. QED  BY <1>2, <2>1, <2>2
<1>. QED  BY <1>1, <1>2, RowInvariant, PTL DEF Spec, KeepsCalendar, Calendar!Spec

(* What the calendar is for: no cell is ever held by two bookings.          *)
THEOREM CellsAreExclusive == Calendar!Spec => []Calendar!Exclusive
<1>1. ASSUME Calendar!Init  PROVE  Calendar!Exclusive
  BY <1>1 DEF Calendar!Init, Calendar!Exclusive
<1>2. ASSUME Calendar!Exclusive, [Calendar!Next]_(Calendar!vars)  PROVE  Calendar!Exclusive'
  <2> DEFINE old == [i \in Ids |-> Held(i)]
             new == [i \in Ids |-> Held(i)]'
  <2>1. ASSUME NEW N \in SUBSET (Ids \ Numbers), NEW F \in SUBSET Numbers, Calendar!Reserve(N, F)
        PROVE  Calendar!Exclusive'
    <3>1. \A b \in Ids \ N : Held(b)' \in {{}, Held(b)}
      BY <2>1 DEF Calendar!Reserve
    <3>2. \A b \in N, c \in Ids : b # c => Held(b)' \cap Held(c)' = {}
      BY <2>1 DEF Calendar!Reserve
    <3>. QED  BY <1>2, <3>1, <3>2 DEF Calendar!Exclusive
  <2>2. ASSUME NEW S, Calendar!Release(S)  PROVE  Calendar!Exclusive'
    <3>1. \A b \in Ids : Held(b)' \in {{}, Held(b)}
      BY <2>2 DEF Calendar!Release
    <3>. QED  BY <1>2, <3>1 DEF Calendar!Exclusive
  <2>3. CASE UNCHANGED Calendar!vars
    <3>1. \A b \in Ids : Held(b)' = Held(b)
      BY <2>3 DEF Calendar!vars
    <3>. QED  BY <1>2, <3>1 DEF Calendar!Exclusive
  <2>. QED  BY <1>2, <2>1, <2>2, <2>3 DEF Calendar!Next, Numbers
<1>. QED  BY <1>1, <1>2, PTL DEF Calendar!Spec

-------------------------------------------------------------------------------
(* What a step does to the bookings there are *)

OnlyCancels ==
  \A i \in Ids : \/ booking'[i] = booking[i]
                 \/ Exists(i) /\ booking'[i] = [booking[i] EXCEPT !.status = "CANCELED"]

StoresRequest(t) ==
  /\ tx[t] \in CreateTx
  /\ CommitReservation(t) \/ CommitRepeat(t) \/ CommitOwnerReservation(t)

(* Canceling bookings only cancels.                                         *)
LEMMA CancelOnlyCancels ==
  ASSUME NEW S \in SUBSET Ids, \A i \in S : Exists(i), CancelBookings(S)
  PROVE  OnlyCancels
  BY DEF OnlyCancels, CancelBookings

(* Every step only cancels, and then leaves the occurrence rows alone or is  *)
(* the cancel of some weeks; or it approves; or it stores a request.        *)
LEMMA BookingCases ==
  ASSUME TypeOK, Next
  PROVE  \/ OnlyCancels /\ UNCHANGED occurrence
         \/ \E g \in Groups, ds \in SUBSET Dates : OnlyCancels /\ CancelRepeatOccurrences(g, ds)
         \/ \E i \in Ids : ApproveReservation(i)
         \/ \E g \in Groups : ApproveGroup(g)
         \/ \E t \in Txs : StoresRequest(t)
<1>1. CASE RoomNext
  <2>1. ASSUME NEW t \in Txs, CommitDeleteRoom(t)
        PROVE  OnlyCancels /\ UNCHANGED occurrence
    <3>1. \A i \in LiveIn(tx[t].room) : i \in Ids /\ Exists(i)
      BY ExistingRow DEF LiveIn
    <3>. QED  BY <2>1, <3>1 DEF CommitDeleteRoom, OnlyCancels
  <2>. QED  BY <1>1, <2>1
            DEF RoomNext, CreateRoom, UpdateRoom, BeginDeleteRoom, OnlyCancels
<1>2. CASE CreateNext
  <2>1. ASSUME NEW t \in Txs, CommitReservation(t) \/ CommitRepeat(t) \/ CommitOwnerReservation(t)
        PROVE  StoresRequest(t)
    BY <2>1, TxRow
    DEF StoresRequest, CommitReservation, CommitRepeat, CommitOwnerReservation
  <2>2. ASSUME NEW t \in Txs, NEW r, NEW d, NEW n, NEW w,
               BeginReservation(t, r, d, n, w) \/ BeginRepeat(t, r, d, n, w)
        PROVE  OnlyCancels /\ UNCHANGED occurrence
    BY <2>2 DEF BeginReservation, BeginRepeat, OnlyCancels
  <2>3. ASSUME NEW t \in Txs, NEW r, NEW d, NEW w, NEW forced,
               BeginOwnerReservation(t, r, d, w, forced)
        PROVE  OnlyCancels /\ UNCHANGED occurrence
    BY <2>3 DEF BeginOwnerReservation, OnlyCancels
  <2>4. ASSUME NEW t \in Txs, RejectDuplicate(t)
        PROVE  OnlyCancels /\ UNCHANGED occurrence
    BY <2>4 DEF RejectDuplicate, OnlyCancels
  <2>. QED  BY <1>2, <2>1, <2>2, <2>3, <2>4 DEF CreateNext
<1>3. CASE ReviewNext
  <2>1. ASSUME NEW i \in Ids, CancelReservation(i) \/ AdminCancelReservation(i)
        PROVE  OnlyCancels /\ UNCHANGED occurrence
    <3>1. {i} \in SUBSET Ids /\ (\A j \in {i} : Exists(j)) /\ CancelBookings({i})
      BY <2>1 DEF CancelReservation, AdminCancelReservation
    <3>2. OnlyCancels
      BY <3>1, CancelOnlyCancels
    <3>. QED  BY <2>1, <3>2 DEF CancelReservation, AdminCancelReservation
  <2>2. ASSUME NEW g \in Groups, NEW ds \in SUBSET Dates,
               CancelRepeatOccurrences(g, ds) \/ CancelLegacyOccurrences(g, ds)
        PROVE  OnlyCancels
    <3> DEFINE S == { i \in GroupBookings(g) : booking[i].date \in ds }
    <3>1. S \in SUBSET Ids /\ (\A i \in S : Exists(i)) /\ CancelBookings(S)
      BY <2>2 DEF CancelRepeatOccurrences, CancelLegacyOccurrences, GroupBookings
    <3>. QED  BY <3>1, CancelOnlyCancels
  <2>3. ASSUME NEW g \in Groups, NEW ds \in SUBSET Dates, CancelLegacyOccurrences(g, ds)
        PROVE  UNCHANGED occurrence
    BY <2>3 DEF CancelLegacyOccurrences
  <2>. QED  BY <1>3, <2>1, <2>2, <2>3 DEF ReviewNext
<1>4. CASE DayOffNext \/ Prune
  <2>1. ASSUME NEW t \in Txs, NEW k \in DayOffs, CommitDayOff(t, k)
        PROVE  OnlyCancels /\ UNCHANGED occurrence
    <3>1. tx[t] \in DayOffTx
      BY <2>1, TxRow DEF CommitDayOff
    <3>2. Freed(tx[t]) \in SUBSET Ids /\ \A i \in Freed(tx[t]) : Exists(i)
      BY <3>1, ExistingRow DEF Freed, DayOffTx
    <3>. QED  BY <2>1, <3>2, CancelOnlyCancels DEF CommitDayOff
  <2>. QED  BY <1>4, <2>1
            DEF DayOffNext, BeginDayOff, DeleteDayOff, Prune, PruneBookingSlots, OnlyCancels
<1>. QED  BY <1>1, <1>2, <1>3, <1>4 DEF Next

(* A canceled row is CANCELED, and keeps its group and date.                *)
LEMMA CanceledStatus ==
  ASSUME TypeOK, OnlyCancels, NEW i \in Ids
  PROVE  /\ booking'[i] = booking[i] \/ booking'[i].status = "CANCELED"
         /\ Live(i)' => booking'[i] = booking[i]
<1>1. CASE booking'[i] = booking[i]
  BY <1>1
<1>2. CASE Exists(i) /\ booking'[i] = [booking[i] EXCEPT !.status = "CANCELED"]
  <2>1. booking[i] \in Booking
    BY <1>2, ExistingRow
  <2>2. booking'[i].status = "CANCELED"
    BY <1>2, <2>1, StatusOnly DEF BookingStatus
  <2>. QED  BY <2>2 DEF Live, LiveStatus
<1>. QED  BY <1>1, <1>2 DEF OnlyCancels

(* What storing a request does to a booking: it is new, canceled or as before*)
LEMMA StoredRow ==
  ASSUME TypeOK, NEW t \in Txs, tx[t] \in CreateTx,
         NEW new \in FreshNumbers(tx[t].dates), NEW g, Store(t, new, g), NEW i \in Ids
  PROVE  /\ i \in DOMAIN new => /\ ~Exists(i)
                                /\ new[i] \in tx[t].dates
                                /\ booking'[i] = NewBooking(tx[t], new[i], g)
         /\ i \notin DOMAIN new => \/ booking'[i] = booking[i] /\ slots'[i] = slots[i]
                                   \/ /\ Exists(i) /\ booking'[i].status = "CANCELED"
                                      /\ booking'[i].room = booking[i].room
                                      /\ slots'[i] = {}
<1>1. CASE i \in DOMAIN new
  BY <1>1, FreshRow DEF Store, FreeIds
<1>2. CASE i \notin DOMAIN new /\ i \in Freed(tx[t])
  <2>1. Exists(i) /\ booking[i] \in Booking
    BY <1>2, ExistingRow DEF Freed
  <2>2. booking'[i] = [booking[i] EXCEPT !.status = "CANCELED"] /\ slots'[i] = {}
    BY <1>2 DEF Store
  <2>. QED  BY <1>2, <2>1, <2>2, StatusOnly DEF BookingStatus
<1>3. CASE i \notin DOMAIN new /\ i \notin Freed(tx[t])
  BY <1>3 DEF Store
<1>. QED  BY <1>1, <1>2, <1>3

(* The new rows of a request, with the group and occurrences it gives them.  *)
LEMMA StoredRequest ==
  ASSUME TypeOK, NEW t \in Txs, StoresRequest(t)
  PROVE  \E new \in FreshNumbers(tx[t].dates), g \in FreeGroups \cup {NoGroup} :
           /\ Store(t, new, g)
           /\ \/ UNCHANGED occurrence
              \/ /\ tx[t].op = "repeat" /\ g \in FreeGroups
                 /\ occurrence' = [occurrence EXCEPT ![g] =
                                     [d \in Dates |-> IF d \in tx[t].dates THEN "PENDING"
                                                      ELSE IF d \in tx[t].skipped THEN "CONFLICT"
                                                      ELSE "none"]]
  BY DEF StoresRequest, CommitReservation, CommitRepeat, CommitOwnerReservation

(* Approving a booking that belongs to no group changes that booking only.   *)
LEMMA ApprovedRow ==
  ASSUME TypeOK, NEW i \in Ids, ApproveReservation(i), NEW j \in Ids
  PROVE  /\ i # j => booking'[j] = booking[j]
         /\ booking'[i].status = "RESERVED"
         /\ booking'[i].group = NoGroup /\ booking[i].group = NoGroup
         /\ booking'[i].room = booking[i].room
         /\ Exists(i)
<1>1. booking[i] \in Booking /\ booking'[i] = [booking[i] EXCEPT !.status = "RESERVED"]
  BY ExistingRow DEF ApproveReservation, TypeOK
<1>. QED  BY <1>1, StatusOnly DEF ApproveReservation, TypeOK, BookingStatus, LiveStatus

(* Approving a group turns its waiting bookings into approved ones.          *)
LEMMA ApprovedGroup ==
  ASSUME TypeOK, NEW g \in Groups, ApproveGroup(g), NEW i \in Ids
  PROVE  \/ booking'[i] = booking[i] /\ ~(booking[i].group = g /\ booking[i].status = "PENDING")
         \/ /\ Exists(i) /\ booking[i].group = g /\ booking[i].status = "PENDING"
            /\ booking'[i].status = "RESERVED" /\ booking'[i].group = g
            /\ booking'[i].date = booking[i].date /\ booking'[i].room = booking[i].room
<1>1. CASE Exists(i) /\ booking[i].group = g /\ booking[i].status = "PENDING"
  <2>1. booking[i] \in Booking /\ booking'[i] = [booking[i] EXCEPT !.status = "RESERVED"]
    BY <1>1, ExistingRow DEF ApproveGroup, GroupBookings
  <2>. QED  BY <1>1, <2>1, StatusOnly DEF BookingStatus, LiveStatus
<1>2. CASE ~Exists(i)
  BY <1>2 DEF ApproveGroup, GroupBookings, Exists, NoBooking
<1>3. CASE Exists(i) /\ ~(booking[i].group = g /\ booking[i].status = "PENDING")
  BY <1>3 DEF ApproveGroup, GroupBookings
<1>. QED  BY <1>1, <1>2, <1>3

-------------------------------------------------------------------------------
(* Weekly groups *)

(* A canceled weekly booking stays canceled in every step.                  *)
LEMMA WeeklyCancelStays ==
  ASSUME TypeOK, Next, NEW i \in Ids, Exists(i), booking[i].group # NoGroup,
         booking[i].status = "CANCELED"
  PROVE  booking'[i].status = "CANCELED"
<1>1. CASE OnlyCancels
  BY <1>1, CanceledStatus
<1>2. ASSUME NEW j \in Ids, ApproveReservation(j)
      PROVE  booking'[i].status = "CANCELED"
  BY <1>2, ApprovedRow
<1>3. ASSUME NEW g \in Groups, ApproveGroup(g)
      PROVE  booking'[i].status = "CANCELED"
  BY <1>3, ApprovedGroup
<1>4. ASSUME NEW t \in Txs, StoresRequest(t)
      PROVE  booking'[i].status = "CANCELED"
  <2>1. PICK new \in FreshNumbers(tx[t].dates), g \in FreeGroups \cup {NoGroup} : Store(t, new, g)
    BY <1>4, StoredRequest
  <2>. QED  BY <1>4, <2>1, StoredRow DEF StoresRequest
<1>. QED  BY <1>1, <1>2, <1>3, <1>4, BookingCases

(* Approving the rest of a group never brings back a week that was canceled, *)
(* whichever of the cancel services canceled it.                            *)
THEOREM CanceledWeeksStayCanceled == Spec => WeeklyCancelIsFinal
<1>1. TypeOK /\ [Next]_vars => [CanceledWeeksKept]_vars
  BY WeeklyCancelStays DEF CanceledWeeksKept
<1>. QED  BY <1>1, TypeCorrect, PTL DEF Spec, WeeklyCancelIsFinal

(* The group of a free id has no booking and no occurrence row.             *)
LEMMA FreeGroup ==
  ASSUME TypeOK, NEW g \in FreeGroups
  PROVE  /\ g \in Groups /\ ~HasGroupRow(g) /\ g # NoGroup
         /\ \A i \in Ids : Exists(i) => booking[i].group # g
  BY InputAssumption DEF FreeGroups, GroupBookings, InputAssumption

(* The bookings a request stores are live, and those of its group are all new*)
LEMMA StoredLive ==
  ASSUME TypeOK, NEW t \in Txs, tx[t] \in CreateTx,
         NEW new \in FreshNumbers(tx[t].dates), NEW g \in FreeGroups \cup {NoGroup},
         Store(t, new, g), NEW i \in Ids, Live(i)', booking'[i].group # NoGroup
  PROVE  \/ /\ booking'[i].group = g /\ g \in FreeGroups /\ ~Exists(i)
            /\ booking'[i].date \in tx[t].dates
            /\ booking'[i].status = IF tx[t].op = "owner" THEN "RESERVED" ELSE "PENDING"
         \/ booking'[i].group # g /\ booking'[i] = booking[i] /\ Live(i)
<1>1. CASE i \in DOMAIN new
  <2>1. ~Exists(i) /\ new[i] \in tx[t].dates /\ booking'[i] = NewBooking(tx[t], new[i], g)
    BY <1>1, StoredRow
  <2>. QED  BY <2>1 DEF NewBooking
<1>2. CASE i \notin DOMAIN new
  <2>1. booking'[i] = booking[i] /\ Live(i)
    BY <1>2, StoredRow DEF Live, LiveStatus
  <2>2. Exists(i)
    BY <2>1, ExistingRow
  <2>. QED  BY <2>1, <2>2, FreeGroup
<1>. QED  BY <1>1, <1>2

(* Every step keeps a group decided as a whole.                             *)
LEMMA GroupStaysTogether ==
  ASSUME TypeOK, GroupDecidedTogether, Next
  PROVE  GroupDecidedTogether'
<1>1. CASE OnlyCancels
  BY <1>1, CanceledStatus DEF GroupDecidedTogether, Live
<1>2. ASSUME NEW j \in Ids, ApproveReservation(j)
      PROVE  GroupDecidedTogether'
  <2>1. ASSUME NEW i \in Ids, Live(i)', booking'[i].group # NoGroup
        PROVE  booking'[i] = booking[i]
    BY <1>2, <2>1, ApprovedRow
  <2>. QED  BY <2>1 DEF GroupDecidedTogether, Live
<1>3. ASSUME NEW g \in Groups, ApproveGroup(g)
      PROVE  GroupDecidedTogether'
  <2>1. ASSUME NEW i \in Ids, Live(i)'
        PROVE  \/ booking'[i] = booking[i] /\ booking[i].group # g
               \/ booking'[i].group = g /\ booking'[i].status = "RESERVED"
    BY <1>3, <2>1, ApprovedGroup DEF Live, LiveStatus
  <2>. QED  BY <2>1 DEF GroupDecidedTogether, Live
<1>4. ASSUME NEW t \in Txs, StoresRequest(t)
      PROVE  GroupDecidedTogether'
  <2>1. PICK new \in FreshNumbers(tx[t].dates), g \in FreeGroups \cup {NoGroup} : Store(t, new, g)
    BY <1>4, StoredRequest
  <2>2. ASSUME NEW i \in Ids, Live(i)', booking'[i].group # NoGroup
        PROVE  \/ /\ booking'[i].group = g
                  /\ booking'[i].status = IF tx[t].op = "owner" THEN "RESERVED" ELSE "PENDING"
               \/ booking'[i].group # g /\ booking'[i] = booking[i] /\ Live(i)
    BY <1>4, <2>1, <2>2, StoredLive DEF StoresRequest
  <2>. QED  BY <2>2 DEF GroupDecidedTogether
<1>. QED  BY <1>1, <1>2, <1>3, <1>4, BookingCases

(* The live bookings of a weekly group are all waiting or all approved.      *)
THEOREM GroupsDecidedTogether == Spec => []GroupDecidedTogether
<1>1. Init => GroupDecidedTogether
  BY DEF Init, GroupDecidedTogether, Live, LiveStatus, NoBooking
<1>2. TypeOK /\ GroupDecidedTogether /\ [Next]_vars => GroupDecidedTogether'
  <2>1. ASSUME GroupDecidedTogether, UNCHANGED vars PROVE GroupDecidedTogether'
    BY <2>1 DEF vars, GroupDecidedTogether, Live
  <2>. QED  BY <2>1, GroupStaysTogether
<1>. QED  BY <1>1, <1>2, TypeCorrect, PTL DEF Spec

-------------------------------------------------------------------------------
(* Occurrence rows *)

(* Every step keeps the occurrence of a live weekly booking in agreement.   *)
LEMMA OccurrenceFollows ==
  ASSUME TypeOK, LiveOccurrenceAgrees, Next
  PROVE  LiveOccurrenceAgrees'
<1>1. CASE OnlyCancels /\ UNCHANGED occurrence
  BY <1>1, CanceledStatus DEF LiveOccurrenceAgrees, Live, HasGroupRow
<1>2. ASSUME NEW g \in Groups, NEW ds \in SUBSET Dates, OnlyCancels,
             CancelRepeatOccurrences(g, ds)
      PROVE  LiveOccurrenceAgrees'
  <2> SUFFICES ASSUME NEW i \in Ids, NEW k \in Groups, Live(i)', booking'[i].group = k,
                      HasGroupRow(k)'
               PROVE  occurrence'[k][booking'[i].date] = booking'[i].status
    BY DEF LiveOccurrenceAgrees
  <2>1. booking'[i] = booking[i] /\ Live(i)
    BY <1>2, CanceledStatus DEF Live
  <2>2. Exists(i) /\ booking[i] \in Booking
    BY <2>1, ExistingRow
  <2>3. booking[i].date \in Dates
    BY <2>2 DEF Booking
  <2>4. CASE k = g
    <3>1. booking[i].date \notin ds
      <4>1. ASSUME booking[i].date \in ds PROVE FALSE
        <5>1. i \in { j \in GroupBookings(g) : booking[j].date \in ds }
          BY <2>1, <2>2, <2>4, <4>1 DEF GroupBookings
        <5>2. booking'[i] = [booking[i] EXCEPT !.status = "CANCELED"]
          BY <1>2, <5>1 DEF CancelRepeatOccurrences, CancelBookings
        <5>3. booking'[i].status = "CANCELED"
          BY <2>2, <5>2, StatusOnly DEF BookingStatus
        <5>. QED  BY <5>3 DEF Live, LiveStatus
      <4>. QED  BY <4>1
    <3>2. occurrence'[g][booking[i].date] = occurrence[g][booking[i].date]
      BY <1>2, <2>3, <3>1 DEF CancelRepeatOccurrences, TypeOK
    <3>3. HasGroupRow(g)
      BY <1>2 DEF CancelRepeatOccurrences
    <3>. QED  BY <2>1, <2>4, <3>2, <3>3 DEF LiveOccurrenceAgrees
  <2>5. CASE k # g
    <3>1. occurrence'[k] = occurrence[k]
      BY <1>2, <2>5 DEF CancelRepeatOccurrences, TypeOK
    <3>. QED  BY <2>1, <3>1 DEF LiveOccurrenceAgrees, HasGroupRow
  <2>. QED  BY <2>4, <2>5
<1>3. ASSUME NEW j \in Ids, ApproveReservation(j)
      PROVE  LiveOccurrenceAgrees'
  <2>1. ASSUME NEW i \in Ids, booking'[i].group \in Groups
        PROVE  booking'[i] = booking[i]
    BY <1>3, <2>1, ApprovedRow, InputAssumption DEF InputAssumption
  <2> SUFFICES ASSUME NEW i \in Ids, NEW k \in Groups, Live(i)', booking'[i].group = k,
                      HasGroupRow(k)'
               PROVE  occurrence'[k][booking'[i].date] = booking'[i].status
    BY DEF LiveOccurrenceAgrees
  <2>2. booking'[i] = booking[i] /\ occurrence' = occurrence
    BY <1>3, <2>1 DEF ApproveReservation
  <2>. QED  BY <2>2 DEF LiveOccurrenceAgrees, HasGroupRow, Live
<1>4. ASSUME NEW g \in Groups, ApproveGroup(g)
      PROVE  LiveOccurrenceAgrees'
  <2> SUFFICES ASSUME NEW i \in Ids, NEW k \in Groups, Live(i)', booking'[i].group = k,
                      HasGroupRow(k)'
               PROVE  occurrence'[k][booking'[i].date] = booking'[i].status
    BY DEF LiveOccurrenceAgrees
  <2>0. \A x \in Groups : HasGroupRow(x)' => HasGroupRow(x)
    <3> SUFFICES ASSUME NEW x \in Groups, NEW d \in Dates, occurrence'[x][d] # "none"
                 PROVE  occurrence[x][d] # "none"
      BY DEF HasGroupRow
    <3>. QED  BY <1>4 DEF ApproveGroup, TypeOK
  <2>1. CASE booking'[i] = booking[i] /\ ~(booking[i].group = g /\ booking[i].status = "PENDING")
    <3>1. Live(i) /\ booking[i] \in Booking
      BY <2>1, ExistingRow DEF Live
    <3>2. booking[i].date \in Dates /\ booking[i].status \in {"PENDING", "RESERVED"}
      BY <3>1 DEF Booking, Live, LiveStatus
    <3>3. occurrence[k][booking[i].date] = booking[i].status
      BY <2>0, <2>1, <3>1 DEF LiveOccurrenceAgrees
    <3>. QED  BY <1>4, <2>1, <3>2, <3>3 DEF ApproveGroup, TypeOK
  <2>2. CASE /\ Exists(i) /\ booking[i].group = g /\ booking[i].status = "PENDING"
             /\ booking'[i].status = "RESERVED" /\ booking'[i].group = g
             /\ booking'[i].date = booking[i].date
    <3>1. Live(i) /\ booking[i] \in Booking
      BY <2>2, ExistingRow DEF Live, LiveStatus
    <3>2. booking[i].date \in Dates
      BY <3>1 DEF Booking
    <3>3. occurrence[g][booking[i].date] = "PENDING"
      BY <2>0, <2>2, <3>1 DEF LiveOccurrenceAgrees
    <3>. QED  BY <1>4, <2>2, <3>2, <3>3 DEF ApproveGroup, TypeOK
  <2>. QED  BY <1>4, <2>1, <2>2, ApprovedGroup
<1>5. ASSUME NEW t \in Txs, StoresRequest(t)
      PROVE  LiveOccurrenceAgrees'
  <2>1. PICK new \in FreshNumbers(tx[t].dates), g \in FreeGroups \cup {NoGroup} :
           /\ Store(t, new, g)
           /\ \/ UNCHANGED occurrence
              \/ /\ tx[t].op = "repeat" /\ g \in FreeGroups
                 /\ occurrence' = [occurrence EXCEPT ![g] =
                                     [d \in Dates |-> IF d \in tx[t].dates THEN "PENDING"
                                                      ELSE IF d \in tx[t].skipped THEN "CONFLICT"
                                                      ELSE "none"]]
    BY <1>5, StoredRequest
  <2> SUFFICES ASSUME NEW i \in Ids, NEW k \in Groups, Live(i)', booking'[i].group = k,
                      HasGroupRow(k)'
               PROVE  occurrence'[k][booking'[i].date] = booking'[i].status
    BY DEF LiveOccurrenceAgrees
  <2>2. k # NoGroup
    BY InputAssumption DEF InputAssumption
  <2>3. CASE booking'[i].group # g /\ booking'[i] = booking[i] /\ Live(i)
    <3>1. occurrence'[k] = occurrence[k]
      BY <2>1, <2>3 DEF TypeOK
    <3>. QED  BY <2>3, <3>1 DEF LiveOccurrenceAgrees, HasGroupRow
  <2>4. CASE /\ booking'[i].group = g /\ g \in FreeGroups
             /\ booking'[i].date \in tx[t].dates
             /\ booking'[i].status = IF tx[t].op = "owner" THEN "RESERVED" ELSE "PENDING"
    <3>1. ~ UNCHANGED occurrence
      BY <2>4, FreeGroup DEF HasGroupRow
    <3>2. tx[t].op = "repeat" /\ tx[t].dates \subseteq Dates
      BY <1>5, <2>1, <3>1 DEF StoresRequest, CreateTx
    <3>3. g \in Groups
      BY <2>4, FreeGroup
    <3>4. occurrence'[g][booking'[i].date] = "PENDING"
      BY <2>1, <2>4, <3>1, <3>2, <3>3 DEF TypeOK
    <3>. QED  BY <2>4, <3>2, <3>4
  <2>. QED  BY <1>5, <2>1, <2>2, <2>3, <2>4, StoredLive DEF StoresRequest
<1>. QED  BY <1>1, <1>2, <1>3, <1>4, <1>5, BookingCases

(* The occurrence row of a live weekly booking has the status of the booking.*)
THEOREM OccurrencesAgree == Spec => []LiveOccurrenceAgrees
<1>1. Init => LiveOccurrenceAgrees
  BY DEF Init, LiveOccurrenceAgrees, Live, LiveStatus, NoBooking
<1>2. TypeOK /\ LiveOccurrenceAgrees /\ [Next]_vars => LiveOccurrenceAgrees'
  <2>1. ASSUME LiveOccurrenceAgrees, UNCHANGED vars PROVE LiveOccurrenceAgrees'
    BY <2>1 DEF vars, LiveOccurrenceAgrees, Live, HasGroupRow
  <2>. QED  BY <2>1, OccurrenceFollows
<1>. QED  BY <1>1, <1>2, TypeCorrect, PTL DEF Spec

-------------------------------------------------------------------------------
(* Canceled bookings and closed rooms *)

(* A room that exists goes on existing, and a closed one is not opened again.*)
LEMMA RoomsStay ==
  ASSUME TypeOK, Next, NEW r \in Rooms, rooms[r].status # "none"
  PROVE  rooms'[r].status # "none" /\ (rooms'[r].status = "ACTIVE" => rooms[r].status = "ACTIVE")
<1>0. rooms \in [Rooms -> RoomRow]
  BY DEF TypeOK
<1>1. CASE rooms' = rooms
  BY <1>1
<1>2. ASSUME NEW x \in Rooms, NEW h \in HourInputs, CreateRoom(x, h)
      PROVE  rooms'[r] = rooms[r]
  BY <1>0, <1>2 DEF CreateRoom
<1>3. ASSUME NEW x \in Rooms, NEW h \in HourInputs, UpdateRoom(x, h)
      PROVE  rooms'[r].status = rooms[r].status
  BY <1>0, <1>3 DEF UpdateRoom, RoomRow
<1>4. ASSUME NEW t \in Txs, CommitDeleteRoom(t)
      PROVE  rooms'[r].status \in {rooms[r].status, "INACTIVE"}
  BY <1>0, <1>4 DEF CommitDeleteRoom, RoomRow
<1>5. CASE RoomNext
  BY <1>1, <1>2, <1>3, <1>4, <1>5 DEF RoomNext, BeginDeleteRoom
<1>6. CASE ~RoomNext
  <2>1. CASE CreateNext
    <3>1. ASSUME NEW t \in Txs, NEW x, NEW d, NEW n, NEW w,
                 BeginReservation(t, x, d, n, w) \/ BeginRepeat(t, x, d, n, w)
          PROVE  rooms' = rooms
      BY <3>1 DEF BeginReservation, BeginRepeat
    <3>2. ASSUME NEW t \in Txs, NEW x, NEW d, NEW w, NEW forced,
                 BeginOwnerReservation(t, x, d, w, forced)
          PROVE  rooms' = rooms
      BY <3>2 DEF BeginOwnerReservation
    <3>3. ASSUME NEW t \in Txs, \/ CommitReservation(t) \/ CommitRepeat(t)
                                \/ CommitOwnerReservation(t) \/ RejectDuplicate(t)
          PROVE  rooms' = rooms
      BY <3>3
      DEF CommitReservation, CommitRepeat, CommitOwnerReservation, RejectDuplicate, Store
    <3>. QED  BY <1>1, <2>1, <3>1, <3>2, <3>3 DEF CreateNext
  <2>2. CASE ReviewNext \/ Prune
    BY <1>1, <2>2
    DEF ReviewNext, CancelReservation, AdminCancelReservation, ApproveReservation, ApproveGroup,
        CancelRepeatOccurrences, CancelLegacyOccurrences, Prune, PruneBookingSlots
  <2>3. CASE DayOffNext
    BY <1>1, <2>3 DEF DayOffNext, BeginDayOff, CommitDayOff, DeleteDayOff
  <2>. QED  BY <1>6, <2>1, <2>2, <2>3 DEF Next
<1>. QED  BY <1>5, <1>6

(* Bookings keep their room, or are new and take that of their request.      *)
LEMMA RoomOfBooking ==
  ASSUME TypeOK, Next, NEW i \in Ids, Exists(i)'
  PROVE  \/ Exists(i) /\ booking'[i].room = booking[i].room
         \/ \E t \in Txs : /\ tx[t].op \in {"create", "repeat", "owner"} /\ tx[t] \in CreateTx
                           /\ booking'[i].room = tx[t].room
<1>1. CASE OnlyReleases
  BY <1>1 DEF OnlyReleases, SameRow
<1>2. ASSUME NEW t \in Txs, tx[t] \in CreateTx, NEW new \in FreshNumbers(tx[t].dates),
             NEW g \in Groups \cup {NoGroup}, Store(t, new, g)
      PROVE  \/ Exists(i) /\ booking'[i].room = booking[i].room
             \/ booking'[i].room = tx[t].room
  <2>1. CASE i \in DOMAIN new
    <3>1. booking'[i] = NewBooking(tx[t], new[i], g)
      BY <1>2, <2>1, StoredRow
    <3>. QED  BY <3>1 DEF NewBooking
  <2>2. CASE i \notin DOMAIN new
    <3>1. booking'[i] = booking[i] \/ booking'[i] = [booking[i] EXCEPT !.status = "CANCELED"]
      BY <1>2, <2>2 DEF Store
    <3>2. Exists(i)
      BY <1>2, <2>2, StoredRow DEF Exists
    <3>3. booking[i] \in Booking
      BY <3>2, ExistingRow
    <3>. QED  BY <3>1, <3>2, <3>3 DEF Booking
  <2>. QED  BY <2>1, <2>2
<1>3. ASSUME NEW t \in Txs, tx[t] \in CreateTx
      PROVE  tx[t].op \in {"create", "repeat", "owner"}
  BY <1>3 DEF CreateTx
<1>. QED
  BY <1>1, <1>2, <1>3, RoomStepReleases, CreateStepCases, ReviewStepReleases, DayOffStepReleases
  DEF Next

(* A create in progress was in progress before, or read its room as ACTIVE.  *)
LEMMA RoomOfRequest ==
  ASSUME TypeOK, Next, NEW u \in Txs, tx'[u].op \in {"create", "repeat", "owner"}
  PROVE  \/ tx'[u] = tx[u]
         \/ tx'[u].room \in Rooms /\ rooms[tx'[u].room].status = "ACTIVE"
<1>1. CASE RoomNext \/ ReviewNext \/ DayOffNext \/ Prune
  BY <1>1, OtherRequests
<1>2. CASE CreateNext
  <2>1. ASSUME NEW t \in Txs, NEW r \in Rooms, NEW d, NEW n, NEW w,
               BeginReservation(t, r, d, n, w) \/ BeginRepeat(t, r, d, n, w)
        PROVE  tx'[u] = tx[u] \/ (tx'[u].room = r /\ rooms[r].status = "ACTIVE")
    <3>1. CASE u = t
      BY <2>1, <3>1 DEF BeginReservation, BeginRepeat, Request, TypeOK
    <3>2. CASE u # t
      BY <2>1, <3>2 DEF BeginReservation, BeginRepeat, TypeOK
    <3>. QED  BY <3>1, <3>2
  <2>2. ASSUME NEW t \in Txs, NEW r \in Rooms, NEW d, NEW w, NEW forced,
               BeginOwnerReservation(t, r, d, w, forced)
        PROVE  tx'[u] = tx[u] \/ (tx'[u].room = r /\ rooms[r].status = "ACTIVE")
    <3>1. CASE u = t
      BY <2>2, <3>1 DEF BeginOwnerReservation, Request, TypeOK
    <3>2. CASE u # t
      BY <2>2, <3>2 DEF BeginOwnerReservation, TypeOK
    <3>. QED  BY <3>1, <3>2
  <2>3. ASSUME NEW t \in Txs, \/ CommitReservation(t) \/ CommitRepeat(t)
                              \/ CommitOwnerReservation(t) \/ RejectDuplicate(t)
        PROVE  tx'[u] = tx[u]
    <3>1. tx' = [tx EXCEPT ![t] = Idle]
      BY <2>3 DEF CommitReservation, CommitRepeat, CommitOwnerReservation, RejectDuplicate, Store
    <3>2. u # t
      BY <3>1 DEF Idle, TypeOK
    <3>. QED  BY <3>1, <3>2 DEF TypeOK
  <2>. QED  BY <1>2, <2>1, <2>2, <2>3 DEF CreateNext
<1>. QED  BY <1>1, <1>2 DEF Next

(* Rooms that bookings and requests refer to exist.                         *)
LEMMA KnownRoomsKept ==
  ASSUME TypeOK, KnownRooms, Next
  PROVE  KnownRooms'
<1>1. ASSUME NEW i \in Ids, Exists(i)'
      PROVE  rooms'[booking'[i].room].status # "none"
  <2>1. CASE Exists(i) /\ booking'[i].room = booking[i].room
    <3>1. booking[i].room \in Rooms
      BY <2>1, ExistingRow DEF Booking
    <3>. QED  BY <2>1, <3>1, RoomsStay DEF KnownRooms
  <2>2. ASSUME NEW t \in Txs, tx[t].op \in {"create", "repeat", "owner"}, tx[t] \in CreateTx,
               booking'[i].room = tx[t].room
        PROVE  rooms'[booking'[i].room].status # "none"
    <3>1. tx[t].room \in Rooms
      BY <2>2 DEF CreateTx
    <3>. QED  BY <2>2, <3>1, RoomsStay DEF KnownRooms
  <2>. QED  BY <1>1, <2>1, <2>2, RoomOfBooking
<1>2. ASSUME NEW u \in Txs, tx'[u].op \in {"create", "repeat", "owner"}
      PROVE  rooms'[tx'[u].room].status # "none"
  <2>1. CASE tx'[u] = tx[u]
    <3>1. tx[u].room \in Rooms
      BY <1>2, <2>1, TxRow DEF CreateTx
    <3>. QED  BY <1>2, <2>1, <3>1, RoomsStay DEF KnownRooms
  <2>2. CASE tx'[u].room \in Rooms /\ rooms[tx'[u].room].status = "ACTIVE"
    BY <2>2, RoomsStay
  <2>. QED  BY <1>2, <2>1, <2>2, RoomOfRequest
<1>. QED  BY <1>1, <1>2 DEF KnownRooms, Exists

(* A booking a step leaves canceled was canceled before, without its rows    *)
(* growing; or the step took its rows away; or it closed the room.          *)
LEMMA CanceledCases ==
  ASSUME TypeOK, Next, NEW i \in Ids, Exists(i)', booking'[i].status = "CANCELED"
  PROVE  \/ slots'[i] = {}
         \/ Exists(i) /\ booking'[i] = booking[i] /\ slots'[i] = slots[i]
         \/ rooms'[booking'[i].room].status = "INACTIVE"
<1> DEFINE Goal == \/ slots'[i] = {}
                   \/ Exists(i) /\ booking'[i] = booking[i] /\ slots'[i] = slots[i]
                   \/ rooms'[booking'[i].room].status = "INACTIVE"
<1>1. CASE UNCHANGED <<booking, slots>>
  BY <1>1 DEF Exists
<1>2. ASSUME NEW S, CancelBookings(S)
      PROVE  Goal
  BY <1>2 DEF CancelBookings, Exists
<1>3. CASE RoomNext
  <2>1. ASSUME NEW t \in Txs, CommitDeleteRoom(t)
        PROVE  Goal
    <3>1. tx[t].room \in Rooms
      BY <2>1, TxRow DEF CommitDeleteRoom, DeleteTx
    <3>2. rooms'[tx[t].room].status = "INACTIVE"
      BY <2>1, <3>1 DEF CommitDeleteRoom, TypeOK, RoomRow
    <3>3. CASE i \in LiveIn(tx[t].room)
      <4>1. booking[i] \in Booking /\ booking[i].room = tx[t].room
        BY <3>3, ExistingRow DEF LiveIn
      <4>2. booking'[i] = [booking[i] EXCEPT !.status = "CANCELED"]
        BY <2>1, <3>3 DEF CommitDeleteRoom
      <4>3. booking'[i].room = tx[t].room
        BY <4>1, <4>2 DEF Booking
      <4>. QED  BY <3>2, <4>3
    <3>4. CASE i \notin LiveIn(tx[t].room)
      BY <2>1, <3>4 DEF CommitDeleteRoom, Exists
    <3>. QED  BY <3>3, <3>4
  <2>. QED  BY <1>1, <1>3, <2>1 DEF RoomNext, CreateRoom, UpdateRoom, BeginDeleteRoom
<1>4. CASE CreateNext
  <2>1. ASSUME NEW t \in Txs, tx[t] \in CreateTx, NEW new \in FreshNumbers(tx[t].dates),
               NEW g \in Groups \cup {NoGroup}, Store(t, new, g)
        PROVE  Goal
    <3>1. CASE i \in DOMAIN new
      <4>1. booking'[i] = NewBooking(tx[t], new[i], g)
        BY <2>1, <3>1, StoredRow
      <4>2. booking'[i].status \in {"RESERVED", "PENDING"}
        BY <4>1 DEF NewBooking
      <4>. QED  BY <4>2
    <3>2. CASE i \notin DOMAIN new
      BY <2>1, <3>2, StoredRow DEF Exists
    <3>. QED  BY <3>1, <3>2
  <2>2. ASSUME NEW t \in Txs, CommitReservation(t) \/ CommitRepeat(t) \/ CommitOwnerReservation(t)
        PROVE  Goal
    BY <2>1, <2>2, TxRow DEF CommitReservation, CommitRepeat, CommitOwnerReservation, FreeGroups
  <2>3. ASSUME NEW t \in Txs, NEW r, NEW d, NEW n, NEW w,
               BeginReservation(t, r, d, n, w) \/ BeginRepeat(t, r, d, n, w)
        PROVE  UNCHANGED <<booking, slots>>
    BY <2>3 DEF BeginReservation, BeginRepeat
  <2>4. ASSUME NEW t \in Txs, NEW r, NEW d, NEW w, NEW forced,
               BeginOwnerReservation(t, r, d, w, forced)
        PROVE  UNCHANGED <<booking, slots>>
    BY <2>4 DEF BeginOwnerReservation
  <2>5. ASSUME NEW t \in Txs, RejectDuplicate(t)
        PROVE  UNCHANGED <<booking, slots>>
    BY <2>5 DEF RejectDuplicate
  <2>. QED  BY <1>1, <1>4, <2>2, <2>3, <2>4, <2>5 DEF CreateNext
<1>5. CASE ReviewNext
  <2>1. ASSUME NEW j \in Ids, ApproveReservation(j)
        PROVE  Goal
    BY <2>1, ApprovedRow DEF ApproveReservation, Exists
  <2>2. ASSUME NEW g \in Groups, ApproveGroup(g)
        PROVE  Goal
    <3>1. slots' = slots
      BY <2>2 DEF ApproveGroup
    <3>2. booking'[i] = booking[i]
      BY <2>2, ApprovedGroup
    <3>. QED  BY <3>1, <3>2 DEF Exists
  <2>3. ASSUME NEW j \in Ids, CancelReservation(j) \/ AdminCancelReservation(j)
        PROVE  Goal
    BY <1>2, <2>3 DEF CancelReservation, AdminCancelReservation
  <2>4. ASSUME NEW g \in Groups, NEW ds \in SUBSET Dates,
               CancelRepeatOccurrences(g, ds) \/ CancelLegacyOccurrences(g, ds)
        PROVE  Goal
    BY <1>2, <2>4 DEF CancelRepeatOccurrences, CancelLegacyOccurrences
  <2>. QED  BY <1>5, <2>1, <2>2, <2>3, <2>4 DEF ReviewNext
<1>6. CASE DayOffNext \/ Prune
  BY <1>1, <1>2, <1>6
  DEF DayOffNext, BeginDayOff, CommitDayOff, DeleteDayOff, Prune, PruneBookingSlots, Exists
<1>. QED  BY <1>3, <1>4, <1>5, <1>6 DEF Next

(* A cancel, by whichever service, makes the time bookable again: in a room   *)
(* that is open no canceled booking holds a slot row, although delete_room   *)
(* deletes rows and cancels bookings in two statements.                     *)
THEOREM CanceledBookingsHoldNothing == Spec => []CanceledHoldsNothing
<1>1. Init => KnownRooms /\ CanceledHoldsNothing
  BY DEF Init, KnownRooms, CanceledHoldsNothing, Exists, Idle
<1>2. TypeOK /\ KnownRooms /\ CanceledHoldsNothing /\ [Next]_vars
        => KnownRooms' /\ CanceledHoldsNothing'
  <2>1. ASSUME KnownRooms, CanceledHoldsNothing, UNCHANGED vars
        PROVE  KnownRooms' /\ CanceledHoldsNothing'
    BY <2>1 DEF vars, KnownRooms, CanceledHoldsNothing, Exists
  <2>2. ASSUME TypeOK, KnownRooms, CanceledHoldsNothing, Next
        PROVE  CanceledHoldsNothing'
    <3> SUFFICES ASSUME NEW i \in Ids, Exists(i)', booking'[i].status = "CANCELED",
                        rooms'[booking'[i].room].status = "ACTIVE"
                 PROVE  slots'[i] = {}
      BY DEF CanceledHoldsNothing
    <3>1. CASE Exists(i) /\ booking'[i] = booking[i] /\ slots'[i] = slots[i]
      <4>1. booking[i].room \in Rooms /\ rooms[booking[i].room].status # "none"
        BY <2>2, <3>1, ExistingRow DEF KnownRooms, Booking
      <4>2. rooms[booking[i].room].status = "ACTIVE"
        BY <2>2, <3>1, <4>1, RoomsStay
      <4>. QED  BY <2>2, <3>1, <4>2 DEF CanceledHoldsNothing
    <3>. QED  BY <2>2, <3>1, CanceledCases
  <2>. QED  BY <2>1, <2>2, KnownRoomsKept
<1>. QED  BY <1>1, <1>2, TypeCorrect, PTL DEF Spec

-------------------------------------------------------------------------------
(* One request in progress at a time *)

Alone == \A t, u \in Txs : tx[t] # Idle /\ tx[u] # Idle => t = u

(* The bookings that still have a claim on their room. *)
Standing(i) == Live(i) /\ i \notin released

(* What a step may be: an action of one statement, the reads of a request,   *)
(* or its writes.                                                          *)
Reviews == \/ ReviewNext
           \/ Prune
           \/ \E k \in DayOffs : DeleteDayOff(k)
           \/ \E r \in Rooms, h \in HourInputs : CreateRoom(r, h) \/ UpdateRoom(r, h)

BeginsDelete(t) == \E r \in Rooms : BeginDeleteRoom(t, r)

BeginsCreate(t) ==
  \/ \E r \in Rooms, d \in Dates, n \in RepeatCounts, w \in Windows :
       BeginReservation(t, r, d, n, w) \/ BeginRepeat(t, r, d, n, w)
  \/ \E r \in Rooms, d \in Dates, w \in OwnerWindows, forced \in SUBSET Ids :
       BeginOwnerReservation(t, r, d, w, forced)

BeginsDayOff(t) == \E c \in DayOff, forced \in SUBSET Ids : BeginDayOff(t, c, forced)

Ends(t) == \/ CommitDeleteRoom(t)
           \/ StoresRequest(t)
           \/ RejectDuplicate(t)
           \/ \E k \in DayOffs : CommitDayOff(t, k)

(* Every step is of one of these kinds.                                      *)
LEMMA StepKinds ==
  ASSUME TypeOK, Next
  PROVE  \/ Reviews
         \/ \E t \in Txs : BeginsDelete(t) \/ BeginsCreate(t) \/ BeginsDayOff(t) \/ Ends(t)
<1>1. CASE RoomNext
  BY <1>1 DEF RoomNext, Reviews, BeginsDelete, Ends
<1>2. CASE CreateNext
  <2>1. ASSUME NEW t \in Txs, CommitReservation(t) \/ CommitRepeat(t) \/ CommitOwnerReservation(t)
        PROVE  Ends(t)
    BY <2>1, TxRow
    DEF Ends, StoresRequest, CommitReservation, CommitRepeat, CommitOwnerReservation
  <2>2. ASSUME NEW t \in Txs, NEW r \in Rooms, NEW d \in Dates, NEW w \in OwnerWindows,
               NEW forced \in SUBSET { i \in Ids : Exists(i) },
               BeginOwnerReservation(t, r, d, w, forced)
        PROVE  BeginsCreate(t)
    <3>1. forced \in SUBSET Ids
      OBVIOUS
    <3>. QED  BY <2>2, <3>1 DEF BeginsCreate
  <2>3. ASSUME NEW t \in Txs, NEW r \in Rooms, NEW d \in Dates, NEW n \in RepeatCounts,
               NEW w \in Windows, BeginReservation(t, r, d, n, w) \/ BeginRepeat(t, r, d, n, w)
        PROVE  BeginsCreate(t)
    BY <2>3 DEF BeginsCreate
  <2>4. ASSUME NEW t \in Txs, RejectDuplicate(t)
        PROVE  Ends(t)
    BY <2>4 DEF Ends
  <2>. QED  BY <1>2, <2>1, <2>2, <2>3, <2>4 DEF CreateNext
<1>3. CASE DayOffNext
  <2>1. ASSUME NEW t \in Txs, NEW r \in Rooms \cup {AllRooms}, NEW from \in Dates,
               NEW to \in Dates, NEW s \in DayOffSpans,
               NEW forced \in SUBSET { i \in Ids : Exists(i) },
               BeginDayOff(t, [room |-> r, from |-> from, to |-> to, span |-> s], forced)
        PROVE  BeginsDayOff(t)
    <3>1. [room |-> r, from |-> from, to |-> to, span |-> s] \in DayOff
      BY InputAssumption DEF InputAssumption, DayOff
    <3>2. forced \in SUBSET Ids
      OBVIOUS
    <3>. QED  BY <2>1, <3>1, <3>2 DEF BeginsDayOff
  <2>. QED  BY <1>3, <2>1 DEF DayOffNext, Reviews, Ends
<1>. QED  BY <1>1, <1>2, <1>3 DEF Next, Reviews

(* Only a request in progress ends, and then nothing is in progress.        *)
LEMMA NothingInProgress ==
  ASSUME TypeOK, Alone, NEW t \in Txs, Ends(t)
  PROVE  \A u \in Txs : tx'[u] = Idle
<1>1. tx[t] # Idle
  BY DEF Ends, CommitDeleteRoom, StoresRequest, CommitReservation, CommitRepeat,
         CommitOwnerReservation, RejectDuplicate, CommitDayOff, Idle
<1>2. tx' = [tx EXCEPT ![t] = Idle]
  BY DEF Ends, CommitDeleteRoom, StoresRequest, CommitReservation, CommitRepeat,
         CommitOwnerReservation, RejectDuplicate, CommitDayOff, Store
<1>. QED  BY <1>1, <1>2 DEF Alone, TypeOK

(* The reads of a request change nothing but what it remembers.             *)
LEMMA ReadsOnly ==
  ASSUME TypeOK, NEW t \in Txs, BeginsDelete(t) \/ BeginsCreate(t) \/ BeginsDayOff(t)
  PROVE  /\ UNCHANGED <<rooms, booking, slots, dayOff, released>>
         /\ \A u \in Txs : u # t => tx'[u] = tx[u]
<1>0. tx \in [Txs -> CreateTx \cup DayOffTx \cup DeleteTx \cup {Idle}]
  BY DEF TypeOK
<1>1. ASSUME NEW r, BeginDeleteRoom(t, r)
      PROVE  /\ UNCHANGED <<rooms, booking, slots, dayOff, released>>
             /\ \A u \in Txs : u # t => tx'[u] = tx[u]
  BY <1>0, <1>1 DEF BeginDeleteRoom
<1>2. ASSUME NEW r, NEW d, NEW n, NEW w, BeginReservation(t, r, d, n, w)
      PROVE  /\ UNCHANGED <<rooms, booking, slots, dayOff, released>>
             /\ \A u \in Txs : u # t => tx'[u] = tx[u]
  BY <1>0, <1>2 DEF BeginReservation
<1>3. ASSUME NEW r, NEW d, NEW n, NEW w, BeginRepeat(t, r, d, n, w)
      PROVE  /\ UNCHANGED <<rooms, booking, slots, dayOff, released>>
             /\ \A u \in Txs : u # t => tx'[u] = tx[u]
  BY <1>0, <1>3 DEF BeginRepeat
<1>4. ASSUME NEW r, NEW d, NEW w, NEW forced, BeginOwnerReservation(t, r, d, w, forced)
      PROVE  /\ UNCHANGED <<rooms, booking, slots, dayOff, released>>
             /\ \A u \in Txs : u # t => tx'[u] = tx[u]
  BY <1>0, <1>4 DEF BeginOwnerReservation
<1>5. ASSUME NEW c, NEW forced, BeginDayOff(t, c, forced)
      PROVE  /\ UNCHANGED <<rooms, booking, slots, dayOff, released>>
             /\ \A u \in Txs : u # t => tx'[u] = tx[u]
  BY <1>0, <1>5 DEF BeginDayOff
<1>. QED  BY <1>1, <1>2, <1>3, <1>4, <1>5 DEF BeginsDelete, BeginsCreate, BeginsDayOff

-------------------------------------------------------------------------------
(* Canceled bookings and their rows, one request at a time *)

(* Canceling a booking counts its rows as deleted. *)
CanceledReleased ==
  \A i \in Ids : Exists(i) /\ booking[i].status = "CANCELED" => i \in released

(* What delete_room will cancel is what it will delete the rows of. *)
DoomedKnown ==
  \A t \in Txs : tx[t].op = "deleteRoom"
                 => \A i \in LiveIn(tx[t].room) : i \in released \cup tx[t].doomed

(* What a review leaves of a booking. *)
Reviewed ==
  /\ tx' = tx
  /\ released \subseteq released'
  /\ \A i \in Ids : Standing(i)' => Standing(i) /\ SameRow(i)
  /\ \A i \in Ids : Exists(i)' /\ booking'[i].status = "CANCELED"
                    => i \in released' \/ booking'[i] = booking[i]
  /\ \A k \in DayOffs : dayOff'[k] \in {dayOff[k], NoDayOff}
  /\ \A r \in Rooms : rooms[r].status # "none" => rooms'[r].status = rooms[r].status

(* A cancel is a review: what it cancels no longer stands.                   *)
LEMMA CancelReviews ==
  ASSUME TypeOK, NEW S \in SUBSET Ids, \A i \in S : Exists(i), CancelBookings(S),
         UNCHANGED <<rooms, dayOff, tx>>
  PROVE  Reviewed
<1>1. ASSUME NEW i \in Ids, Standing(i)' PROVE Standing(i) /\ SameRow(i)
  <2>1. i \notin S
    BY <1>1 DEF CancelBookings, Standing
  <2>. QED  BY <1>1, <2>1 DEF CancelBookings, Standing, Live, SameRow
<1>2. ASSUME NEW i \in Ids PROVE i \in released' \/ booking'[i] = booking[i]
  BY <1>2 DEF CancelBookings
<1>. QED  BY <1>1, <1>2 DEF Reviewed, CancelBookings

(* So is every action of one statement; an approve brings no booking back    *)
(* that still has its rows.                                                  *)
LEMMA ReviewsReview ==
  ASSUME TypeOK, CanceledReleased, Reviews
  PROVE  Reviewed
<1>1. ASSUME NEW i \in Ids, CancelReservation(i) \/ AdminCancelReservation(i)
      PROVE  Reviewed
  <2>1. {i} \in SUBSET Ids /\ (\A j \in {i} : Exists(j)) /\ CancelBookings({i})
    BY <1>1 DEF CancelReservation, AdminCancelReservation
  <2>. QED  BY <1>1, <2>1, CancelReviews DEF CancelReservation, AdminCancelReservation
<1>2. ASSUME NEW g \in Groups, NEW ds \in SUBSET Dates,
             CancelRepeatOccurrences(g, ds) \/ CancelLegacyOccurrences(g, ds)
      PROVE  Reviewed
  <2> DEFINE S == { i \in GroupBookings(g) : booking[i].date \in ds }
  <2>1. S \in SUBSET Ids /\ (\A i \in S : Exists(i)) /\ CancelBookings(S)
    BY <1>2 DEF CancelRepeatOccurrences, CancelLegacyOccurrences, GroupBookings
  <2>2. UNCHANGED <<rooms, dayOff, tx>>
    BY <1>2 DEF CancelRepeatOccurrences, CancelLegacyOccurrences
  <2> HIDE DEF S
  <2>. QED  BY <2>1, <2>2, CancelReviews
<1>3. ASSUME NEW j \in Ids, ApproveReservation(j)
      PROVE  Reviewed
  <2>1. OnlyReleases
    BY <1>3, ReviewStepReleases DEF ReviewNext
  <2>2. ASSUME NEW i \in Ids, Standing(i)' PROVE Standing(i) /\ SameRow(i)
    <3>1. Exists(i)
      <4>1. CASE i = j
        BY <1>3, <4>1, ApprovedRow
      <4>2. CASE i # j
        BY <1>3, <2>2, <4>2, ApprovedRow, ExistingRow DEF Standing, Live
      <4>. QED  BY <4>1, <4>2
    <3>2. SameRow(i) /\ i \notin released
      BY <2>1, <2>2, <3>1 DEF OnlyReleases, Standing
    <3>3. booking[i] \in Booking /\ booking[i].status # "CANCELED"
      BY <3>1, <3>2, ExistingRow DEF CanceledReleased
    <3>. QED  BY <3>2, <3>3 DEF Standing, Live, Booking, BookingStatus
  <2>3. ASSUME NEW i \in Ids, booking'[i].status = "CANCELED" PROVE booking'[i] = booking[i]
    BY <1>3, <2>3, ApprovedRow
  <2>. QED  BY <1>3, <2>2, <2>3 DEF Reviewed, ApproveReservation
<1>4. ASSUME NEW g \in Groups, ApproveGroup(g)
      PROVE  Reviewed
  <2>1. OnlyReleases
    BY <1>4, ReviewStepReleases DEF ReviewNext
  <2>2. released' = released /\ tx' = tx /\ rooms' = rooms /\ dayOff' = dayOff
    BY <1>4 DEF ApproveGroup
  <2>3. ASSUME NEW i \in Ids, Standing(i)' PROVE Standing(i) /\ SameRow(i)
    <3>1. Live(i)
      BY <1>4, <2>3, ApprovedGroup DEF Standing, Live, LiveStatus
    <3>. QED  BY <2>1, <2>2, <2>3, <3>1, ExistingRow DEF OnlyReleases, Standing
  <2>4. ASSUME NEW i \in Ids, booking'[i].status = "CANCELED" PROVE booking'[i] = booking[i]
    BY <1>4, <2>4, ApprovedGroup
  <2>. QED  BY <2>2, <2>3, <2>4 DEF Reviewed
<1>5. ASSUME NEW c \in Cutoffs, PruneBookingSlots(c)
      PROVE  Reviewed
  BY <1>5 DEF PruneBookingSlots, Reviewed, Standing, Live, SameRow
<1>6. ASSUME NEW k \in DayOffs, DeleteDayOff(k)
      PROVE  Reviewed
  <2>1. \A x \in DayOffs : dayOff'[x] \in {dayOff[x], NoDayOff}
    BY <1>6 DEF DeleteDayOff, TypeOK
  <2>. QED  BY <1>6, <2>1 DEF DeleteDayOff, Reviewed, Standing, Live, SameRow
<1>7. ASSUME NEW r \in Rooms, NEW h \in HourInputs, CreateRoom(r, h) \/ UpdateRoom(r, h)
      PROVE  Reviewed
  <2>1. \A x \in Rooms : rooms[x].status # "none" => rooms'[x].status = rooms[x].status
    BY <1>7 DEF CreateRoom, UpdateRoom, TypeOK, RoomRow
  <2>. QED  BY <1>7, <2>1 DEF CreateRoom, UpdateRoom, Reviewed, Standing, Live, SameRow
<1>. QED  BY <1>1, <1>2, <1>3, <1>4, <1>5, <1>6, <1>7 DEF Reviews, ReviewNext, Prune

(* A row as request t stores it. *)
FromRequest(t, i) ==
  /\ booking'[i].room = tx[t].room /\ booking'[i].date \in tx[t].dates
  /\ booking'[i].window = tx[t].window /\ booking'[i].hours = tx[t].hours
  /\ booking'[i].byAdmin = (tx[t].op = "owner")

(* A booking that stands once a request is stored stood before, or is one of *)
(* those the request asked for.                                              *)
LEMMA StandingAfterStore ==
  ASSUME TypeOK, NEW t \in Txs, StoresRequest(t), NEW i \in Ids
  PROVE  /\ Standing(i)' => (Standing(i) /\ SameRow(i)) \/ FromRequest(t, i)
         /\ Exists(i)' /\ booking'[i].status = "CANCELED"
              => i \in released' \/ booking'[i] = booking[i]
         /\ released \subseteq released'
<1>1. PICK new \in FreshNumbers(tx[t].dates), g \in FreeGroups \cup {NoGroup} : Store(t, new, g)
  BY StoredRequest
<1>2. released' = released \cup Freed(tx[t])
  BY <1>1 DEF Store
<1>3. CASE i \in DOMAIN new
  <2>1. new[i] \in tx[t].dates /\ booking'[i] = NewBooking(tx[t], new[i], g)
    BY <1>1, <1>3, StoredRow DEF StoresRequest
  <2>2. FromRequest(t, i)
    BY <2>1 DEF NewBooking, FromRequest
  <2>3. booking'[i].status # "CANCELED"
    BY <2>1 DEF NewBooking
  <2>. QED  BY <1>2, <2>2, <2>3
<1>4. CASE i \notin DOMAIN new /\ i \in Freed(tx[t])
  BY <1>2, <1>4 DEF Standing
<1>5. CASE i \notin DOMAIN new /\ i \notin Freed(tx[t])
  <2>1. booking'[i] = booking[i]
    BY <1>1, <1>5 DEF Store
  <2>. QED  BY <1>2, <2>1 DEF Standing, Live, SameRow
<1>. QED  BY <1>3, <1>4, <1>5

(* Closing a room takes the rows of every live booking in it.               *)
LEMMA StandingAfterDelete ==
  ASSUME TypeOK, DoomedKnown, NEW t \in Txs, CommitDeleteRoom(t), NEW i \in Ids
  PROVE  /\ Standing(i)' => /\ Standing(i) /\ SameRow(i)
                            /\ booking[i].room # tx[t].room
         /\ Exists(i)' /\ booking'[i].status = "CANCELED"
              => i \in released' \/ booking'[i] = booking[i]
         /\ released \subseteq released'
<1>1. released' = released \cup tx[t].doomed
  BY DEF CommitDeleteRoom
<1>2. CASE i \in LiveIn(tx[t].room)
  <2>1. i \in released'
    BY <1>1, <1>2 DEF DoomedKnown, CommitDeleteRoom
  <2>. QED  BY <1>1, <2>1 DEF Standing
<1>3. CASE i \notin LiveIn(tx[t].room)
  <2>1. booking'[i] = booking[i]
    BY <1>3 DEF CommitDeleteRoom
  <2>. QED  BY <1>1, <1>3, <2>1 DEF Standing, Live, SameRow, LiveIn
<1>. QED  BY <1>2, <1>3

(* The bookings a day-off cancels lose their rows.                          *)
LEMMA StandingAfterDayOff ==
  ASSUME TypeOK, NEW t \in Txs, NEW k \in DayOffs, CommitDayOff(t, k), NEW i \in Ids
  PROVE  /\ Standing(i)' => Standing(i) /\ SameRow(i) /\ i \notin Freed(tx[t])
         /\ Exists(i)' /\ booking'[i].status = "CANCELED"
              => i \in released' \/ booking'[i] = booking[i]
         /\ released \subseteq released'
<1>1. CancelBookings(Freed(tx[t]))
  BY DEF CommitDayOff
<1>2. CASE i \in Freed(tx[t])
  BY <1>1, <1>2 DEF CancelBookings, Standing
<1>3. CASE i \notin Freed(tx[t])
  BY <1>1, <1>3 DEF CancelBookings, Standing, Live, SameRow
<1>. QED  BY <1>2, <1>3

(* The invariant of one request at a time, of which InactiveRoomEmpty is a   *)
(* part: a create in progress is for a room that is open.                   *)
RequestsOpen ==
  \A t \in Txs : tx[t].op \in {"create", "repeat", "owner"} => rooms[tx[t].room].status = "ACTIVE"

Orderly == KnownRooms /\ CanceledReleased /\ DoomedKnown /\ RequestsOpen /\ InactiveRoomEmpty

(* The order survives a review,                                              *)
LEMMA ReviewKeepsOrder ==
  ASSUME TypeOK, Orderly, Reviewed
  PROVE  CanceledReleased' /\ DoomedKnown' /\ RequestsOpen' /\ InactiveRoomEmpty'
<1>1. CanceledReleased'
  BY DEF Reviewed, CanceledReleased, Orderly, Exists
<1>2. DoomedKnown'
  <2> SUFFICES ASSUME NEW t \in Txs, tx'[t].op = "deleteRoom", NEW i \in LiveIn(tx[t].room)',
                      i \notin released'
               PROVE  i \in tx'[t].doomed
    BY DEF DoomedKnown
  <2>1. Standing(i)'
    BY DEF LiveIn, Standing, Live
  <2>2. Standing(i) /\ SameRow(i) /\ tx' = tx
    BY <2>1 DEF Reviewed, LiveIn
  <2>3. i \in LiveIn(tx[t].room)
    BY <2>2 DEF LiveIn, Standing, SameRow, Live
  <2>. QED  BY <2>2, <2>3 DEF Orderly, DoomedKnown, Standing
<1>3. RequestsOpen'
  <2> SUFFICES ASSUME NEW t \in Txs, tx[t].op \in {"create", "repeat", "owner"}
               PROVE  rooms'[tx[t].room].status = "ACTIVE"
    BY DEF Reviewed, RequestsOpen
  <2>1. tx[t].room \in Rooms
    BY TxRow DEF CreateTx
  <2>. QED  BY <2>1 DEF Reviewed, Orderly, RequestsOpen
<1>4. InactiveRoomEmpty'
  <2> SUFFICES ASSUME NEW i \in Ids, Standing(i)'
               PROVE  rooms'[booking'[i].room].status = "ACTIVE"
    BY DEF InactiveRoomEmpty, Standing, Live
  <2>1. Standing(i) /\ SameRow(i)
    BY DEF Reviewed
  <2>2. booking[i].room \in Rooms /\ rooms[booking[i].room].status = "ACTIVE"
    BY <2>1, ExistingRow DEF Standing, Orderly, InactiveRoomEmpty, Booking
  <2>. QED  BY <2>1, <2>2 DEF Reviewed, SameRow
<1>. QED  BY <1>1, <1>2, <1>3, <1>4

(* the reads of a request, which only remember what is there,                *)
LEMMA BeginKeepsOrder ==
  ASSUME TypeOK, Orderly, Alone, NEW t \in Txs,
         BeginsDelete(t) \/ BeginsCreate(t) \/ BeginsDayOff(t)
  PROVE  CanceledReleased' /\ DoomedKnown' /\ RequestsOpen' /\ InactiveRoomEmpty'
<1>0. /\ UNCHANGED <<rooms, booking, slots, dayOff, released>>
      /\ \A u \in Txs : u # t => tx'[u] = tx[u]
  BY ReadsOnly
<1>1. CanceledReleased' /\ InactiveRoomEmpty'
  BY <1>0 DEF Orderly, CanceledReleased, InactiveRoomEmpty, Exists, Live
<1>2. \A r : LiveIn(r)' = LiveIn(r)
  BY <1>0 DEF LiveIn, Live
<1>3. ASSUME BeginsDelete(t) PROVE tx'[t].op = "deleteRoom" /\ tx'[t].doomed = LiveIn(tx'[t].room)
  <2>1. PICK r \in Rooms : BeginDeleteRoom(t, r)
    BY <1>3 DEF BeginsDelete
  <2>2. tx'[t] = [op |-> "deleteRoom", room |-> r, doomed |-> LiveIn(r)]
    BY <2>1 DEF BeginDeleteRoom, TypeOK
  <2>. QED  BY <2>2
<1>4. ASSUME BeginsCreate(t)
      PROVE  tx'[t].op \in {"create", "repeat", "owner"} /\ rooms[tx'[t].room].status = "ACTIVE"
  <2>1. ASSUME NEW r, NEW d, NEW n, NEW w, BeginReservation(t, r, d, n, w) \/ BeginRepeat(t, r, d, n, w)
        PROVE  tx'[t].op \in {"create", "repeat"} /\ rooms[tx'[t].room].status = "ACTIVE"
    BY <2>1 DEF BeginReservation, BeginRepeat, Request, TypeOK
  <2>2. ASSUME NEW r, NEW d, NEW w, NEW forced, BeginOwnerReservation(t, r, d, w, forced)
        PROVE  tx'[t].op = "owner" /\ rooms[tx'[t].room].status = "ACTIVE"
    BY <2>2 DEF BeginOwnerReservation, Request, TypeOK
  <2>. QED  BY <1>4, <2>1, <2>2 DEF BeginsCreate
<1>5. ASSUME BeginsDayOff(t) PROVE tx'[t].op = "dayOff"
  <2>1. PICK c \in DayOff, forced \in SUBSET Ids : BeginDayOff(t, c, forced)
    BY <1>5 DEF BeginsDayOff
  <2>2. tx'[t] = [op |-> "dayOff", row |-> c, forced |-> forced]
    BY <2>1 DEF BeginDayOff, TypeOK
  <2>. QED  BY <2>2
<1>6. DoomedKnown'
  <2> SUFFICES ASSUME NEW u \in Txs, tx'[u].op = "deleteRoom", NEW i \in LiveIn(tx[u].room)'
               PROVE  i \in released' \cup tx'[u].doomed
    BY DEF DoomedKnown
  <2>1. CASE u = t
    <3>1. BeginsDelete(t)
      BY <1>4, <1>5, <2>1
    <3>. QED  BY <1>2, <1>3, <2>1, <3>1
  <2>2. CASE u # t
    BY <1>0, <1>2, <2>2 DEF Orderly, DoomedKnown
  <2>. QED  BY <2>1, <2>2
<1>7. RequestsOpen'
  <2> SUFFICES ASSUME NEW u \in Txs, tx'[u].op \in {"create", "repeat", "owner"}
               PROVE  rooms'[tx'[u].room].status = "ACTIVE"
    BY DEF RequestsOpen
  <2>1. CASE u = t
    <3>1. BeginsCreate(t)
      BY <1>3, <1>5, <2>1
    <3>. QED  BY <1>0, <1>4, <2>1, <3>1
  <2>2. CASE u # t
    BY <1>0, <2>2 DEF Orderly, RequestsOpen
  <2>. QED  BY <2>1, <2>2
<1>. QED  BY <1>1, <1>6, <1>7

(* and its writes, after which nothing is in progress.                       *)
LEMMA EndKeepsOrder ==
  ASSUME TypeOK, Orderly, Alone, NEW t \in Txs, Ends(t)
  PROVE  CanceledReleased' /\ DoomedKnown' /\ RequestsOpen' /\ InactiveRoomEmpty'
<1>1. DoomedKnown' /\ RequestsOpen'
  BY NothingInProgress DEF DoomedKnown, RequestsOpen, Idle
<1>2. ASSUME NEW i \in Ids, Exists(i)', booking'[i].status = "CANCELED"
      PROVE  i \in released'
  <2>1. released \subseteq released' /\ (i \in released' \/ booking'[i] = booking[i])
    BY <1>2, StandingAfterStore, StandingAfterDelete, StandingAfterDayOff
    DEF Ends, RejectDuplicate, Orderly
  <2>. QED  BY <1>2, <2>1 DEF Orderly, CanceledReleased, Exists
<1>3. ASSUME NEW i \in Ids, Standing(i)'
      PROVE  rooms'[booking'[i].room].status = "ACTIVE"
  <2>1. ASSUME Standing(i)
        PROVE  booking[i].room \in Rooms /\ rooms[booking[i].room].status = "ACTIVE"
    BY <2>1, ExistingRow DEF Standing, Orderly, InactiveRoomEmpty, Booking
  <2>2. CASE StoresRequest(t)
    <3>1. rooms' = rooms
      BY <2>2 DEF StoresRequest, CommitReservation, CommitRepeat, CommitOwnerReservation, Store
    <3>2. tx[t].op \in {"create", "repeat", "owner"}
      BY <2>2 DEF StoresRequest, CreateTx
    <3>3. rooms[tx[t].room].status = "ACTIVE"
      BY <3>2 DEF Orderly, RequestsOpen
    <3>. QED  BY <1>3, <2>1, <2>2, <3>1, <3>3, StandingAfterStore DEF FromRequest, SameRow
  <2>3. CASE CommitDeleteRoom(t)
    <3>1. Standing(i) /\ SameRow(i) /\ booking[i].room # tx[t].room
      BY <1>3, <2>3, StandingAfterDelete DEF Orderly
    <3>. QED  BY <2>1, <2>3, <3>1 DEF CommitDeleteRoom, SameRow, TypeOK
  <2>4. CASE RejectDuplicate(t)
    BY <1>3, <2>1, <2>4 DEF RejectDuplicate, Standing, Live
  <2>5. ASSUME NEW k \in DayOffs, CommitDayOff(t, k)
        PROVE  rooms'[booking'[i].room].status = "ACTIVE"
    <3>1. Standing(i) /\ SameRow(i) /\ rooms' = rooms
      BY <1>3, <2>5, StandingAfterDayOff DEF CommitDayOff
    <3>. QED  BY <2>1, <3>1 DEF SameRow
  <2>. QED  BY <2>2, <2>3, <2>4, <2>5 DEF Ends
<1>. QED  BY <1>1, <1>2, <1>3 DEF CanceledReleased, InactiveRoomEmpty, Standing, Exists, Live

(* The empty database is orderly.                                            *)
LEMMA InitOrderly ==
  ASSUME Init
  PROVE  Orderly
  BY DEF Init, Orderly, KnownRooms, CanceledReleased, DoomedKnown, RequestsOpen,
         InactiveRoomEmpty, Exists, Live, LiveStatus, NoBooking, Idle

(* While requests come one at a time every step keeps the order.             *)
LEMMA OrderKept ==
  ASSUME TypeOK, Alone, Orderly, [Next]_vars
  PROVE  Orderly'
<1>1. CASE Next
  <2>1. KnownRooms'
    BY <1>1, KnownRoomsKept DEF Orderly
  <2>2. ASSUME Reviews
        PROVE  CanceledReleased' /\ DoomedKnown' /\ RequestsOpen' /\ InactiveRoomEmpty'
    BY <2>2, ReviewsReview, ReviewKeepsOrder DEF Orderly
  <2>. QED  BY <1>1, <2>1, <2>2, StepKinds, BeginKeepsOrder, EndKeepsOrder DEF Orderly
<1>2. CASE UNCHANGED vars
  BY <1>2 DEF vars, Orderly, KnownRooms, CanceledReleased, DoomedKnown, RequestsOpen,
              InactiveRoomEmpty, Exists, Live, LiveIn
<1>. QED  BY <1>1, <1>2

(* As long as no two requests are in progress at the same time, delete_room  *)
(* leaves no live booking in the room it closes, unless an admin approves a  *)
(* canceled one back.                                                      *)
THEOREM ClosedRoomsAreEmpty == Spec /\ []Alone => []InactiveRoomEmpty
<1>1. Init => Orderly
  BY InitOrderly
<1>2. TypeOK /\ Alone /\ Orderly /\ [Next]_vars => Orderly'
  BY OrderKept
<1>3. Orderly => InactiveRoomEmpty
  BY DEF Orderly
<1>. QED  BY <1>1, <1>2, <1>3, TypeCorrect, PTL DEF Spec

-------------------------------------------------------------------------------
(* Day-offs, one request at a time and in rooms whose hours stay *)

(* update_room leaves the operating hours of a room alone. *)
HoursStay == \A r \in Rooms : rooms[r].status # "none" => rooms'[r].hours = rooms[r].hours

Covers(c, i) == /\ c.room \in {booking[i].room, AllRooms}
                /\ c.from <= booking[i].date /\ booking[i].date <= c.to

Meets(h, w, c) == Overlap(h, w, ClosureWindow(h, c.span))

(* Bookings and creates in progress have the hours of their room. *)
OnItsHours ==
  /\ \A i \in Ids : Standing(i) => booking[i].hours = rooms[booking[i].room].hours
  /\ \A t \in Txs : tx[t].op \in {"create", "repeat", "owner"}
                    => tx[t].hours = rooms[tx[t].room].hours

(* A create of a user in progress meets no day-off of its dates. *)
RequestsClear ==
  \A t \in Txs, k \in DayOffs :
    tx[t].op \in {"create", "repeat"}
    => \A d \in tx[t].dates : Effective(k, tx[t].room, d) => ~Meets(tx[t].hours, tx[t].window, dayOff[k])

(* A day-off in progress has named every booking it meets. *)
DayOffsClear ==
  \A t \in Txs, i \in Ids :
    /\ tx[t].op = "dayOff" /\ Standing(i) /\ Covers(tx[t].row, i)
    /\ Meets(booking[i].hours, booking[i].window, tx[t].row)
    => i \in tx[t].forced

(* DayOffsRespected, of every booking that has a claim on its room. *)
ClearOfDayOffs ==
  \A i \in Ids, k \in DayOffs :
    Standing(i) /\ ~booking[i].byAdmin /\ dayOff[k] # NoDayOff /\ Covers(dayOff[k], i)
    => ~Meets(booking[i].hours, booking[i].window, dayOff[k])

Rested == OnItsHours /\ RequestsClear /\ DayOffsClear /\ ClearOfDayOffs

(* The hours of the room of a booking stay.                                 *)
LEMMA HoursOfRow ==
  ASSUME TypeOK, Orderly, Rested, HoursStay, NEW i \in Ids, Standing(i)
  PROVE  /\ booking[i].room \in Rooms /\ booking[i] \in Booking
         /\ rooms'[booking[i].room].hours = booking[i].hours
  BY ExistingRow DEF Standing, Orderly, KnownRooms, Rested, OnItsHours, HoursStay, Booking

(* A review lets no booking meet a day-off that did not meet it before,      *)
LEMMA ReviewKeepsRest ==
  ASSUME TypeOK, Orderly, Rested, HoursStay, Reviewed
  PROVE  Rested'
<1>1. OnItsHours'
  <2>1. ASSUME NEW i \in Ids, Standing(i)'
        PROVE  booking'[i].hours = rooms'[booking'[i].room].hours
    BY <2>1, HoursOfRow DEF Reviewed, SameRow
  <2>2. ASSUME NEW t \in Txs, tx[t].op \in {"create", "repeat", "owner"}
        PROVE  tx[t].hours = rooms'[tx[t].room].hours
    <3>1. tx[t].room \in Rooms
      BY <2>2, TxRow DEF CreateTx
    <3>. QED  BY <2>2, <3>1 DEF Orderly, KnownRooms, Rested, OnItsHours, HoursStay
  <2>. QED  BY <2>1, <2>2 DEF OnItsHours, Reviewed
<1>2. RequestsClear'
  <2> SUFFICES ASSUME NEW t \in Txs, NEW k \in DayOffs, tx[t].op \in {"create", "repeat"},
                      NEW d \in tx[t].dates, Effective(k, tx[t].room, d)'
               PROVE  ~Meets(tx[t].hours, tx[t].window, dayOff'[k])
    BY DEF RequestsClear, Reviewed, Effective, Meets
  <2>1. dayOff'[k] = dayOff[k] /\ tx' = tx
    BY DEF Reviewed, Effective
  <2>. QED  BY <2>1 DEF Effective, Rested, RequestsClear
<1>3. DayOffsClear'
  <2> SUFFICES ASSUME NEW t \in Txs, NEW i \in Ids, tx[t].op = "dayOff", Standing(i)',
                      Covers(tx[t].row, i)', Meets(booking'[i].hours, booking'[i].window, tx[t].row)
               PROVE  i \in tx[t].forced
    BY DEF DayOffsClear, Reviewed, Meets, Covers
  <2>1. Standing(i) /\ SameRow(i) /\ tx' = tx
    BY DEF Reviewed
  <2>. QED  BY <2>1 DEF SameRow, Covers, Rested, DayOffsClear
<1>4. ClearOfDayOffs'
  <2> SUFFICES ASSUME NEW i \in Ids, NEW k \in DayOffs, Standing(i)', ~booking'[i].byAdmin,
                      dayOff'[k] # NoDayOff, Covers(dayOff[k], i)'
               PROVE  ~Meets(booking'[i].hours, booking'[i].window, dayOff'[k])
    BY DEF ClearOfDayOffs, Meets
  <2>1. Standing(i) /\ SameRow(i) /\ dayOff'[k] = dayOff[k]
    BY DEF Reviewed
  <2>. QED  BY <2>1 DEF SameRow, Covers, Rested, ClearOfDayOffs
<1>. QED  BY <1>1, <1>2, <1>3, <1>4 DEF Rested

(* What the reads of a create establish.                                    *)
LEMMA CreateReads ==
  ASSUME TypeOK, NEW t \in Txs, BeginsCreate(t)
  PROVE  /\ tx'[t].op \in {"create", "repeat", "owner"}
         /\ tx'[t].hours = rooms[tx'[t].room].hours
         /\ tx'[t].op \in {"create", "repeat"}
            => \A k \in DayOffs, d \in tx'[t].dates :
                 Effective(k, tx'[t].room, d) => ~Meets(tx'[t].hours, tx'[t].window, dayOff[k])
<1>1. ASSUME NEW r, NEW d, NEW n, NEW w, BeginReservation(t, r, d, n, w)
      PROVE  /\ tx'[t].op = "create" /\ tx'[t].hours = rooms[tx'[t].room].hours
             /\ \A k \in DayOffs, x \in tx'[t].dates :
                  Effective(k, tx'[t].room, x) => ~Meets(tx'[t].hours, tx'[t].window, dayOff[k])
  <2>1. tx'[t] = Request("create", r, w, n, RecurringDates(d, n), {}, {})
    BY <1>1 DEF BeginReservation, TypeOK
  <2>2. \A x \in RecurringDates(d, n) : ~OverlapsDayOff(r, rooms[r].hours, x, w)
    BY <1>1 DEF BeginReservation, HasOverlap
  <2>. QED  BY <2>1, <2>2 DEF Request, OverlapsDayOff, Meets
<1>2. ASSUME NEW r, NEW d, NEW n, NEW w, BeginRepeat(t, r, d, n, w)
      PROVE  /\ tx'[t].op = "repeat" /\ tx'[t].hours = rooms[tx'[t].room].hours
             /\ \A k \in DayOffs, x \in tx'[t].dates :
                  Effective(k, tx'[t].room, x) => ~Meets(tx'[t].hours, tx'[t].window, dayOff[k])
  <2> DEFINE conflict == { x \in RecurringDates(d, n) : HasOverlap(r, rooms[r].hours, x, w) }
  <2>1. tx'[t] = Request("repeat", r, w, n, RecurringDates(d, n) \ conflict, conflict, {})
    BY <1>2 DEF BeginRepeat, TypeOK
  <2>2. \A x \in RecurringDates(d, n) \ conflict : ~OverlapsDayOff(r, rooms[r].hours, x, w)
    BY DEF HasOverlap
  <2>. QED  BY <2>1, <2>2 DEF Request, OverlapsDayOff, Meets
<1>3. ASSUME NEW r, NEW d, NEW w, NEW forced, BeginOwnerReservation(t, r, d, w, forced)
      PROVE  tx'[t].op = "owner" /\ tx'[t].hours = rooms[tx'[t].room].hours
  BY <1>3 DEF BeginOwnerReservation, Request, TypeOK
<1>. QED  BY <1>1, <1>2, <1>3 DEF BeginsCreate

(* What the reads of a day-off establish.                                   *)
LEMMA DayOffReads ==
  ASSUME TypeOK, Orderly, Rested, NEW t \in Txs, BeginsDayOff(t), NEW i \in Ids, Standing(i),
         Covers(tx[t].row, i)', Meets(booking[i].hours, booking[i].window, tx'[t].row)
  PROVE  i \in tx'[t].forced
<1>1. PICK c \in DayOff, forced \in SUBSET Ids : BeginDayOff(t, c, forced)
  BY DEF BeginsDayOff
<1>2. tx'[t].row = c /\ tx'[t].forced = forced /\ booking' = booking
  BY <1>1 DEF BeginDayOff, TypeOK
<1>3. booking[i] \in Booking /\ Live(i) /\ Exists(i)
  BY ExistingRow DEF Standing
<1> DEFINE r == booking[i].room
           d == booking[i].date
           h == rooms[r].hours
<1>4. /\ r \in Rooms /\ rooms[r].status # "none" /\ c.room \in {r, AllRooms}
      /\ d \in Dates /\ c.from <= d /\ d <= c.to /\ booking[i].hours = h
  BY <1>2, <1>3 DEF Booking, Orderly, KnownRooms, Covers, Rested, OnItsHours
<1>5. Overlap(h, ClosureWindow(h, c.span), booking[i].window)
  <2>1. Overlap(h, booking[i].window, ClosureWindow(h, c.span))
    BY <1>2, <1>4 DEF Meets
  <2> DEFINE v == booking[i].window
             w == ClosureWindow(h, c.span)
  <2>2. StartAt(h, v) < EndAt(h, w) /\ EndAt(h, v) > StartAt(h, w)
    BY <2>1 DEF Overlap
  <2>. QED  BY <2>2 DEF Overlap
<1>6. i \in OverlappingBookings(r, h, d, ClosureWindow(h, c.span))
  BY <1>3, <1>5 DEF OverlappingBookings, LiveIn
<1>7. i \in DayOffConflicts(c)
  BY <1>4, <1>6 DEF DayOffConflicts
<1>. QED  BY <1>1, <1>2, <1>7 DEF BeginDayOff

(* nor do the reads of a request,                                            *)
LEMMA BeginKeepsRest ==
  ASSUME TypeOK, Orderly, Rested, NEW t \in Txs,
         BeginsDelete(t) \/ BeginsCreate(t) \/ BeginsDayOff(t)
  PROVE  Rested'
<1>0. /\ UNCHANGED <<rooms, booking, slots, dayOff, released>>
      /\ \A u \in Txs : u # t => tx'[u] = tx[u]
  BY ReadsOnly
<1>1. ASSUME BeginsDelete(t) PROVE tx'[t].op = "deleteRoom"
  BY <1>1 DEF BeginsDelete, BeginDeleteRoom, TypeOK
<1>2. ASSUME BeginsDayOff(t) PROVE tx'[t].op = "dayOff"
  BY <1>2 DEF BeginsDayOff, BeginDayOff, TypeOK
<1>3. \A i \in Ids : Standing(i)' <=> Standing(i)
  BY <1>0 DEF Standing, Live
<1>4. OnItsHours' /\ RequestsClear'
  <2>1. ASSUME NEW u \in Txs, tx'[u].op \in {"create", "repeat", "owner"}
        PROVE  /\ tx'[u].hours = rooms[tx'[u].room].hours
               /\ tx'[u].op \in {"create", "repeat"}
                  => \A k \in DayOffs, d \in tx'[u].dates :
                       Effective(k, tx'[u].room, d)
                         => ~Meets(tx'[u].hours, tx'[u].window, dayOff[k])
    <3>1. CASE u = t
      BY <1>1, <1>2, <2>1, <3>1, CreateReads
    <3>2. CASE u # t
      BY <1>0, <2>1, <3>2 DEF Rested, OnItsHours, RequestsClear
    <3>. QED  BY <3>1, <3>2
  <2>2. OnItsHours'
    BY <1>0, <1>3, <2>1 DEF Rested, OnItsHours
  <2>3. RequestsClear'
    <3> SUFFICES ASSUME NEW u \in Txs, NEW k \in DayOffs, tx'[u].op \in {"create", "repeat"},
                        NEW d \in tx'[u].dates, Effective(k, tx[u].room, d)'
                 PROVE  ~Meets(tx'[u].hours, tx'[u].window, dayOff'[k])
      BY DEF RequestsClear, Meets, Effective
    <3>1. Effective(k, tx'[u].room, d) /\ dayOff' = dayOff
      BY <1>0 DEF Effective
    <3>. QED  BY <2>1, <3>1
  <2>. QED  BY <2>2, <2>3
<1>5. DayOffsClear'
  <2> SUFFICES ASSUME NEW u \in Txs, NEW i \in Ids, tx'[u].op = "dayOff", Standing(i),
                      Covers(tx[u].row, i)', Meets(booking[i].hours, booking[i].window, tx'[u].row)
               PROVE  i \in tx'[u].forced
    BY <1>0, <1>3 DEF DayOffsClear, Meets, Covers
  <2>1. CASE u = t
    <3>1. BeginsDayOff(t)
      BY <1>1, <2>1, CreateReads
    <3>. QED  BY <2>1, <3>1, DayOffReads
  <2>2. CASE u # t
    <3>1. tx'[u] = tx[u] /\ booking' = booking
      BY <1>0, <2>2
    <3>. QED  BY <3>1 DEF Rested, DayOffsClear, Covers
  <2>. QED  BY <2>1, <2>2
<1>6. ClearOfDayOffs'
  BY <1>0, <1>3 DEF Rested, ClearOfDayOffs, Covers
<1>. QED  BY <1>4, <1>5, <1>6 DEF Rested

(* nor its writes: a create met no day-off when it read them, and a day-off  *)
(* cancels every booking it meets.                                           *)
LEMMA EndKeepsRest ==
  ASSUME TypeOK, Orderly, Rested, Alone, HoursStay, NEW t \in Txs, Ends(t)
  PROVE  Rested'
<1>0. \A u \in Txs : tx'[u] = Idle
  BY NothingInProgress
<1>1. RequestsClear' /\ DayOffsClear'
  BY <1>0 DEF RequestsClear, DayOffsClear, Idle
<1>2. ASSUME NEW i \in Ids, Standing(i)'
      PROVE  (Standing(i) /\ SameRow(i)) \/ (StoresRequest(t) /\ FromRequest(t, i))
  <2>1. CASE StoresRequest(t)
    BY <1>2, <2>1, StandingAfterStore
  <2>2. CASE CommitDeleteRoom(t)
    BY <1>2, <2>2, StandingAfterDelete DEF Orderly
  <2>3. CASE RejectDuplicate(t)
    BY <1>2, <2>3 DEF RejectDuplicate, Standing, Live, SameRow
  <2>4. ASSUME NEW k \in DayOffs, CommitDayOff(t, k)
        PROVE  Standing(i) /\ SameRow(i)
    BY <1>2, <2>4, StandingAfterDayOff
  <2>. QED  BY <2>1, <2>2, <2>3, <2>4 DEF Ends
<1>3. ASSUME StoresRequest(t)
      PROVE  /\ tx[t].op \in {"create", "repeat", "owner"} /\ tx[t].room \in Rooms
             /\ tx[t].dates \subseteq Dates /\ dayOff' = dayOff
             /\ rooms'[tx[t].room].hours = tx[t].hours
  <2>1. tx[t].op \in {"create", "repeat", "owner"} /\ tx[t].room \in Rooms /\ tx[t].dates \subseteq Dates
    BY <1>3 DEF StoresRequest, CreateTx
  <2>2. rooms' = rooms /\ dayOff' = dayOff
    BY <1>3 DEF StoresRequest, CommitReservation, CommitRepeat, CommitOwnerReservation, Store
  <2>. QED  BY <2>1, <2>2 DEF Rested, OnItsHours
<1>4. OnItsHours'
  <2>1. ASSUME NEW i \in Ids, Standing(i)'
        PROVE  booking'[i].hours = rooms'[booking'[i].room].hours
    <3>1. CASE Standing(i) /\ SameRow(i)
      BY <3>1, HoursOfRow DEF SameRow
    <3>2. CASE StoresRequest(t) /\ FromRequest(t, i)
      BY <1>3, <3>2 DEF FromRequest
    <3>. QED  BY <1>2, <2>1, <3>1, <3>2
  <2>. QED  BY <1>0, <2>1 DEF OnItsHours, Idle
<1>5. ClearOfDayOffs'
  <2> SUFFICES ASSUME NEW i \in Ids, NEW k \in DayOffs, Standing(i)', ~booking'[i].byAdmin,
                      dayOff'[k] # NoDayOff, Covers(dayOff[k], i)'
               PROVE  ~Meets(booking'[i].hours, booking'[i].window, dayOff'[k])
    BY DEF ClearOfDayOffs, Meets
  <2>1. CASE Standing(i) /\ SameRow(i) /\ dayOff'[k] = dayOff[k]
    BY <2>1 DEF SameRow, Covers, Rested, ClearOfDayOffs
  <2>2. CASE StoresRequest(t) /\ FromRequest(t, i)
    <3>1. tx[t].op \in {"create", "repeat"} /\ dayOff' = dayOff
      BY <1>3, <2>2 DEF FromRequest
    <3>2. dayOff[k] \in DayOff
      BY <3>1 DEF TypeOK
    <3>3. /\ dayOff[k].from \in Nat /\ dayOff[k].to \in Nat /\ booking'[i].date \in Nat
          /\ booking'[i].date \in tx[t].dates
      BY <1>3, <2>2, <3>2, InputAssumption DEF InputAssumption, DayOff, FromRequest
    <3>4. Effective(k, tx[t].room, booking'[i].date)
      BY <2>2, <3>1, <3>3 DEF Effective, Covers, FromRequest
    <3>. QED  BY <2>2, <3>1, <3>3, <3>4 DEF FromRequest, Rested, RequestsClear
  <2>3. ASSUME NEW x \in DayOffs, CommitDayOff(t, x), dayOff'[k] # dayOff[k]
        PROVE  ~Meets(booking'[i].hours, booking'[i].window, dayOff'[k])
    <3>1. dayOff'[k] = tx[t].row /\ tx[t].op = "dayOff"
      BY <2>3 DEF CommitDayOff, TypeOK
    <3>2. Standing(i) /\ SameRow(i) /\ i \notin Freed(tx[t])
      BY <2>3, StandingAfterDayOff
    <3>3. i \notin tx[t].forced
      BY <3>2 DEF Freed, Standing
    <3>. QED  BY <3>1, <3>2, <3>3 DEF SameRow, Covers, Rested, DayOffsClear
  <2>4. ASSUME dayOff'[k] # dayOff[k]
        PROVE  \E x \in DayOffs : CommitDayOff(t, x)
    BY <1>3, <2>4 DEF Ends, CommitDeleteRoom, RejectDuplicate
  <2>. QED  BY <1>2, <2>1, <2>2, <2>3, <2>4
<1>. QED  BY <1>1, <1>4, <1>5 DEF Rested

(* No booking meets a day-off in the empty database.                         *)
LEMMA InitRested ==
  ASSUME Init
  PROVE  Rested
  BY DEF Init, Rested, OnItsHours, RequestsClear, DayOffsClear, ClearOfDayOffs,
         Standing, Live, LiveStatus, NoBooking, Idle

(* While requests come one at a time and hours stay, every step keeps that.  *)
LEMMA RestKept ==
  ASSUME TypeOK, Alone, Orderly, Rested, [Next /\ HoursStay]_vars
  PROVE  Rested'
<1>1. CASE Next /\ HoursStay
  <2>1. ASSUME Reviews PROVE Rested'
    BY <1>1, <2>1, ReviewsReview, ReviewKeepsRest DEF Orderly
  <2>. QED  BY <1>1, <2>1, StepKinds, BeginKeepsRest, EndKeepsRest
<1>2. CASE UNCHANGED vars
  BY <1>2 DEF vars, Rested, OnItsHours, RequestsClear, DayOffsClear, ClearOfDayOffs,
              Standing, Live, Effective, Covers
<1>. QED  BY <1>1, <1>2

(* As long as no two requests are in progress at the same time, and no admin *)
(* changes the hours of a room, no booking of a user meets a day-off of its  *)
(* date, for its room or for all of them, whichever of the two came first.  *)
THEOREM DayOffsKeptFree == Spec /\ []Alone /\ [][HoursStay]_vars => []DayOffsRespected
<1>1. Init => Orderly /\ Rested
  BY InitOrderly, InitRested
<1>2. TypeOK /\ Alone /\ Orderly /\ [Next]_vars => Orderly'
  BY OrderKept
<1>3. TypeOK /\ Alone /\ Orderly /\ Rested /\ [Next]_vars /\ [HoursStay]_vars => Rested'
  BY RestKept
<1>4. Rested => DayOffsRespected
  BY DEF Rested, ClearOfDayOffs, DayOffsRespected, Firm, Standing, Covers, Meets
<1>. QED  BY <1>1, <1>2, <1>3, <1>4, TypeCorrect, PTL DEF Spec
===============================================================================
