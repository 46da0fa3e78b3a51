----------------------------- MODULE MCRoomClock -----------------------------
(* The operators of RoomClock on every room and every pair of windows of a *)
(* short day: Init ranges over the inputs, no step changes them.           *)
EXTENDS RoomClock

VARIABLES hours, first, second

cases == <<hours, first, second>>

Init == /\ hours \in { NormalizeCloseTime(h) : h \in Hours }
        /\ first \in Window
        /\ second \in Window

Spec == Init /\ [][UNCHANGED cases]_cases

Valid(w)    == ValidTimeWindow(hours, w)
Forward(w)  == StartAt(hours, w) < EndAt(hours, w)
OnGrid(w)   == IsHalfHourUnit(w.start)
ShareSlot   == SlotTimes(hours, first) \cap SlotTimes(hours, second) # {}

(* The slot rows of a window are its half-hours on the clock face: they do  *)
(* not depend on the room's hours, so update_room cannot move them.        *)
SlotsMatchClockFace == Forward(first) => SlotTimes(hours, first) = WallSlots(first)

(* Two windows on the half-hour grid that overlap on a date have a slot row *)
(* in common, so the unique constraint catches whatever the check missed.  *)
OverlapSharesSlot ==
  /\ OnGrid(first) /\ OnGrid(second) /\ Forward(first) /\ Forward(second)
  /\ Overlap(hours, first, second)
  => ShareSlot

(* In a room that closes, the converse for windows users may ask for: the   *)
(* unique constraint never rejects what the check called free.  (In a room  *)
(* that never closes it does: see RepeatSkipsConflicts in Reservations.)   *)
SharedSlotOverlaps ==
  /\ ~hours.allDay /\ Valid(first) /\ Valid(second) /\ ShareSlot
  => Overlap(hours, first, second)

(* The window a user may ask for on one date of a room that closes ends     *)
(* before any such window of the next date starts, overnight rooms included*)
OperatingDaysDisjoint ==
  ~hours.allDay /\ Valid(first) /\ Valid(second)
  => EndAt(hours, first) <= DayLength + StartAt(hours, second)

(* A day-off the month calendar shows as closing the whole date (it covers  *)
(* the operating window) leaves no window of that date a user could book.  *)
FullDayClosureBlocksAll ==
  CoversFullOperatingWindow(hours, first) /\ Valid(second)
  => Overlap(hours, second, first)
==============================================================================
