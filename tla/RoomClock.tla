------------------------------ MODULE RoomClock ------------------------------
(***************************************************************************)
(* Operating hours, reservation windows and slot times of a room, as      *)
(* computed by the static helpers of ReservationCommandService             *)
(* (src/BE/bookings/services.py) and their copies in the back office.      *)
(*                                                                         *)
(* A clock time is a number of quarter hours since midnight.  The code     *)
(* works on datetime values of one reservation date; here such a value is  *)
(* an offset from midnight of that date, so that DayLength is midnight of  *)
(* the following day.                                                      *)
(*                                                                         *)
(* Definitions named Bug... are plausible defects of the definition that   *)
(* follows them; nothing uses them but the checks that a property notices. *)
(***************************************************************************)
EXTENDS Integers

CONSTANT DayLength   (* quarter hours in a day: 96 in the code, fewer in TLC *)

ASSUME DayAssumption ==
  /\ DayLength \in Nat \ {0}
  /\ DayLength % 2 = 0

SlotStep == 2        (* a slot row stands for half an hour: two quarters *)

TimesOfDay == 0 .. DayLength - 1
NoTime     == -1     (* a closure column that is NULL *)

Hours  == [open: TimesOfDay, close: TimesOfDay, allDay: BOOLEAN]
Window == [start: TimesOfDay, end: TimesOfDay]
Span   == [start: TimesOfDay \cup {NoTime}, end: TimesOfDay \cup {NoTime}]

(***************************************************************************)
(* Normalisation: clock times of an operating day that runs past midnight *)
(* are moved to the following calendar day.                                *)
(***************************************************************************)
PassesMidnight(h) == h.allDay \/ h.close < h.open

NormalizeTime(h, t) ==
  IF PassesMidnight(h) /\ t < h.open THEN t + DayLength ELSE t

StartAt(h, w) == NormalizeTime(h, w.start)

NormalizeEndTime(h, w) ==
  LET endAt == NormalizeTime(h, w.end)
  IN  IF PassesMidnight(h) /\ endAt <= StartAt(h, w)
      THEN endAt + DayLength
      ELSE endAt

EndAt(h, w) == NormalizeEndTime(h, w)

RoomOpenAt(h) == h.open

RoomCloseAt(h) ==
  IF h.allDay THEN h.open + DayLength
  ELSE IF h.close < h.open THEN h.close + DayLength ELSE h.close

(* The close time the back office stores for a room that never closes. *)
NormalizeCloseTime(h) == IF h.allDay THEN [h EXCEPT !.close = h.open] ELSE h

(***************************************************************************)
(* What a user may ask for, when two windows of a date overlap, and which *)
(* wall-clock slot rows a window occupies.                                 *)
(***************************************************************************)
IsHalfHourUnit(t) == t % SlotStep = 0

BugNoCloseCheck(h, w) ==
  /\ IsHalfHourUnit(w.start) /\ IsHalfHourUnit(w.end)
  /\ w.start # w.end
  /\ StartAt(h, w) < EndAt(h, w)
  /\ h.allDay \/ StartAt(h, w) >= RoomOpenAt(h)

ValidTimeWindow(h, w) ==
  /\ IsHalfHourUnit(w.start) /\ IsHalfHourUnit(w.end)
  /\ w.start # w.end
  /\ StartAt(h, w) < EndAt(h, w)
  /\ h.allDay \/ (StartAt(h, w) >= RoomOpenAt(h) /\ EndAt(h, w) <= RoomCloseAt(h))

BugTouchingOverlaps(h, v, w) ==
  /\ StartAt(h, v) <= EndAt(h, w)
  /\ EndAt(h, v) >= StartAt(h, w)

Overlap(h, v, w) ==
  /\ StartAt(h, v) < EndAt(h, w)
  /\ EndAt(h, v) > StartAt(h, w)

BugOffsetKept(offset) == offset

TimeOfDay(offset) == offset % DayLength

BugSlotAtEnd(h, w) ==
  { TimeOfDay(x) :
      x \in { y \in StartAt(h, w) .. EndAt(h, w) :
                (y - StartAt(h, w)) % SlotStep = 0 } }

SlotTimes(h, w) ==
  { TimeOfDay(x) :
      x \in { y \in StartAt(h, w) .. EndAt(h, w) - 1 :
                (y - StartAt(h, w)) % SlotStep = 0 } }

(* A closure with a NULL time takes that time from the room. *)
ClosureWindow(h, c) ==
  [start |-> IF c.start = NoTime THEN h.open  ELSE c.start,
   end   |-> IF c.end   = NoTime THEN h.close ELSE c.end]

BugCoversClockTimes(h, w) == w.start <= h.open /\ w.end >= h.close

CoversFullOperatingWindow(h, w) ==
  /\ StartAt(h, w) <= RoomOpenAt(h)
  /\ EndAt(h, w) >= RoomCloseAt(h)

(***************************************************************************)
(* The reference definition of a window's slot times: a half-hour grid    *)
(* from start to end on a clock face, with no room in sight.               *)
(***************************************************************************)
WallSlots(w) ==
  { x \in TimesOfDay :
      /\ (x + w.start) % SlotStep = 0
      /\ IF w.start < w.end THEN w.start <= x /\ x < w.end
                            ELSE w.start <= x \/ x < w.end }
==============================================================================
