--------------------------- MODULE ClockCasesProofs ---------------------------
(***************************************************************************)
(* What MCRoomClock checks of every room and every pair of windows of a    *)
(* short day, for a day of any length: slot rows against a clock face, the *)
(* overlap check against the unique constraint, operating days against one *)
(* another, and closures against windows.                                  *)
(***************************************************************************)
EXTENDS MCRoomClock, RoomClockProofs

USE DayAssumption DEF DayAssumption, SlotStep, TimesOfDay

(* The inputs are a room as the back office stores it and two windows.     *)
CasesOK == hours \in Hours /\ first \in Window /\ second \in Window

LEMMA CasesStay == Spec => []CasesOK
<1>1. Init => CasesOK
  BY DEF Init, CasesOK, Hours, NormalizeCloseTime
<1>2. CasesOK /\ [UNCHANGED cases]_cases => CasesOK'
  BY DEF CasesOK, cases
<1> QED BY <1>1, <1>2, PTL DEF Spec

(* The slot rows of a window are its half hours on the clock face, so that *)
(* update_room cannot move them.                                           *)
THEOREM SlotsAlwaysMatch == Spec => []SlotsMatchClockFace
<1>1. CasesOK => SlotsMatchClockFace
  BY SlotTimesAreWallSlots DEF CasesOK, SlotsMatchClockFace, Forward
<1> QED BY <1>1, CasesStay, PTL

(* Whatever the overlap check rejects, the unique constraint would reject. *)
THEOREM OverlapAlwaysShares == Spec => []OverlapSharesSlot
<1>1. CasesOK => OverlapSharesSlot
  BY OverlappingWindowsShare DEF CasesOK, OverlapSharesSlot, OnGrid, Forward, ShareSlot
<1> QED BY <1>1, CasesStay, PTL

(* The windows of two dates of a room that closes never meet.              *)
THEOREM DatesAlwaysDisjoint == Spec => []OperatingDaysDisjoint
<1>1. ASSUME CasesOK, ~hours.allDay, Valid(first), Valid(second)
      PROVE  EndAt(hours, first) <= DayLength + StartAt(hours, second)
  <2>1. 0 * DayLength + EndAt(hours, first) <= 1 * DayLength + StartAt(hours, second)
    BY <1>1, WindowsOfTwoDates DEF CasesOK, Valid
  <2> QED BY <1>1, <2>1, WindowArithmetic DEF CasesOK
<1>2. CasesOK => OperatingDaysDisjoint BY <1>1 DEF OperatingDaysDisjoint
<1> QED BY <1>2, CasesStay, PTL

(* A window a user may ask for, in a room that closes, lies in the room's  *)
(* operating hours, which are a day at most.                               *)
LEMMA ValidInHours ==
  ASSUME NEW h \in Hours, NEW w \in Window, ValidTimeWindow(h, w)
  PROVE  /\ RoomOpenAt(h) \in Nat /\ RoomCloseAt(h) \in Nat
         /\ RoomCloseAt(h) <= RoomOpenAt(h) + DayLength
         /\ RoomOpenAt(h) <= StartAt(h, w) /\ StartAt(h, w) < EndAt(h, w)
         /\ h.allDay => RoomCloseAt(h) = RoomOpenAt(h) + DayLength
         /\ ~h.allDay => EndAt(h, w) <= RoomCloseAt(h)
         /\ StartAt(h, w) < RoomOpenAt(h) + DayLength
<1>1. h.allDay \in BOOLEAN /\ h.open \in 0 .. DayLength - 1 /\ h.close \in 0 .. DayLength - 1
  BY DEF Hours
<1>2. w.start \in 0 .. DayLength - 1 BY DEF Window
<1>3. StartAt(h, w) < EndAt(h, w) /\ StartAt(h, w) \in Nat /\ EndAt(h, w) \in Nat
  BY WindowArithmetic DEF ValidTimeWindow
<1>4. RoomOpenAt(h) \in Nat /\ RoomCloseAt(h) \in Nat /\ RoomCloseAt(h) <= RoomOpenAt(h) + DayLength
  BY <1>1 DEF RoomOpenAt, RoomCloseAt
<1>5. CASE h.allDay
  <2>1. RoomCloseAt(h) = RoomOpenAt(h) + DayLength BY <1>5 DEF RoomOpenAt, RoomCloseAt
  <2>2. RoomOpenAt(h) <= StartAt(h, w) /\ StartAt(h, w) < RoomOpenAt(h) + DayLength
    BY <1>1, <1>2, <1>5 DEF RoomOpenAt, StartAt, NormalizeTime, PassesMidnight
  <2> QED BY <1>3, <1>4, <1>5, <2>1, <2>2
<1>6. CASE ~h.allDay
  <2>1. RoomOpenAt(h) <= StartAt(h, w) /\ EndAt(h, w) <= RoomCloseAt(h)
    BY <1>6 DEF ValidTimeWindow
  <2> QED BY <1>3, <1>4, <1>6, <2>1
<1> QED BY <1>5, <1>6

(* Within one operating day a clock time comes round once.                 *)
LEMMA SameTimeSameOffset ==
  ASSUME NEW o \in Nat, NEW x \in Nat, NEW y \in Nat, o < DayLength,
         o <= x, x < o + DayLength, o <= y, y < o + DayLength,
         TimeOfDay(x) = TimeOfDay(y)
  PROVE  x = y
<1>1. TimeOfDay(x) = (IF x < DayLength THEN x ELSE x - DayLength) /\ TimeOfDay(x) \in Nat
  BY TimeOfDayCases
<1>2. TimeOfDay(y) = (IF y < DayLength THEN y ELSE y - DayLength) /\ TimeOfDay(y) \in Nat
  BY TimeOfDayCases
<1>3. CASE x < DayLength /\ y < DayLength BY <1>1, <1>2, <1>3
<1>4. CASE x < DayLength /\ ~(y < DayLength)
  <2>1. x = y - DayLength BY <1>1, <1>2, <1>4
  <2>2. y - DayLength < o OBVIOUS
  <2> QED BY <2>1, <2>2
<1>5. CASE ~(x < DayLength) /\ y < DayLength
  <2>1. y = x - DayLength BY <1>1, <1>2, <1>5
  <2>2. x - DayLength < o OBVIOUS
  <2> QED BY <2>1, <2>2
<1>6. CASE ~(x < DayLength) /\ ~(y < DayLength)
  <2>1. x - DayLength = y - DayLength BY <1>1, <1>2, <1>6
  <2> QED BY <2>1
<1> QED BY <1>3, <1>4, <1>5, <1>6

(* In a room that closes the unique constraint rejects nothing that the    *)
(* overlap check has called free: two windows with a slot row in common    *)
(* have a half hour in common on the same operating day.                   *)
THEOREM SharingAlwaysOverlaps == Spec => []SharedSlotOverlaps
<1>1. ASSUME CasesOK, ~hours.allDay, Valid(first), Valid(second), ShareSlot
      PROVE  Overlap(hours, first, second)
  <2> DEFINE sv == StartAt(hours, first)
             ev == EndAt(hours, first)
             sw == StartAt(hours, second)
             ew == EndAt(hours, second)
             o  == RoomOpenAt(hours)
  <2>1. /\ o \in Nat /\ sv \in Nat /\ ev \in Nat /\ sw \in Nat /\ ew \in Nat
        /\ o <= sv /\ ev <= o + DayLength /\ o <= sw /\ ew <= o + DayLength /\ o < DayLength
    <3>1. sv \in Nat /\ ev \in Nat /\ sw \in Nat /\ ew \in Nat
      BY <1>1, WindowArithmetic DEF CasesOK
    <3>2. o \in Nat /\ o < DayLength BY <1>1 DEF CasesOK, Hours, RoomOpenAt
    <3>3. /\ RoomCloseAt(hours) \in Nat /\ RoomCloseAt(hours) <= o + DayLength
          /\ o <= sv /\ ev <= RoomCloseAt(hours) /\ o <= sw /\ ew <= RoomCloseAt(hours)
      BY <1>1, ValidInHours DEF CasesOK, Valid
    <3> QED BY <3>1, <3>2, <3>3
  <2>2. PICK x \in sv .. ev - 1, y \in sw .. ew - 1 : TimeOfDay(x) = TimeOfDay(y)
    BY <1>1, Zenon DEF ShareSlot, SlotTimes
  <2>3. /\ x \in Nat /\ y \in Nat /\ x < 3 * DayLength /\ y < 3 * DayLength
        /\ o <= x /\ x < o + DayLength /\ o <= y /\ y < o + DayLength
    BY <2>1
  <2>4. x = y
    <3>1. x \in Nat /\ y \in Nat /\ o \in Nat BY <2>1, <2>3
    <3> HIDE DEF o
    <3> QED BY <2>1, <2>2, <2>3, <3>1, SameTimeSameOffset
  <2> QED BY <2>1, <2>3, <2>4 DEF Overlap
<1>2. CasesOK => SharedSlotOverlaps BY <1>1 DEF SharedSlotOverlaps
<1> QED BY <1>2, CasesStay, PTL

(* A closure that covers the operating window of a date leaves no window   *)
(* of that date to be booked.                                              *)
THEOREM ClosuresAlwaysBlock == Spec => []FullDayClosureBlocksAll
<1>1. ASSUME CasesOK, CoversFullOperatingWindow(hours, first), Valid(second)
      PROVE  Overlap(hours, second, first)
  <2>1. /\ StartAt(hours, first) \in Nat /\ EndAt(hours, first) \in Nat
        /\ StartAt(hours, second) \in Nat /\ EndAt(hours, second) \in Nat
    BY <1>1, WindowArithmetic DEF CasesOK
  <2>2. StartAt(hours, first) <= RoomOpenAt(hours) /\ EndAt(hours, first) >= RoomCloseAt(hours)
    BY <1>1 DEF CoversFullOperatingWindow
  <2>3. hours.allDay \in BOOLEAN BY <1>1 DEF CasesOK, Hours
  <2>4. /\ RoomOpenAt(hours) \in Nat /\ RoomCloseAt(hours) \in Nat
        /\ RoomOpenAt(hours) <= StartAt(hours, second)
        /\ StartAt(hours, second) < EndAt(hours, second)
        /\ StartAt(hours, second) < RoomCloseAt(hours)
    <3>1. /\ RoomOpenAt(hours) \in Nat /\ RoomCloseAt(hours) \in Nat
          /\ RoomOpenAt(hours) <= StartAt(hours, second) /\ StartAt(hours, second) < EndAt(hours, second)
          /\ hours.allDay => RoomCloseAt(hours) = RoomOpenAt(hours) + DayLength
          /\ ~hours.allDay => EndAt(hours, second) <= RoomCloseAt(hours)
          /\ StartAt(hours, second) < RoomOpenAt(hours) + DayLength
      BY <1>1, ValidInHours DEF CasesOK, Valid
    <3> QED BY <2>1, <2>3, <3>1
  <2> QED BY <2>1, <2>2, <2>4 DEF Overlap
<1>2. CasesOK => FullDayClosureBlocksAll BY <1>1 DEF FullDayClosureBlocksAll
<1> QED BY <1>2, CasesStay, PTL
==============================================================================
