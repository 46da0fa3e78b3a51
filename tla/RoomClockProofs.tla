--------------------------- MODULE RoomClockProofs ---------------------------
(***************************************************************************)
(* What the clock arithmetic of RoomClock guarantees, for a day of any     *)
(* even number of quarter hours and every room and window.                 *)
(***************************************************************************)
EXTENDS RoomClock, TLAPS

USE DayAssumption DEF DayAssumption, SlotStep, TimesOfDay

(* Normalised times are at most two days after the midnight they start from*)
LEMMA WindowArithmetic ==
  ASSUME NEW h \in Hours, NEW w \in Window
  PROVE  /\ StartAt(h, w) \in {w.start, w.start + DayLength}
         /\ EndAt(h, w) \in {w.end, w.end + DayLength, w.end + 2 * DayLength}
         /\ StartAt(h, w) \in Nat
         /\ EndAt(h, w) \in Nat
  BY DEF Hours, Window, StartAt, EndAt, NormalizeTime, NormalizeEndTime

(* A window that runs forwards is as long as its clock times say, once round
   the clock if it ends before it starts.                                  *)
LEMMA WindowLength ==
  ASSUME NEW h \in Hours, NEW w \in Window, StartAt(h, w) < EndAt(h, w)
  PROVE  EndAt(h, w) - StartAt(h, w) =
           IF w.start < w.end THEN w.end - w.start ELSE w.end - w.start + DayLength
  BY DEF Hours, Window, StartAt, EndAt, NormalizeTime, NormalizeEndTime, PassesMidnight

(* Every half-hour point of a window is one of its slot times.              *)
LEMMA SlotTimesContain ==
  ASSUME NEW h \in Hours, NEW w \in Window, NEW x \in Nat,
         StartAt(h, w) <= x, x < EndAt(h, w), (x - StartAt(h, w)) % 2 = 0
  PROVE  TimeOfDay(x) \in SlotTimes(h, w)
<1>1. x \in StartAt(h, w) .. EndAt(h, w) - 1
  BY WindowArithmetic
<1>. QED  BY <1>1, Zenon DEF SlotTimes

(* Two windows on the half-hour grid of a date that overlap share a slot row:
   whatever _validate_no_overlap_with_bookings rejects, the unique constraint
   on BookingSlot would have rejected too.                                 *)
LEMMA OverlappingWindowsShare ==
  ASSUME NEW h \in Hours, NEW v \in Window, NEW w \in Window,
         IsHalfHourUnit(v.start), IsHalfHourUnit(w.start),
         StartAt(h, v) < EndAt(h, v), StartAt(h, w) < EndAt(h, w),
         Overlap(h, v, w)
  PROVE  SlotTimes(h, v) \cap SlotTimes(h, w) # {}
<1> DEFINE sv == StartAt(h, v)
           sw == StartAt(h, w)
           first == IF sv < sw THEN sw ELSE sv
<1>1. /\ first \in Nat
      /\ sv <= first /\ first < EndAt(h, v)
      /\ sw <= first /\ first < EndAt(h, w)
  BY WindowArithmetic DEF Overlap
<1>2. sv % 2 = 0 /\ sw % 2 = 0
  BY WindowArithmetic DEF IsHalfHourUnit, Window
<1>3. (first - sv) % 2 = 0 /\ (first - sw) % 2 = 0
  BY <1>2, WindowArithmetic
<1>4. TimeOfDay(first) \in SlotTimes(h, v) /\ TimeOfDay(first) \in SlotTimes(h, w)
  BY <1>1, <1>3, SlotTimesContain
<1>. QED  BY <1>4

(* datetime.time() of a normalised time, without the remainder.             *)
LEMMA TimeOfDayCases ==
  ASSUME NEW x \in Nat, x < 3 * DayLength
  PROVE  TimeOfDay(x) = IF x < DayLength THEN x
                        ELSE IF x < 2 * DayLength THEN x - DayLength
                        ELSE x - 2 * DayLength
  BY DEF TimeOfDay

(* _build_slot_times yields the window's half-hours on the clock face, in any
   room: the operating hours only decide which date they are counted from. *)
LEMMA SlotTimesAreWallSlots ==
  ASSUME NEW h \in Hours, NEW w \in Window, StartAt(h, w) < EndAt(h, w)
  PROVE  SlotTimes(h, w) = WallSlots(w)
<1> DEFINE s == StartAt(h, w)
           e == EndAt(h, w)
<1>0. /\ s \in {w.start, w.start + DayLength}
      /\ e - s = IF w.start < w.end THEN w.end - w.start ELSE w.end - w.start + DayLength
      /\ s \in Nat /\ e \in Nat /\ w.start \in TimesOfDay /\ w.end \in TimesOfDay
  BY WindowArithmetic, WindowLength DEF Window
<1>1. ASSUME NEW x \in s .. e - 1, (x - s) % 2 = 0
      PROVE  TimeOfDay(x) \in WallSlots(w)
  <2>1. x \in Nat /\ x < 3 * DayLength
    BY <1>0
  <2>2. TimeOfDay(x) \in TimesOfDay
    BY <2>1, TimeOfDayCases
  <2>. QED  BY <1>0, <1>1, <2>1, <2>2, TimeOfDayCases DEF WallSlots
<1>2. ASSUME NEW t \in WallSlots(w)
      PROVE  \E x \in s .. e - 1 : (x - s) % 2 = 0 /\ TimeOfDay(x) = t
  <2> DEFINE x == IF s = w.start
                  THEN IF w.start <= t THEN t ELSE t + DayLength
                  ELSE IF w.start <= t THEN t + DayLength ELSE t + 2 * DayLength
  <2>0. /\ t \in TimesOfDay
        /\ (t + w.start) % 2 = 0
        /\ IF w.start < w.end THEN w.start <= t /\ t < w.end
                              ELSE w.start <= t \/ t < w.end
    BY DEF WallSlots
  <2>1. x \in s .. e - 1
    <3>1. CASE w.start < w.end
      BY <1>0, <2>0, <3>1
    <3>2. CASE ~(w.start < w.end)
      BY <1>0, <2>0, <3>2
    <3>. QED  BY <3>1, <3>2
  <2>2. (x - s) % 2 = 0
    <3>1. x - s \in {t - w.start, t + DayLength - w.start}
      BY <1>0, <2>0
    <3>. QED  BY <1>0, <2>0, <3>1
  <2>3. TimeOfDay(x) = t
    BY <1>0, <2>1, TimeOfDayCases DEF WallSlots
  <2>. QED  BY <2>1, <2>2, <2>3
<1>. QED  BY <1>1, <1>2 DEF SlotTimes

(* In a room that closes, windows users may ask for on two dates never meet,
   although an overnight room runs into the next date.                     *)
THEOREM WindowsOfTwoDates ==
  ASSUME NEW h \in Hours, NEW v \in Window, NEW w \in Window,
         NEW c \in Nat, NEW d \in Nat, c < d,
         ~h.allDay, ValidTimeWindow(h, v), ValidTimeWindow(h, w)
  PROVE  c * DayLength + EndAt(h, v) <= d * DayLength + StartAt(h, w)
<1>0. h.allDay = FALSE
  BY Zenon DEF Hours
<1>1. EndAt(h, v) <= RoomCloseAt(h) /\ RoomOpenAt(h) <= StartAt(h,w)
  BY WindowArithmetic DEF ValidTimeWindow, RoomOpenAt, RoomCloseAt, Hours
<1>2. RoomCloseAt(h) <= DayLength + RoomOpenAt(h)
  BY DEF RoomOpenAt, RoomCloseAt, Hours
<1>3. c * DayLength + DayLength <= d * DayLength
  OBVIOUS
<1>. QED  BY <1>1, <1>2, <1>3, WindowArithmetic DEF Hours, RoomOpenAt, RoomCloseAt
==============================================================================
