----------------------------- MODULE ClientTime -----------------------------
(***************************************************************************)
(* Slot arithmetic of the two web clients: the operating window a slot    *)
(* lies in, overlap with the slots a day's schedule lists as taken, and   *)
(* the picks of the time wheels (src/FE/src/domains/reservation/           *)
(* slotUtils and src/FE/src/pages/ReservationApplyPage.tsx).               *)
(*                                                                         *)
(* A slot is a number of half hours from midnight of the day the page     *)
(* shows; slots below 0 and from DaySlots on lie on other days.            *)
(***************************************************************************)
EXTENDS Integers, FiniteSetsExt

CONSTANT DaySlots   (* half hours in a day: 48 in the code *)

ASSUME DaySlotsAssumption == DaySlots \in Nat \ {0} /\ DaySlots % 2 = 0

Loading == [kind |-> "loading"]   (* the schedule query has no data yet *)

(* getSlotRange and getOperatingSlotRange: an end that is not after the    *)
(* start belongs to the next day.                                          *)
SlotRange(start, end) ==
  [from |-> start, to |-> IF end <= start THEN end + DaySlots ELSE end]

WindowAround(hours, x) ==
  LET shift == ((x - hours.from) \div DaySlots) * DaySlots
  IN  [from |-> hours.from + shift, to |-> hours.to + shift]

OutsideOperatingHours(hours, start, end) ==
  LET w == WindowAround(hours, start) IN start < w.from \/ end > w.to

StartInsideOperatingHours(hours, x) ==
  LET w == WindowAround(hours, x) IN w.from <= x /\ x < w.to

BlockedOverlap(taken, start, end) ==
  \E r \in taken : start < r.to /\ end > r.from

(* The first of a set of slots, the last one, or a slot to fall back on.   *)
FirstOr(S, slot) == IF S = {} THEN slot ELSE Min(S)
LastOr(S, slot)  == IF S = {} THEN slot ELSE Max(S)

(* The other half of the day, at the same time on the clock face.          *)
InHalf(x, half) ==
  (x \div DaySlots) * DaySlots + (x % (DaySlots \div 2)) + half * (DaySlots \div 2)
==============================================================================
