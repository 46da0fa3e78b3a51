\* Weekly bookings, legacy and with occurrence rows, and every way to cancel
\* or approve them.
SPECIFICATION Spec
CONSTANTS
  DayLength = 8
  Ids = {b1, b2, b3}
  Rooms = {r1}
  Dates = {1, 8}
  Groups = {g1}
  DayOffs = {}
  Txs = {t1, t2}
  NoGroup = NoGroup
  AllRooms = AllRooms
  HourInputs <- OnlyDay
  Windows <- OneOwner
  OwnerWindows <- OneOwner
  DayOffSpans = {}
  RepeatCounts = {2}
  Cutoffs = {}
SYMMETRY Symmetric
INVARIANTS GroupDecidedTogether LiveOccurrenceAgrees
PROPERTIES WeeklyCancelIsFinal KeepsCalendar
CHECK_DEADLOCK FALSE
