\* One request at a time, a room that never closes, two consecutive dates.
SPECIFICATION Spec
CONSTANTS
  DayLength = 8
  Ids = {b1, b2}
  Rooms = {r1}
  Dates = {1, 2}
  Groups = {g1}
  DayOffs = {}
  Txs = {t1}
  NoGroup = NoGroup
  AllRooms = AllRooms
  HourInputs <- OnlyFull
  Windows <- FullWindows
  OwnerWindows = {}
  DayOffSpans = {}
  RepeatCounts = {1}
  Cutoffs = {}
SYMMETRY Symmetric
INVARIANT FullDayBookingsApart
CHECK_DEADLOCK FALSE
