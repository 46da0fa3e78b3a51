\* One request at a time, a room that closes: approving a canceled booking.
SPECIFICATION Spec
CONSTANTS
  DayLength = 8
  Ids = {b1, b2}
  Rooms = {r1}
  Dates = {1}
  Groups = {g1}
  DayOffs = {}
  Txs = {t1}
  NoGroup = NoGroup
  AllRooms = AllRooms
  HourInputs <- OnlyDay
  Windows <- DayWindows
  OwnerWindows = {}
  DayOffSpans = {}
  RepeatCounts = {1}
  Cutoffs = {}
SYMMETRY Symmetric
INVARIANT SlotsPreventDoubleBooking
CHECK_DEADLOCK FALSE
