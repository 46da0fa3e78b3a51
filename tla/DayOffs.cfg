\* One request in progress at a time; day-offs, room deletion and owner
\* bookings against bookings of one week.
SPECIFICATION Spec
CONSTANTS
  DayLength = 8
  Ids = {b1, b2}
  Rooms = {r1}
  Dates = {1, 2}
  Groups = {g1}
  DayOffs = {k1}
  Txs = {t1}
  NoGroup = NoGroup
  AllRooms = AllRooms
  HourInputs <- OnlyNight
  Windows <- NightWindows
  OwnerWindows <- OneNight
  DayOffSpans <- SomeSpans
  RepeatCounts = {1}
  Cutoffs = {}
SYMMETRY Symmetric
INVARIANTS InactiveRoomEmpty DayOffsRespected OperatingDaysApart
CHECK_DEADLOCK FALSE
