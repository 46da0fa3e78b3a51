\* Two requests in progress: a create against delete_room.
SPECIFICATION Spec
CONSTANTS
  DayLength = 8
  Ids = {b1, b2}
  Rooms = {r1}
  Dates = {1}
  Groups = {g1}
  DayOffs = {}
  Txs = {t1, t2}
  NoGroup = NoGroup
  AllRooms = AllRooms
  HourInputs <- OnlyDay
  Windows <- DayWindows
  OwnerWindows = {}
  DayOffSpans = {}
  RepeatCounts = {1}
  Cutoffs = {}
SYMMETRY Symmetric
INVARIANT InactiveRoomEmpty
CHECK_DEADLOCK FALSE
