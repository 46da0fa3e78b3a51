\* Two requests in progress at a time over one date of a room whose hours
\* change between a day that ends before midnight and one that runs past it.
SPECIFICATION Spec
CONSTANTS
  DayLength = 8
  Ids = {b1, b2}
  Rooms = {r1}
  Dates = {1}
  Groups = {g1}
  DayOffs = {}
  Txs = {t1, t2}
  NoGroup = NoGroup
  AllRooms = AllRooms
  HourInputs <- DayOrNight
  Windows <- RaceWindows
  OwnerWindows <- OddOwner
  DayOffSpans = {}
  RepeatCounts = {1}
  Cutoffs = {2}
SYMMETRY Symmetric
INVARIANTS TypeOK   CanceledHoldsNothing
CHECK_DEADLOCK FALSE
