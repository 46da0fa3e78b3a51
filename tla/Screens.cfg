SPECIFICATION FairSpec
CONSTANTS
  DaySlots = 4
  Days = {0, 1}
  ClosableDays = {1}
  PresentTime = 1
  InitialStart = 3
  DefaultDuration = 2
  Horizon = 10
  Reach = 5
  SlotBound = 4
  Schedules <- BusyOvernightInactive
  VisibleRange = 1
  Repeats <- OnceOrFortnightly
  VisibleRepeats = 1
  Weeks = {1, 2}
  Undecided = {1}
  MaxTime = 2
  MaxLoads = 2
  Booked = {1, 2}
  TeamOf <- PersonalThenBand
  ListSize = 1
  MaxAsks = 2
  ListMoves = 5
  Members = {1, 2, 3}
  Leader = 1
  Strangers = {8}
  Colors = {1, 2}
  MaxWrites = 1
  TeamMoves = 5
  Nicks = {1, 2}
  MaxInfos = 2
  NickMoves = 4
  NewId = 3
  Series = {2}
  RepeatDates = {1}
  Window <- TwoInARow
  Narrow = {2, 3}
  OpenTime <- OpensAtMidnight
  LastStart = 1
  LastEnd = 2
  MaxActs = 2
  Teams = {1}
  Users = {1, 2}
  Admin = 9
  MaxDepth = 4
  MaxSaves = 2
  CrewMoves = 5
  Found = {2, 3}
  MaxFetches = 2
  PeopleMoves = 3
  StudioRooms = {1, 2}
  Founded = {1}
  OffIds = {1, 2}
  BookedSlots <- FirstSlotOfToday
  OffDates = {1, 2}
  LastSlot = 1
  RoomMoves = 5
  Ids = {1, 2, 3}
  PageSize = 1
  MaxCalls = 2
INVARIANTS
  TypeOK
  WindowFits
  OneReservationAtATime
  
  HeadingAgrees
  ShowsWhatIsChosen
  CheckedIsTyped
  ShownKeepsUp
  SavedWasChecked
  CancelsWhatIsInTheWay
  MembersAsSaved
  
  DayOffCancelsItsOwn
PROPERTIES
  ClosedWhenCancelled
  
CHECK_DEADLOCK FALSE
