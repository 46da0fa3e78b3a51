\* Every room and every pair of windows of a day of eight quarter hours.
SPECIFICATION Spec
CONSTANT DayLength = 8
INVARIANTS SlotsMatchClockFace OverlapSharesSlot SharedSlotOverlaps
           OperatingDaysDisjoint FullDayClosureBlocksAll
