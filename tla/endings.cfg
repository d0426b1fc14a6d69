SPECIFICATION PartSpec
CONSTANTS
  Size = 6
  Steps = 3
  Length <- MCLength
  RingSize = 3
  NewDepth = 2
  OutDepth = 1
  OldDepth = 4
  Lanes = 2
  CntDepth = 2
  StateDepth = 1
  OuterCounter = 6
  Visits = 2
  Runs = 2
INVARIANTS AllTypeOK OwnSlot NeverBlocked LeavesNothing FinalCount
PROPERTY Joins
