SPECIFICATION Spec
CONSTANTS
  Size = 3
  Steps = 2
  Length <- MCLength
  RingSize = 2
  NewDepth = 2
  OutDepth = 1
  OldDepth = 3
INVARIANT SlotFreed
