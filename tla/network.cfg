CONSTANTS
  Tasks = 7
  Slots = 2
  FrameSize = 2
  Timeout = 1
  NetDepth = 2
  FrameDepth = 2
  SignalDepth = 2
  Lanes = 4
  FrameLen <- MCFrameLen
  Depth = 1
  Items <- MCItems
  FilterWait = 1
  NetWait = 1
  RouterCases <- MCRouterCases
SPECIFICATION PartSpec
INVARIANTS AllTypeOK NeverWaitsMidFrame FramesWhole OnceInOrder FramesBounded
PROPERTIES CompleteFramesInOrder Alternates NothingStays AllArrive
CHECK_DEADLOCK FALSE
