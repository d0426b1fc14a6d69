SPECIFICATION PartSpec
CONSTANTS
  Memory <- MCMemory
  NumLines = 2
  Policies = {"dac", "direct", "none"}
  Rounds <- MCRounds
  MaxRounds = 2
  CmdDepth = 1
  DataDepth = 1
  VdsDepth = 2
  CopyDepth = 1
  UpdateDepth = 5
  BurstRounds <- MCBurstRounds
  Word = 2
  MaxLen = 3
  IdRange = 16
  Base = {14}
  Depth = 1
  SampleLists <- MCSampleLists
  Lanes = 2
  Bits = 3
  Draws = {1, 5}
  Steps <- MCSteps
  Walks <- MCWalks
  StepWord = 4
  StepLanes = 2
  Invalid = 10
INVARIANTS AllTypeOK NeverHeldUp RoundsApart ExactEntries ChosenAsDrawn Proportional
PROPERTIES ImplementsLookup ImplementsService ImplementsChoice ImplementsWeights AllEnd
