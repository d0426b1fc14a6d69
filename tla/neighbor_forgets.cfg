SPECIFICATION Spec
CONSTANTS
  Steps <- MCSteps
  Walks <- MCWalks
  Word = 4
  NumLanes = 2
  Invalid = 12
  Depth = 1
INVARIANT GroundTruth
