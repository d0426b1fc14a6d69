CONSTANTS
  K = 1
  Depth = 1
  Item <- MCItem
  FeederNos = {{0}, {1}, {0, 1}}
SPECIFICATION PartSpec
PROPERTIES SwitchStarvesNoLane EveryLaneFed EveryFeederServed
