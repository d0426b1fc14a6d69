SPECIFICATION Spec
CONSTANTS
  Rounds <- MCInside
  MaxRounds = 1
  Word = 2
  MaxLen = 3
  IdRange = 16
  Base = {0}
  Depth = 1
INVARIANTS ExactEntries
