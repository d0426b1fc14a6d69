SPECIFICATION FairSpec
CONSTANTS
  q1 = q1
  q2 = q2
  q3 = q3
  q4 = q4
  Lane = {1, 2}
  Query = {q1, q2, q3, q4}
  WalkLen <- MCWalkLen
  Ahead = 1
  Timeout = 1
  LinkDepth = 1
  RetDepth = 1
INVARIANTS ExactLength RingBounded
PROPERTY ImplementsPool
