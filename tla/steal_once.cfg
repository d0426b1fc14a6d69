CONSTANTS
  K = 2
  Depth = 1
  q1 = q1
  q2 = q2
  q3 = q3
  q4 = q4
  Item = {q1, q2, q3, q4}
  Feeders <- MCFeeders
  Home <- MCHome
SPECIFICATION OnceSpec
PROPERTIES ImplementsPool
