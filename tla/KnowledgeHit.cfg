SPECIFICATION Spec
CONSTANTS
  App = {n1, n2}
  MaxNumber = 2
  MaxRounds = 2
INVARIANT
  HitMeansCurrent
CHECK_DEADLOCK FALSE
