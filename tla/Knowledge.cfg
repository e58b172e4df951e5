SPECIFICATION Spec
CONSTANTS
  App = {n1, n2}
  MaxNumber = 3
  MaxRounds = 3
INVARIANTS
  ObserversAgree
  NoPairLeftOut
  TotalsAreReports
CHECK_DEADLOCK FALSE
