\* Either application; three lines; for MucClients a connection that breaks,
\* and handshakes that may take longer than the first line waits.
CONSTANTS
  App = {"a", "b"}
  NLines = 3
  Delays = {1, 2}
  MaxBreaks = 1
  Retry = 2
  MaxTime = 5
SPECIFICATION Spec
INVARIANTS
  NeverInThePast
  SentInLineOrder
  DelaysAreDefined
  NumberIsLine
CHECK_DEADLOCK FALSE
