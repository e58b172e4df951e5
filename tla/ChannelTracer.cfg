\* Two channels; runs that end at, before and after a print.
CONSTANTS
  Channel = {c1, c2}
  Period = 2
  SimTimes = {2, 3, 4, 5}
  MaxPackets = 4
SPECIFICATION Spec
INVARIANTS
  EverythingAccountedFor
  OneRowPerPeriod
  OnlyLastPeriodIsLost
CHECK_DEADLOCK FALSE
