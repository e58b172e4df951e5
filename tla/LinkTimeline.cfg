\* One or three links, the hard-coded pattern and the files of losses, dice on both sides
\* of a loss; the times lie on both sides of 60, 120, 1000 and 1200 seconds.
CONSTANTS
  Sizes = {1, 3}
  Metrics = {1, 5}
  Dice = {50, 51}
  Losses = {0, 50, 100}
  SimTimes = {40, 60, 64, 120, 124, 1000, 1004, 1200, 1600}
SPECIFICATION Spec
INVARIANTS
  FailuresAsDrawn
  EveryFailureIsHealed
  RoutesRestored
PROPERTIES
  RoutesLagBehind
CHECK_DEADLOCK FALSE
