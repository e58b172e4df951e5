\* Three applications, one of which may be stopped.
SPECIFICATION FairSpec
CONSTANTS
  alice = alice
  bob = bob
  carol = carol
  Client = {alice, bob, carol}
  Input <- InputABACABA
  RequestData = TRUE
  Stoppable = {alice}
INVARIANTS
  ReportedInSequence
  NeverAhead
  InterestsHaveData
  NoLineLost
PROPERTIES
  TracesImplemented
  EveryoneHears
CHECK_DEADLOCK FALSE
