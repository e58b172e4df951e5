SPECIFICATION Spec
CONSTANTS
  alice = alice
  bob = bob
  carol = carol
  Client = {alice, bob, carol}
  Input <- InputAABC
  MaxFaults = 0
  ServerMayStop = FALSE
  Stoppable = {}
INVARIANTS
  SubscriberMissesNothing
  NoLineLost
CHECK_DEADLOCK FALSE
