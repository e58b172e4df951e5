SPECIFICATION Spec
CONSTANTS
  alice = alice
  bob = bob
  carol = carol
  Client = {alice, bob}
  Input <- InputABA
  MaxFaults = 1
  ServerMayStop = TRUE
  Stoppable = {alice}
INVARIANTS
  AbortOnlyAfterStop
  IInv
PROPERTIES
  StoppedStaysSilent
CHECK_DEADLOCK FALSE
