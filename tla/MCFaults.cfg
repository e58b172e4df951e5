SPECIFICATION Spec
CONSTANTS
  alice = alice
  bob = bob
  carol = carol
  Client = {alice, bob}
  Input <- InputABA
  MaxFaults = 2
  ServerMayStop = FALSE
  Stoppable = {}
INVARIANTS
  TypeOK
  HeardInOrder
  SubscriberMissesNothing
  LinesNeverRepeated
  OneChainPerConnection
  ConnectionStateAgrees
CHECK_DEADLOCK FALSE
