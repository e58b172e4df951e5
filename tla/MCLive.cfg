SPECIFICATION FairSpec
CONSTANTS
  alice = alice
  bob = bob
  carol = carol
  Client = {alice, bob}
  Input <- InputABA
  MaxFaults = 1
  ServerMayStop = FALSE
  Stoppable = {}
PROPERTIES
  InputDrained
  RoomConverges
  ChatRoomImplemented
  TracesImplemented
CHECK_DEADLOCK FALSE
