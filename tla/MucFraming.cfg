\* Two senders, empty bodies and bodies of two words, a packet that
\* is not taken, and a reconnection of either side.
SPECIFICATION Spec
CONSTANTS
  Listener = 9
  Sender = {7, 8}
  BodyLengths = {0, 2}
  MaxMessages = 3
  SenderReconnects = 1
  ListenerReconnects = 1
  MaxDrops = 1
INVARIANTS
  RelaysWhatWasSent
  ReportsWhatWasRelayed
  NothingLeftBehind
  OnlyGaps
PROPERTIES
  RoomImplemented
CHECK_DEADLOCK FALSE
