\* One sender; the listener comes back once.
SPECIFICATION Spec
CONSTANTS
  Sender = {7}
  BodyLengths = {0, 1, 4}
  MaxMessages = 2
  SenderReconnects = 0
  ListenerReconnects = 1
  MaxDrops = 0
INVARIANT
  TraceNamesMessages
CHECK_DEADLOCK FALSE
