CONSTANTS
  Conns = {c1, c2, c3, c4}
  Listener = Listener
  NoConn = NoConn
  MaxConnections = 3
  Patient = TRUE
SPECIFICATION FairSpec
CHECK_DEADLOCK FALSE
INVARIANT TypeOK
INVARIANT ReceiveReady
INVARIANT HandlerFindsBuffer
PROPERTY EveryMessageHandled
