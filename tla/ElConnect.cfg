CONSTANTS
  c1 = c1
  c2 = c2
  Server = Server
  Clients <- TwoClients
  Kinds = {"connect", "reactor", "loop", "receiver", "sender"}
  Disconnecting = {"connect"}
  MaxMr = 5
  DataRoom = 3
  ServerAsks <- OneOrThree
  ClientsAsk = {1, 6}
  ClientsDie = TRUE
SPECIFICATION OrderedSpec
CHECK_DEADLOCK FALSE
INVARIANT TypeOK
INVARIANT ThreadsUseLive
INVARIANT ReadyMeansPrepared
PROPERTY PeerLossNoticed
