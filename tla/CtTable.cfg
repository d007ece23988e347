CONSTANTS
  c1 = c1
  c2 = c2
  c3 = c3
  r1 = r1
  NoConn = NoConn
  Conns <- ThreeConns
  Readers <- OneReader
  MaxConnections = 2
  LookupFds <- SomeFds
  Searches <- AllSearches
  Queries <- AllQueries
  KeepsOpen = TRUE
SPECIFICATION Spec
CHECK_DEADLOCK FALSE
INVARIANT TypeOK
INVARIANT MapNamesOwner
INVARIANT UsesOpenContext
INVARIANT SearchFindsOpen
PROPERTY AllocatorSpec
