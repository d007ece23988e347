CONSTANTS
  c1 = c1
  c2 = c2
  m1 = m1
  m2 = m2
  None = None
  Conns <- TwoConns
  EventSize = 2
  Chunks <- TwoChunks
  MaxPosts = 3
  AddMayFail = FALSE
  Ending = "done"
SPECIFICATION Spec
CHECK_DEADLOCK FALSE
INVARIANT HandledIsLive
