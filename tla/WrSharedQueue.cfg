CONSTANTS
  t1 = t1
  t2 = t2
  p = p
  Poller = p
  Threads <- TwoThreads
  Calls <- SharedQueue
  Chains <- NoChains
  SendDepth = 2
  RecvDepth = 2
  CqDepth = 4
  Window = 2
  Wrap = 7
  CanFail = FALSE
SPECIFICATION Spec
INVARIANT SyncReturnsAfterCompletion
