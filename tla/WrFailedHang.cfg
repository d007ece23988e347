CONSTANTS
  t1 = t1
  t2 = t2
  p = p
  Poller = p
  Threads <- OneThread
  Calls <- OneSync
  Chains <- NoChains
  SendDepth = 2
  RecvDepth = 2
  CqDepth = 4
  Window = 2
  Wrap = 7
  CanFail = TRUE
SPECIFICATION FairSpec
PROPERTY SyncSendReturns
CHECK_DEADLOCK FALSE
