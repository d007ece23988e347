CONSTANTS
  t1 = t1
  t2 = t2
  p = p
  Poller = p
  Threads <- TwoThreads
  Calls <- QueuePerThread
  Chains <- TwoChains
  SendDepth = 2
  RecvDepth = 2
  CqDepth = 4
  Window = 2
  Wrap = 7
  CanFail = FALSE
SPECIFICATION FairSpec
INVARIANT TypeOK
INVARIANT SyncReturnsAfterCompletion
INVARIANT WithinCapacity
PROPERTY CompletionsAdvance
PROPERTY SyncSendReturns
