CONSTANTS
  t1 = t1
  t2 = t2
  p = p
  Poller = p
  Threads <- OneThread
  Calls <- Echo
  Chains <- NoChains
  SendDepth = 2
  RecvDepth = 2
  CqDepth = 4
  Window = 2
  Wrap = 7
  CanFail = TRUE
SPECIFICATION Spec
CHECK_DEADLOCK FALSE
INVARIANT SyncReturnsAfterCompletion
INVARIANT FailuresNeverCountAsDone
PROPERTY CompletionsAdvance
