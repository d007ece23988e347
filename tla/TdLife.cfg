CONSTANTS
  MaxPosted = 3
  Answering = {TRUE, FALSE}
  DrainFirst = TRUE
  ReadOnce = TRUE
SPECIFICATION FairSpec
CHECK_DEADLOCK FALSE
INVARIANT TypeOK
INVARIANT PollerOutlived
INVARIANT CallbackUsesLiveQp
PROPERTY StopIsHonoured
