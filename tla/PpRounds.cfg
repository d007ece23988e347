CONSTANTS
  Rounds = 3
  ReadOnce = TRUE
SPECIFICATION FairSpec
CHECK_DEADLOCK FALSE
INVARIANT TypeOK
INVARIANT ReceiverReady
INVARIANT AnswersOnLiveQp
PROPERTY RoundTripsInStep
PROPERTY RoundsEnd
