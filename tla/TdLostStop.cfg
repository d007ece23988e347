CONSTANTS
  MaxPosted = 1
  Answering = {FALSE}
  DrainFirst = FALSE
  ReadOnce = FALSE
SPECIFICATION FairSpec
CHECK_DEADLOCK FALSE
PROPERTY TeardownCompletes
