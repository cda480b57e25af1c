SPECIFICATION FairSpec
PROPERTIES
  CallAnswered
  RunReturns
CONSTANTS
  Thread = {t1, t2}
  NoHost = NoHost
  Reentrant = FALSE
CHECK_DEADLOCK FALSE
