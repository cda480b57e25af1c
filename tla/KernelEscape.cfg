SPECIFICATION FairSpec
PROPERTY RunReturnsWithApp
CONSTANTS
  Thread = {t1, t2}
  NoHost = NoHost
  Reentrant = FALSE
CHECK_DEADLOCK FALSE
