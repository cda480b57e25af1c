SPECIFICATION Spec
INVARIANT FlagTellsTruth
CONSTANTS
  Thread = {t1, t2}
  NoHost = NoHost
  Reentrant = FALSE
CHECK_DEADLOCK FALSE
