SPECIFICATION Spec
INVARIANTS
  OneClaim
  KernelAffinity
  InitializedOnce
  RunLeavesClosed
  CallHasJob
CONSTANTS
  Thread = {t1, t2, t3}
  NoHost = NoHost
  Reentrant = TRUE
CHECK_DEADLOCK FALSE
