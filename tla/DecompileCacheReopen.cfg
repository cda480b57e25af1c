SPECIFICATION Spec
INVARIANT ReadyForThisDatabase
CONSTANTS
  Addr = {1, 2, 3, 4, 5}
  NoAddr = 0
  FuncStart <- MCFuncStart
  Xref <- MCXref
  MaxPatch = 1
  Reopens = TRUE
