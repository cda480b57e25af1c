CONSTANTS
  BADNODE = 35
  Nodes <- OneNode
  Names = {"a"}
  Keys = {1, 2, 3}
  CStr <- MCCStr
  Indices = {0, 2, 35}
  Starts = {0, 1}
  Tags = {"S", "X"}
  Cap = 3
  Base = 6
  Width = 2
  Objects <- MCObjects
  Integers64 = {18}
  PutTypes = {"u8"}
  MaxObjects = 2
SPECIFICATION Spec
INVARIANTS AltvalsWalked
PROPERTIES KeyedByString BlobsApart
VIEW Store
CHECK_DEADLOCK FALSE
