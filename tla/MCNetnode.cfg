CONSTANTS
  BADNODE = 35
  Nodes <- MCNodes
  Names = {"a", "b"}
  Keys = {1, 2, 3}
  CStr <- MCCStr
  Indices = {0, 2, 35}
  Starts = {0, 7}
  Tags = {"S", "X"}
  Cap = 3
  Base = 6
  Width = 2
  Objects <- MCObjects
  Integers64 = {18}
  PutTypes = {"u8", "u64", "bool", "String"}
  MaxObjects = 2
SPECIFICATION Spec
INVARIANTS WalksWhole
PROPERTIES Implements TypedRoundTrip
VIEW Store
CHECK_DEADLOCK FALSE
