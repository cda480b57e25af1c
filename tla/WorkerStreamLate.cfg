CONSTANTS
  NCases = 2
  Prints = {"late"}
  MaxPrints = 1
  MsgLens = {0}
  MaxFaults = 0
SPECIFICATION Spec
INVARIANTS OutputIsOwn
