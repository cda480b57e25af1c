CONSTANTS
  NCases = 2
  Prints = {"text"}
  MaxPrints = 1
  MsgLens = {0, 1}
  MaxFaults = 0
SPECIFICATION Spec
INVARIANTS EveryFrameFound
