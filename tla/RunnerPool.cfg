CONSTANTS
  NCases = 3
  Workers = 2
  Group = {g1, g2}
  NoGroup = NoGroup
  MaxFaults = 2
  Faults = {"die", "hang", "malformed", "spawn"}
SPECIFICATION FairSpec
INVARIANTS OneHolder ReturnsEveryCase WorkersExact NeverReopens OneCasePerFault
PROPERTIES RunReturns KeepsPromise
