CONSTANTS
  NCases = 3
  Workers = 2
  Group = {g1, g2}
  NoGroup = NoGroup
  MaxFaults = 1
  Faults = {"spawn"}
SPECIFICATION Spec
INVARIANTS StrandsOnlyItsOwn
