CONSTANTS
  NCases = 2
  Workers = 1
  Group = {g1, g2}
  NoGroup = NoGroup
  MaxFaults = 1
  Faults = {"malformed"}
SPECIFICATION Spec
INVARIANTS ConcurrencyBound
