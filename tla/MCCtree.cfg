CONSTANTS
  Inputs <- MCInputs
SPECIFICATION Spec
INVARIANTS WalkOutcome TreeSound Faithful Reparses
