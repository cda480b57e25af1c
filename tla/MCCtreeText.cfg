CONSTANTS
  Inputs <- MCInputs
SPECIFICATION Spec
INVARIANTS ReparsesElse ReparsesGlued
