CONSTANTS
  BADADDR = 8
  s1 = s1
  s2 = s2
  Slots = {s1, s2}
  MayHold <- MCMayHold
  Images <- MCImages
  HexTexts <- MCHexTexts
  CodeMasks <- MCCodeMasks
  ByteMasks <- MCByteMasks
  IdaPatterns <- MCIdaPatterns
  Ranges <- MCRanges
SPECIFICATION Spec
INVARIANTS YieldsExact ValuesFaithful
