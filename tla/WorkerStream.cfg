CONSTANTS
  NCases = 2
  Prints = {"line", "text", "late", "lateText", "lateJunk"}
  MaxPrints = 2
  MsgLens = {0, 1}
  MaxFaults = 1
SPECIFICATION FairSpec
INVARIANTS ResultFromOwnFrame OutputAttributed EndedIsReported FrameBeatsDeadline
PROPERTIES LeaseAnswered
