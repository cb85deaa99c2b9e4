SPECIFICATION FairSpec
CONSTANTS
  W = 5
  RING = 2
  LeadAuto = 1
  LeadSingle = 1
  HOLD = 1
  STEP = 1
  PHASES = 1
  Sizes <- OnlyOne
  Lengths <- OnlyOne
  Commands <- AutoDriver
CHECK_DEADLOCK FALSE
PROPERTIES CompletionRaised
