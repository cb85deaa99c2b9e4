SPECIFICATION FairSpec
CONSTANTS
  W = 5
  RING = 2
  LeadAuto = 1
  LeadSingle = 1
  HOLD = 1
  STEP = 1
  PHASES = 1
  Sizes <- OnlyTwo
  Lengths <- OnlyTwo
  Commands <- AutoDriver
CHECK_DEADLOCK FALSE
INVARIANTS CountAgrees
PROPERTIES CompletionRaised
