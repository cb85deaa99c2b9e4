SPECIFICATION Spec
CONSTANTS
  W = 9
  RING = 4
  LeadAuto = 2
  LeadSingle = 1
  HOLD = 2
  STEP = 1
  PHASES = 1
  Sizes <- OnlyTwo
  Lengths <- OnlyTwo
  Commands <- Polling
CHECK_DEADLOCK FALSE
INVARIANTS LineDismissable
