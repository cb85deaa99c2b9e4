SPECIFICATION Spec
CONSTANTS
  W = 9
  RING = 4
  LeadAuto = 2
  LeadSingle = 1
  HOLD = 2
  STEP = 1
  PHASES = 1
  Sizes <- OnlyOne
  Lengths <- OnlyOne
  Commands <- Changing
CHECK_DEADLOCK FALSE
INVARIANTS NeverPassed
PROPERTIES ResetSilences
VIEW Turned
