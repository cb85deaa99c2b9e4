SPECIFICATION Spec
CONSTANTS
  SECTORS = 3
  BURST = 2
  VERSIONS = 2
  RUN = 2
  TX = 1
  RX = 1
  DOWN = 1
  MEM = 4
  COUNTS = 2
  SLOTS = 2
  Strays <- SomeStrays
  Overrun = FALSE
  Pauses = FALSE
CHECK_DEADLOCK FALSE
INVARIANTS Coherent NeverHangs
PROPERTIES Transparent
