SPECIFICATION Spec
CONSTANTS
  SECTORS = 3
  BURST = 2
  VERSIONS = 2
  RUN = 2
  TX = 1
  RX = 2
  DOWN = 1
  MEM = 4
  COUNTS = 2
  SLOTS = 2
  Strays <- NoStrays
  Overrun = TRUE
  Pauses = FALSE
CHECK_DEADLOCK FALSE
PROPERTIES Transparent
