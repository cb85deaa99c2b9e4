SPECIFICATION AnySpec
CONSTANTS
  BATCH = 4
  DEPTH = 2
  QUEUE = 4
  MARGIN = 1
  BUDGET = 4
  CYLS = 2
  SECTORS = 2
  SWAPS = 2
  Asked <- SomeTransfers
  FRESH = FRESH
  BLOCKS = 5
  WORDS = 2
  HEADS = 2
  TRACK = 2
  VALUES = 4
  MAXMULT = 2
  DIRTY = 0
  HdAsked <- SomeRuns
  Multiples <- SomeMultiples
  STORED = FRESH
  DISC = 2
  SECTOR = 3
  LONGEST = 2
  Limits <- SomeLimits
  UNREAD = FRESH
  RADIX = 28
  N = 4
  D = 3
  BYTE = 2
  CATCHUP = 2
  PAUSE = 3
  LOADS = 2
  WINDOW = 8
  RAM = 32
  LENT = 24
  Latches <- SomeLatches
  Patterns <- SomePatterns
  Sequencer <- SomeSequencer
  Graphics <- SomeGraphics
  Alu <- SomeAlu
  BANKS = 4
  Disables = FALSE
  DriveTable <- SomeDrives
  Images = {disk, cd, odd, long}
  Iso = {cd}
  Opens = {disk, cd, odd}
  Sized = {disk, cd}
  NONE = NONE
  SAME = SAME
  SwapsKind = FALSE
CHECK_DEADLOCK FALSE
INVARIANTS DevicesTypeOK HostsInStep NoLostWakeup PrefixKept NeverEarly DriverInStep NeverBetween DirectIsInterpreted AccessesAgree LentStaysLent GeometryFits
PROPERTIES DisksStream Delivered TicksArrive Served Answered SavedComesBack
