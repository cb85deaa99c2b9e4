SPECIFICATION CpuSpec
CONSTANTS
  PAGES = 2
  SPAN = 2
  SAID = 3
  TLB = 1
  FRAMES = 2
  Roots <- OneRoot
  Entries <- TwoEntries
  PAGE = 2
  Ram <- TwoPages
  Linear <- TwoPages
  Modes <- AllModes
  PagedModes <- Virtual
  Flat <- Masked
  Outs <- Gate
  Ways <- TwoWays
  SetOf <- OneSet
  Traces <- SomeTraces
  Stores <- AnyStore
  NativeStores <- OneByte
  GuardSets = 2
  HOME = 2
  LENT = 3
  RESERVE = 2
  R = 32
  Systems <- SomeSystems
  Gdt <- TheGdt
  Idt <- TheIdt
  PARAMS = 1
  Called <- SomeCalled
  Movable <- SomeMovable
  DEPTH = 2
CHECK_DEADLOCK FALSE
INVARIANTS NoneExecuting
