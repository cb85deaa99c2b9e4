SPECIFICATION NestSpec
CONSTANTS
  N = 3
  CASCADE = 1
  Lines <- AllLines
  Bases <- NoWrites
  ImrValues <- SomeMasks
  Ocw2 <- OnlyEoi
  Ocw3 <- NoWrites
  Icw1 <- NoWrites
  Icw4 <- NoWrites
CHECK_DEADLOCK FALSE
INVARIANTS InRank
PROPERTIES EndRetiresLatest QuietServed
