SPECIFICATION Spec
CONSTANTS
  N = 2
  CASCADE = 1
  Lines <- BothFirst
  Bases <- OneBase
  ImrValues <- NoWrites
  Ocw2 <- Rotating
  Ocw3 <- PollOnly
  Icw1 <- Boots
  Icw4 <- AutoEoi
CHECK_DEADLOCK FALSE
INVARIANTS IntrCoversRequest
PROPERTIES AcceptSelected RequestKept
