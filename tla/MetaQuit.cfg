SPECIFICATION Spec
CONSTANTS
  A = A
  B = B
  C = C
  F = F
  Machine = {A, B, F}
  Forwarder = {F}
  Station <- LanStation
  Neighbor <- Chain
  MaxNodes = 4
  MaxHops = 2
  EarlyQuits = FALSE
  MaxExtras = 0
INVARIANTS QuitIsTrue
CHECK_DEADLOCK FALSE
