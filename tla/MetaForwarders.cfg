SPECIFICATION Spec
CONSTANTS
  A = A
  B = B
  C = C
  F = F
  Machine = {A, B, C, F}
  Forwarder = {C, F}
  Station <- LanStation
  Neighbor <- TwoForwarders
  MaxNodes = 4
  MaxHops = 2
  EarlyQuits = FALSE
  MaxExtras = 1
INVARIANTS NodesArePlayers
CHECK_DEADLOCK FALSE
