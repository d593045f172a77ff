SPECIFICATION LiveSpec
CONSTANTS
  A = A
  B = B
  C = C
  F = F
  Machine = {A, B, F}
  Forwarder = {F}
  Station <- LanStation
  Neighbor <- Chain
  MaxNodes = 4
  MaxHops = 2
  EarlyQuits = FALSE
  MaxExtras = 1
INVARIANTS TypeOK RoutesAreTrue LaunchesComplete PlayersAgree NodesArePlayers
PROPERTIES AllLaunch
CHECK_DEADLOCK FALSE
