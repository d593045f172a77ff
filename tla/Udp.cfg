SPECIFICATION LiveSpec
CONSTANTS
  H = H  G = G  Client = {H, G}  Host = H
  ipxsocket <- OneGame
  MAXNETNODES = 2  MaxTries = 2
  Limits <- MCLimits
INVARIANTS TypeOK ConnectedIsListed OnlyClientsHeard
PROPERTIES GameGoesOn AllHear
CHECK_DEADLOCK FALSE
