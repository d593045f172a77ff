SPECIFICATION LiveSpec
CONSTANTS
  H = H  G = G  Client = {H, G}  Host = H
  ipxsocket <- TwoGames
  MAXNETNODES = 2  MaxTries = 2
  Limits <- MCLimits
INVARIANTS OtherGamesIgnored
CHECK_DEADLOCK FALSE
