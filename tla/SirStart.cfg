SPECIFICATION StartSpec
CONSTANTS
  N = 2
  QueueLen = 3
  Kinds <- OnlyFlood
  MaxTics = 0
  MaxLosses = 1
  MaxRegenerations = 1
  Setups <- SomeSetups
  Continued <- JustPair
INVARIANTS  GamesAgree
PROPERTIES  QueuesDrain
CHECK_DEADLOCK FALSE
