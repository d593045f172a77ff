SPECIFICATION FairSpec
CONSTANTS
  NumNodes = 4
  Packets = {a, b, big}
  Oversize = {big}
  MaxSends = 3
INVARIANTS TypeOK NothingLostOrRepeated
PROPERTIES ImplementsOrder NeverHeldUp
