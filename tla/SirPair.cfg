SPECIFICATION Spec
CONSTANTS
  N = 2
  QueueLen = 3
  Kinds <- FloodFrom0
  MaxTics = 2
  MaxLosses = 1
  MaxRegenerations = 1
INVARIANTS TypeOK  TicsInOrder
 
