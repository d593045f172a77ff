SPECIFICATION LiveSpec
CONSTANTS
  peer <- Three
  Buffers = 2  SeqMod = 3  MaxLen = 2
  MagicSeq = 1  MagicNum = 7  MagicFnum = 14
  Limits <- Limits_Three
INVARIANTS TypeOK  NothingLost
PROPERTIES AllDiscover
CHECK_DEADLOCK FALSE
