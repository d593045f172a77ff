SPECIFICATION DriverSpec
CONSTANTS
  Random = {0, 7}
  MaxLink = 3
  MaxLosses = 1
  QueSize = 8
  TxLen = 2
  MaxPacket = 3
  Contents <- ThreePackets
  MaxNoise = 1
  NUM_RX_BUFFERS = 4  MaxWrites <- OneSided  MaxFailures = 1
INVARIANTS DriverTypeOK LaunchesAsAgreed Intact Resync 
PROPERTIES ModemsConnect QueueGoesOut
CHECK_DEADLOCK FALSE
