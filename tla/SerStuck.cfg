SPECIFICATION LineLiveSpec
CONSTANTS
  QueSize = 8
  TxLen = 2
  MaxPacket = 3
  Contents <- ThreePackets
  MaxNoise = 0
PROPERTIES ReceiveResumes
