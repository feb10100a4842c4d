CONSTANTS
  PayloadSizes <- MCSizes
  TooLarge = 7
  BufferSize = 6
  MaxFd = 5
  MaxPackets = 1
SPECIFICATION FairSpec
INVARIANT
  ConnectFalseMeansError
