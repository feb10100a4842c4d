CONSTANTS
  PayloadSizes <- MCSizes
  TooLarge = 7
  BufferSize = 6
  MaxFd = 5
  MaxPackets = 3
SPECIFICATION FairSpec
INVARIANTS
  TypeOK
  BufferHoldsPacket
  SocketIsOpen
  DescriptorsBounded
PROPERTIES
  WholePackets
  PacketsArrive
