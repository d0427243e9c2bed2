CONSTANTS
  PACKET_SIZE = 2
  HEADER_TIMEOUT = 3
  PACKET_TIMEOUT = 2
  Sizes = {0, 1, 2, 3, 4, 5}
SPECIFICATION FairSpec
INVARIANTS
  PassMeansStored
  OnlyOwnPacket
PROPERTIES
  ReadReturns
