\* The client's blocks are smaller than the host's; datagrams are lost,
\* repeated and out of order, and recvfrom may fail.
SPECIFICATION FairSpec
CONSTANTS
  Radix = 4
  BlockSize = 5
  ClientBlock = 4
  NumPackets = 2
  FileSizes <- SizesUpToFiveBlocks
  Faults = {"lose", "duplicate", "reorder", "recv_error"}
  MaxFaults = 2
INVARIANTS TypeOK WrittenWhenDone
PROPERTY HostStops
\* A lost last packet leaves the host in recvfrom.
CHECK_DEADLOCK FALSE
