\* Equal blocks; datagrams lost, repeated and out of order.
SPECIFICATION BothSpec
CONSTANTS
  Radix = 4
  BlockSize = 5
  ClientBlock = 5
  NumPackets = 2
  FileSizes <- SizesUpToFiveBlocks
  Faults = {"lose", "duplicate", "reorder"}
  MaxFaults = 2
  RingSlots = 3
  PipeDepth = 1
INVARIANTS ReceivedStream WrittenWhenDone SameBytes
PROPERTIES FullBatches WaitsOnlyForLost
\* A lost last packet leaves the host in recvfrom.
CHECK_DEADLOCK FALSE
