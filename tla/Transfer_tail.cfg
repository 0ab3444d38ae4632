\* Is all that arrived compressed?
SPECIFICATION Spec
CONSTANTS
  Radix = 4
  BlockSize = 2
  ClientBlock = 2
  NumPackets = 2
  FileSizes <- SizesOfWholeBlocks
  Faults = {}
  MaxFaults = 0
INVARIANT AllCompressed
