\* Is all of the file compressed?
SPECIFICATION Spec
CONSTANTS
  MinSize = 2
  ChunkSize = 4
  WinSize = 2
  Prime = 3
  PrimeWinSizePower = 3
  BlockBytes = 4
  LengthBytes = 1
  Radix = 3
  CodeSpace = 5
  LowSpace = 2
  MiddleSpace = 2
  Buckets = {0, 1}
  Hash <- KeysToBuckets
  Ways = 2
  Store = 3
  Width = 2
  Files <- SomeFiles
  BlockSize = 2
  NumPackets = 4
INVARIANT WholeFileCompressed
