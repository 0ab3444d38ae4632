\* The test bench on files of any number of pieces: chunks of up to six
\* bytes, pairs of up to three, with memories that overflow.
SPECIFICATION BenchSpec
CONSTANTS
  Radix = 2
  MaxLength = 6
  MaxPair = 3
  Inputs <- AllInputs
  Pieces <- SomePieces
  CodeSpace = 8
  LowSpace = 2
  MiddleSpace = 2
  Buckets = {0, 1}
  Hash <- SkewedHash
  Ways = 1
  Store = 2
INVARIANTS TypeOK MatchesGolden FailsBeyondCapacity OnlyFailsForRoom
PROPERTY ImplementsEncoder
