\* Every batch of up to 11 bytes, two of which make a chunk at least.
SPECIFICATION Spec
CONSTANTS
  MinSize = 1
  ChunkSize = 4
  Gear <- TwoWords
  Word = 16
  MaxLength = 11
  Buffers <- AllBuffers
  MaxSlots = 8
INVARIANTS TypeOK ChunksCover ChunkSizes FitsChunkIndices SameContentSameCut
