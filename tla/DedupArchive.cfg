\* Every run of up to five chunks in batches of up to three.
SPECIFICATION Spec
CONSTANTS
  c1 = c1
  c2 = c2
  c3 = c3
  Chunks = {c1, c2, c3}
  Sha <- Fingerprints
  Codes <- ChunkCodes
  MaxBatch = 3
  MaxChunks = 5
  Nothing = Nothing
  MayFail = {TRUE}
INVARIANTS TypeOK OwnResults DecodesInput SameNumbering StoredOnce
