\* Is every batch compressed once?
SPECIFICATION Spec
CONSTANTS
  MaxBatches = 3
  BatchCounts = {3}
  MayFail = FALSE
INVARIANT CompressedOnce
