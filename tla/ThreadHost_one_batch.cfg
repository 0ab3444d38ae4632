\* Does the program end with a single batch?
SPECIFICATION FairSpec
CONSTANTS
  MaxBatches = 3
  BatchCounts = {1}
  MayFail = FALSE
PROPERTY Ends
CHECK_DEADLOCK FALSE
