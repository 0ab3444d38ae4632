\* Any number of batches up to four, none included.
SPECIFICATION FairSpec
CONSTANTS
  MaxBatches = 4
  BatchCounts = {0, 1, 2, 3, 4}
  MayFail = TRUE
INVARIANTS TypeOK NoDataRace WholeBatch ExitAfterFirstBatch HangsOnlyWithoutSecondBatch
PROPERTIES ImplementsHandoff EndsWithTwoBatches
\* With no batch or one the threads may end up waiting for each other.
CHECK_DEADLOCK FALSE
