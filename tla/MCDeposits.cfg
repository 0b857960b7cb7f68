\* Two deposits in batches that wait for a block more than they need.
SPECIFICATION Spec
CONSTANTS
  w1 = w1
  w2 = w2
  d1 = d1
  d2 = d2
  Withdrawals <- Nothing
  Deposits <- TwoDeposits
  FinalizationSeconds = 0
  AllowReproof = FALSE
  AllowRollback = FALSE
  MaxL1Block = 3
  MaxL2Block = 2
  MaxTime = 1
  L1DefaultStartBlock = 1
  L1MinBatchSize = 1
  L1MaxBatchSize = 2
  L2DefaultStartBlock = 1
  L2MinBatchSize = 0
  L2MaxBatchSize = 2
  MaxFaults = 1
  ReadFaults = FALSE
  CheckerFaults = TRUE
INVARIANTS
  StatusJustified
  IndexedBlocksComplete
PROPERTIES
  StatusResetOnlyAfterFault
