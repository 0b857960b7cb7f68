\* Two withdrawals in one batch: partial writes, lists of two documents.
SPECIFICATION Spec
CONSTANTS
  w1 = w1
  w2 = w2
  d1 = d1
  d2 = d2
  Withdrawals <- TwoWithdrawals
  Deposits <- Nothing
  FinalizationSeconds = 0
  AllowReproof = FALSE
  AllowRollback = FALSE
  MaxL1Block = 3
  MaxL2Block = 2
  MaxTime = 2
  L1DefaultStartBlock = 1
  L1MinBatchSize = 0
  L1MaxBatchSize = 3
  L2DefaultStartBlock = 1
  L2MinBatchSize = 0
  L2MaxBatchSize = 2
  MaxFaults = 1
  ReadFaults = FALSE
  CheckerFaults = FALSE
SYMMETRY SwapWithdrawals
INVARIANTS
  StatusJustified
  IndexedBlocksComplete
