\* One deposit, no fault: is its relay ever shown?
SPECIFICATION FairSpec
CONSTANTS
  w1 = w1
  w2 = w2
  d1 = d1
  d2 = d2
  Withdrawals <- Nothing
  Deposits <- OneDeposit
  FinalizationSeconds = 0
  AllowReproof = FALSE
  AllowRollback = FALSE
  MaxL1Block = 1
  MaxL2Block = 1
  MaxTime = 1
  L1DefaultStartBlock = 1
  L1MinBatchSize = 0
  L1MaxBatchSize = 2
  L2DefaultStartBlock = 1
  L2MinBatchSize = 0
  L2MaxBatchSize = 2
  MaxFaults = 0
  ReadFaults = FALSE
  CheckerFaults = TRUE
PROPERTIES
  RelayedDepositsShown
