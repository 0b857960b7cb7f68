\* One withdrawal through its whole life, with a crash or an error anywhere.
SPECIFICATION Spec
CONSTANTS
  w1 = w1
  w2 = w2
  d1 = d1
  d2 = d2
  Withdrawals <- OneWithdrawal
  Deposits <- Nothing
  FinalizationSeconds = 1
  AllowReproof = FALSE
  AllowRollback = FALSE
  MaxL1Block = 3
  MaxL2Block = 2
  MaxTime = 3
  L1DefaultStartBlock = 1
  L1MinBatchSize = 0
  L1MaxBatchSize = 2
  L2DefaultStartBlock = 1
  L2MinBatchSize = 0
  L2MaxBatchSize = 1
  MaxFaults = 1
  ReadFaults = FALSE
  CheckerFaults = TRUE
INVARIANTS
  TypeOK
  StatusJustified
  IndexedBlocksComplete
PROPERTIES
  StatusResetOnlyAfterFault
  LastIndexedBlockMonotone
  ImplementsStatusMirror
