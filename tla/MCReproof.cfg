\* Repeated proofs and rollbacks; the start block may be read as missing.
SPECIFICATION Spec
CONSTANTS
  w1 = w1
  w2 = w2
  d1 = d1
  d2 = d2
  Withdrawals <- OneWithdrawal
  Deposits <- Nothing
  FinalizationSeconds = 1
  AllowReproof = TRUE
  AllowRollback = TRUE
  MaxL1Block = 4
  MaxL2Block = 1
  MaxTime = 3
  L1DefaultStartBlock = 1
  L1MinBatchSize = 0
  L1MaxBatchSize = 2
  L2DefaultStartBlock = 1
  L2MinBatchSize = 0
  L2MaxBatchSize = 1
  MaxFaults = 1
  ReadFaults = TRUE
  CheckerFaults = FALSE
INVARIANTS
  StatusJustified
  IndexedBlocksComplete
  ProofTimeCurrent
PROPERTIES
  LoopsFollowFlow
