\* Does Run wait for both indexers?
SPECIFICATION FairSpec
INVARIANTS
  RunWaitsForBoth
CHECK_DEADLOCK FALSE
