\* Three documents with all orders and ties of their block times, and two with
\* all their statuses and records.
SPECIFICATION ApiSpec
CONSTANTS
  w1 = w1
  d1 = d1
  d2 = d2
  NotANumber = NotANumber
  Withdrawals = {w1}
  Deposits = {d1, d2}
  Pages <- MCPages
  PageSizes <- MCPageSizes
  Filters <- MCFilters
  Worlds <- MCWorlds
  IntLimit = 16
SYMMETRY Symmetry
INVARIANTS
  TypeOK
  WalkMissesNothing
  PagesFilledUpToTotal
  RelayReadyRowsHaveProof
  TabsAddUp
