\* The end of the process, in every order of returns, receipts and a signal.
SPECIFICATION FairSpec
INVARIANTS
  TypeOK
  ErrorOfOnlyIndexerReported
  SendersNeverBlock
  IndexesBeforeIndexing
PROPERTIES
  ProcessEnds
\* Once main has returned nothing runs any more.
CHECK_DEADLOCK FALSE
