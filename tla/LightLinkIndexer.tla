--------------------------- MODULE LightLinkIndexer ---------------------------
(***************************************************************************)
(* The goroutine indexLightLink.  It indexes L2 in batches of blocks: the  *)
(* withdrawals of the batch first, then the RelayedMessage logs, and last  *)
(* the record of the batch's end.                                          *)
(***************************************************************************)
EXTENDS TransactionStore, Batches

CONSTANTS
  L2DefaultStartBlock,  \* L2_DEFAULT_START_BLOCK
  L2MinBatchSize,       \* L2_MIN_BATCH_SIZE
  L2MaxBatchSize        \* L2_MAX_BATCH_SIZE

ASSUME LightLinkIndexerAssumption ==
  /\ L2DefaultStartBlock \in Nat
  /\ L2MinBatchSize \in Nat
  /\ L2MaxBatchSize \in Nat \ {0}

VARIABLES
  llPc,     \* where the goroutine is, see LlPcs
  llStart,  \* local variable start
  llEnd,    \* local variable end
  llTodo    \* RelayedMessage logs its iterator has still to be done with

llVars == << llPc, llStart, llEnd, llTodo >>

LlBatchPcs == {"withdrawals", "relayed", "cursor"}
LlRunningPcs == {"start", "select"} \cup LlBatchPcs
LlPcs == {"down", "failed"} \cup LlRunningPcs

LlTypeOK ==
  /\ llPc \in LlPcs
  /\ llStart \in Nat
  /\ llEnd \in Nat
  /\ llTodo \subseteq relayLogs

\* The locals are those of a goroutine that does not run.
LlIdle == llStart' = 0 /\ llEnd' = 0 /\ llTodo' = {}

LlInit ==
  /\ llPc = "start"
  /\ llStart = 0 /\ llEnd = 0 /\ llTodo = {}

-----------------------------------------------------------------------------
\* lastIndexed is what GetLastIndexedBlock returned.
LlStart(lastIndexed) ==
  /\ llPc = "start"
  /\ llStart' = ResumeBlock(lastIndexed, L2DefaultStartBlock)
  /\ llPc' = "select"
  /\ UNCHANGED << llEnd, llTodo, storeVars >>

LlWait ==
  /\ llPc = "select"
  /\ ~BatchReady(llStart, l2Head, L2MinBatchSize)
  /\ UNCHANGED << llVars, storeVars >>

LlSelectBatch ==
  /\ llPc = "select"
  /\ BatchReady(llStart, l2Head, L2MinBatchSize)
  /\ llEnd' = BatchEnd(llStart, l2Head, L2MaxBatchSize)
  /\ llPc' = "withdrawals"
  /\ UNCHANGED << llStart, llTodo, storeVars >>

-----------------------------------------------------------------------------
WithdrawalsInBatch ==
  {l.withdrawal : l \in Filter(withdrawalLogs, llStart, llEnd)}

IndexL2Withdrawals ==
  /\ llPc = "withdrawals"
  /\ BatchCreateTransactions(WithdrawalsInBatch, "STATE_ROOT_NOT_PUBLISHED")
  /\ llTodo' = Filter(relayLogs, llStart, llEnd)
  /\ llPc' = "relayed"
  /\ UNCHANGED << llStart, llEnd, transactionsProven, transactionsFinalized,
                  lastIndexedBlock >>

\* Mutant: the error of the BulkWrite is not returned.
IndexL2WithdrawalsIgnoresError(written) ==
  /\ llPc = "withdrawals"
  /\ written \subseteq WithdrawalsInBatch
  /\ BatchCreateTransactions(written, "STATE_ROOT_NOT_PUBLISHED")
  /\ llPc' = "relayed"
  /\ UNCHANGED << llStart, llEnd, llTodo, transactionsProven,
                  transactionsFinalized, lastIndexedBlock >>

\* The unordered BulkWrite fails with some of its upserts done.
IndexL2WithdrawalsFails(written) ==
  /\ llPc = "withdrawals"
  /\ written \subseteq WithdrawalsInBatch
  /\ BatchCreateTransactions(written, "STATE_ROOT_NOT_PUBLISHED")
  /\ llPc' = "failed"
  /\ LlIdle
  /\ UNCHANGED << transactionsProven, transactionsFinalized,
                  lastIndexedBlock >>

\* indexL2RelayedMessages
RelayedMessage(log) ==
  /\ llPc = "relayed"
  /\ IsNextLog(log, llTodo)
  /\ UpdateTransactionByMessageHash(log.deposit)
  /\ llTodo' = llTodo \ {log}
  /\ UNCHANGED << llPc, llStart, llEnd, transactionsProven,
                  transactionsFinalized, lastIndexedBlock >>

RelayedDone ==
  /\ llPc = "relayed"
  /\ llTodo = {}
  /\ llPc' = "cursor"
  /\ UNCHANGED << llStart, llEnd, llTodo, storeVars >>

\* Mutant: the next batch starts with the last block of this one.
LlAdvanceInclusive ==
  /\ llPc = "cursor"
  /\ UpdateLastIndexedBlock("lightlink", llEnd)
  /\ llStart' = llEnd
  /\ llPc' = "select"
  /\ UNCHANGED << llEnd, llTodo, status, transactionsProven,
                  transactionsFinalized >>

LlAdvance ==
  /\ llPc = "cursor"
  /\ UpdateLastIndexedBlock("lightlink", llEnd)
  /\ llStart' = llEnd + 1
  /\ llPc' = "select"
  /\ UNCHANGED << llEnd, llTodo, status, transactionsProven,
                  transactionsFinalized >>

-----------------------------------------------------------------------------
\* Any call of the loop may return an error, and the goroutine returns it.
LlFail ==
  /\ llPc \in LlRunningPcs \ {"start"}
  /\ llPc' = "failed"
  /\ LlIdle
  /\ UNCHANGED storeVars

LlStep ==
  \/ LlStart(lastIndexedBlock["lightlink"])
  \/ LlSelectBatch
  \/ IndexL2Withdrawals
  \/ \E log \in llTodo : RelayedMessage(log)
  \/ RelayedDone
  \/ LlAdvance
=============================================================================
