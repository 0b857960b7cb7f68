--------------------------- MODULE EthereumIndexer ---------------------------
(***************************************************************************)
(* The goroutine indexEthereum.  It indexes L1 in batches of blocks: the   *)
(* deposits of the batch first, then the WithdrawalProven, the             *)
(* WithdrawalFinalized and the OutputProposed logs, and last the record of *)
(* the batch's end.  Each call to the database or to the portal is a step  *)
(* of its own, so that the other goroutines run in between.  Blocks up to  *)
(* the end of the batch are final, so it does not matter when a Filter     *)
(* call returns; it is made in the step that ends the stage before it.     *)
(***************************************************************************)
EXTENDS TransactionStore, Batches

CONSTANTS
  L1DefaultStartBlock,  \* L1_DEFAULT_START_BLOCK
  L1MinBatchSize,       \* L1_MIN_BATCH_SIZE
  L1MaxBatchSize        \* L1_MAX_BATCH_SIZE

ASSUME EthereumIndexerAssumption ==
  /\ L1DefaultStartBlock \in Nat
  /\ L1MinBatchSize \in Nat
  /\ L1MaxBatchSize \in Nat \ {0}

VARIABLES
  ethPc,     \* where the goroutine is, see EthPcs
  ethStart,  \* local variable start
  ethEnd,    \* local variable end
  ethTodo,   \* logs its iterator has still to be done with
  ethProof   \* the timestamp that ProvenWithdrawals returned, 0 if not called

ethVars == << ethPc, ethStart, ethEnd, ethTodo, ethProof >>

\* The stages of a batch, in order.
EthBatchPcs == {"deposits", "proven", "portal", "record", "finalized",
                "finalizedRecord", "outputs", "cursor"}
EthRunningPcs == {"start", "select"} \cup EthBatchPcs
EthPcs == {"down", "failed"} \cup EthRunningPcs

EthTypeOK ==
  /\ ethPc \in EthPcs
  /\ ethStart \in Nat
  /\ ethEnd \in Nat
  /\ ethTodo \subseteq provenLogs \cup finalizedLogs \cup outputLogs
  /\ ethProof \in 0 .. clock

\* The locals are those of a goroutine that does not run.
EthIdle ==
  /\ ethStart' = 0 /\ ethEnd' = 0
  /\ ethTodo' = {} /\ ethProof' = 0

EthInit ==
  /\ ethPc = "start"
  /\ ethStart = 0 /\ ethEnd = 0
  /\ ethTodo = {} /\ ethProof = 0

-----------------------------------------------------------------------------
\* lastIndexed is what GetLastIndexedBlock returned.  The status checkers are
\* launched here.
EthStart(lastIndexed) ==
  /\ ethPc = "start"
  /\ ethStart' = ResumeBlock(lastIndexed, L1DefaultStartBlock)
  /\ ethPc' = "select"
  /\ UNCHANGED << ethEnd, ethTodo, ethProof, storeVars >>

EthWait ==
  /\ ethPc = "select"
  /\ ~BatchReady(ethStart, l1Head, L1MinBatchSize)
  /\ UNCHANGED << ethVars, storeVars >>

\* Mutant: the batch is recorded before it is processed.
EthSelectAndRecordBatch ==
  /\ ethPc = "select"
  /\ BatchReady(ethStart, l1Head, L1MinBatchSize)
  /\ ethEnd' = BatchEnd(ethStart, l1Head, L1MaxBatchSize)
  /\ UpdateLastIndexedBlock("ethereum", ethEnd')
  /\ ethPc' = "deposits"
  /\ UNCHANGED << ethStart, ethTodo, ethProof, status, transactionsProven,
                  transactionsFinalized >>

EthSelectBatch ==
  /\ ethPc = "select"
  /\ BatchReady(ethStart, l1Head, L1MinBatchSize)
  /\ ethEnd' = BatchEnd(ethStart, l1Head, L1MaxBatchSize)
  /\ ethPc' = "deposits"
  /\ UNCHANGED << ethStart, ethTodo, ethProof, storeVars >>

-----------------------------------------------------------------------------
DepositsInBatch == {l.deposit : l \in Filter(depositLogs, ethStart, ethEnd)}

IndexL1Deposits ==
  /\ ethPc = "deposits"
  /\ BatchCreateTransactions(DepositsInBatch, "UNCONFIRMED_L1_TO_L2_MESSAGE")
  /\ ethTodo' = Filter(provenLogs, ethStart, ethEnd)
  /\ ethPc' = "proven"
  /\ UNCHANGED << ethStart, ethEnd, ethProof, transactionsProven,
                  transactionsFinalized, lastIndexedBlock >>

\* Mutant: the error of a bulk write that was done in part is not returned.
IndexL1DepositsIgnoresError(written) ==
  /\ ethPc = "deposits"
  /\ written \subseteq DepositsInBatch
  /\ BatchCreateTransactions(written, "UNCONFIRMED_L1_TO_L2_MESSAGE")
  /\ ethTodo' = Filter(provenLogs, ethStart, ethEnd)
  /\ ethPc' = "proven"
  /\ UNCHANGED << ethStart, ethEnd, ethProof, transactionsProven,
                  transactionsFinalized, lastIndexedBlock >>

\* The unordered BulkWrite fails with some of its upserts done.
IndexL1DepositsFails(written) ==
  /\ ethPc = "deposits"
  /\ written \subseteq DepositsInBatch
  /\ BatchCreateTransactions(written, "UNCONFIRMED_L1_TO_L2_MESSAGE")
  /\ ethPc' = "failed"
  /\ EthIdle
  /\ UNCHANGED << transactionsProven, transactionsFinalized,
                  lastIndexedBlock >>

-----------------------------------------------------------------------------
\* Mutant: the portal is not asked for the time of the proof.
ProvenSetStatusOnly(log) ==
  /\ ethPc = "proven"
  /\ IsNextLog(log, ethTodo)
  /\ UpdateTransactionStatusByWithdrawalHash(log.withdrawal,
                                             "IN_CHALLENGE_PERIOD")
  /\ ethPc' = "record"
  /\ UNCHANGED << ethStart, ethEnd, ethTodo, ethProof, transactionsProven,
                  transactionsFinalized, lastIndexedBlock >>

(***************************************************************************)
(* indexL1FilterWithdrawalProven.                                          *)
(***************************************************************************)
ProvenSetStatus(log) ==
  /\ ethPc = "proven"
  /\ IsNextLog(log, ethTodo)
  /\ UpdateTransactionStatusByWithdrawalHash(log.withdrawal,
                                             "IN_CHALLENGE_PERIOD")
  /\ ethPc' = "portal"
  /\ UNCHANGED << ethStart, ethEnd, ethTodo, ethProof, transactionsProven,
                  transactionsFinalized, lastIndexedBlock >>

\* The portal is asked for its latest state, not for that of the log's block.
ProvenReadPortal(log) ==
  /\ ethPc = "portal"
  /\ IsNextLog(log, ethTodo)
  /\ ethProof' = provenWithdrawals[log.withdrawal]
  /\ ethPc' = "record"
  /\ UNCHANGED << ethStart, ethEnd, ethTodo, storeVars >>

ProvenCreateRecord(log) ==
  /\ ethPc = "record"
  /\ IsNextLog(log, ethTodo)
  /\ CreateTransactionProven(log.withdrawal, ethProof)
  /\ ethProof' = 0
  /\ ethTodo' = ethTodo \ {log}
  /\ ethPc' = "proven"
  /\ UNCHANGED << ethStart, ethEnd, status, transactionsFinalized,
                  lastIndexedBlock >>

ProvenDone ==
  /\ ethPc = "proven"
  /\ ethTodo = {}
  /\ ethTodo' = Filter(finalizedLogs, ethStart, ethEnd)
  /\ ethPc' = "finalized"
  /\ UNCHANGED << ethStart, ethEnd, ethProof, storeVars >>

-----------------------------------------------------------------------------
(***************************************************************************)
(* indexL1FilterWithdrawalFinalized.                                       *)
(***************************************************************************)
FinalizedSetStatus(log) ==
  /\ ethPc = "finalized"
  /\ IsNextLog(log, ethTodo)
  /\ UpdateTransactionStatusByWithdrawalHash(log.withdrawal, "RELAYED")
  /\ ethPc' = "finalizedRecord"
  /\ UNCHANGED << ethStart, ethEnd, ethTodo, ethProof, transactionsProven,
                  transactionsFinalized, lastIndexedBlock >>

FinalizedCreateRecord(log) ==
  /\ ethPc = "finalizedRecord"
  /\ IsNextLog(log, ethTodo)
  /\ CreateTransactionFinalized(log.withdrawal)
  /\ ethTodo' = ethTodo \ {log}
  /\ ethPc' = "finalized"
  /\ UNCHANGED << ethStart, ethEnd, ethProof, status, transactionsProven,
                  lastIndexedBlock >>

FinalizedDone ==
  /\ ethPc = "finalized"
  /\ ethTodo = {}
  /\ ethTodo' = Filter(outputLogs, ethStart, ethEnd)
  /\ ethPc' = "outputs"
  /\ UNCHANGED << ethStart, ethEnd, ethProof, storeVars >>

-----------------------------------------------------------------------------
(***************************************************************************)
(* indexL2OutputProposed, and the end of the batch.                        *)
(***************************************************************************)
OutputProposed(log) ==
  /\ ethPc = "outputs"
  /\ IsNextLog(log, ethTodo)
  /\ UpdateWithdrawalsToReadyToProve(log.l2Block)
  /\ ethTodo' = ethTodo \ {log}
  /\ UNCHANGED << ethPc, ethStart, ethEnd, ethProof, transactionsProven,
                  transactionsFinalized, lastIndexedBlock >>

\* The UpdateMany fails with some of its documents updated.
OutputProposedFails(log, written) ==
  /\ ethPc = "outputs"
  /\ IsNextLog(log, ethTodo)
  /\ UpdateToReadyToProve(written, log.l2Block)
  /\ ethPc' = "failed"
  /\ EthIdle
  /\ UNCHANGED << transactionsProven, transactionsFinalized,
                  lastIndexedBlock >>

OutputsDone ==
  /\ ethPc = "outputs"
  /\ ethTodo = {}
  /\ ethPc' = "cursor"
  /\ UNCHANGED << ethStart, ethEnd, ethTodo, ethProof, storeVars >>

\* Mutant: the next batch starts with the last block of this one.
EthAdvanceInclusive ==
  /\ ethPc = "cursor"
  /\ UpdateLastIndexedBlock("ethereum", ethEnd)
  /\ ethStart' = ethEnd
  /\ ethPc' = "select"
  /\ UNCHANGED << ethEnd, ethTodo, ethProof, status, transactionsProven,
                  transactionsFinalized >>

EthAdvance ==
  /\ ethPc = "cursor"
  /\ UpdateLastIndexedBlock("ethereum", ethEnd)
  /\ ethStart' = ethEnd + 1
  /\ ethPc' = "select"
  /\ UNCHANGED << ethEnd, ethTodo, ethProof, status, transactionsProven,
                  transactionsFinalized >>

-----------------------------------------------------------------------------
\* Mutant: an error is logged, and the loop goes on to the end of the batch.
EthLogError ==
  /\ ethPc \in EthBatchPcs
  /\ ethPc' = "cursor"
  /\ ethTodo' = {} /\ ethProof' = 0
  /\ UNCHANGED << ethStart, ethEnd, storeVars >>

\* Any call of the loop may return an error, and the goroutine returns it.
EthFail ==
  /\ ethPc \in EthRunningPcs \ {"start"}
  /\ ethPc' = "failed"
  /\ EthIdle
  /\ UNCHANGED storeVars

EthStep ==
  \/ EthStart(lastIndexedBlock["ethereum"])
  \/ EthSelectBatch
  \/ IndexL1Deposits
  \/ \E log \in ethTodo :
       \/ ProvenSetStatus(log)
       \/ ProvenReadPortal(log)
       \/ ProvenCreateRecord(log)
       \/ FinalizedSetStatus(log)
       \/ FinalizedCreateRecord(log)
       \/ OutputProposed(log)
  \/ ProvenDone
  \/ FinalizedDone
  \/ OutputsDone
  \/ EthAdvance
=============================================================================
