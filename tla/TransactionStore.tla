--------------------------- MODULE TransactionStore ---------------------------
(***************************************************************************)
(* The MongoDB collections of the database package.  A transaction         *)
(* document is identified by its withdrawal hash or its message hash, and  *)
(* of its fields only the status ever changes in a way another operation   *)
(* reads; its block number is that of the log it was made from.            *)
(*                                                                         *)
(* An operation that writes several documents (BulkWrite, UpdateMany) is   *)
(* one step, and one that fails a step that did it for some of them: it    *)
(* touches each document once, and what is done to one does not depend on  *)
(* another.                                                                *)
(***************************************************************************)
EXTENDS Chains

Transactions == Withdrawals \cup Deposits

NoDocument == "NO_DOCUMENT"

WithdrawalStatuses ==
  {"STATE_ROOT_NOT_PUBLISHED", "READY_TO_PROVE", "IN_CHALLENGE_PERIOD",
   "READY_FOR_RELAY", "RELAYED"}
DepositStatuses == {"UNCONFIRMED_L1_TO_L2_MESSAGE", "RELAYED"}
MessageStatuses == WithdrawalStatuses \cup DepositStatuses

IndexedChains == {"ethereum", "lightlink"}

VARIABLES
  status,                 \* transactions: the status field, or NoDocument
  transactionsProven,     \* transactions_proven, at most one per withdrawal
  transactionsFinalized,  \* transactions_finalized: the withdrawals in it
  lastIndexedBlock        \* last_indexed_block, 0 for a chain that has none

storeVars == << status, transactionsProven, transactionsFinalized,
                lastIndexedBlock >>

StoreTypeOK ==
  /\ status \in [Transactions -> MessageStatuses \cup {NoDocument}]
  /\ transactionsProven \subseteq
       [withdrawal : Withdrawals, time : 1 .. clock]
  /\ transactionsFinalized \subseteq Withdrawals
  /\ lastIndexedBlock \in [IndexedChains -> Nat]

StoreInit ==
  /\ status = [t \in Transactions |-> NoDocument]
  /\ transactionsProven = {}
  /\ transactionsFinalized = {}
  /\ lastIndexedBlock = [c \in IndexedChains |-> 0]

-----------------------------------------------------------------------------
(***************************************************************************)
(* Queries.                                                                *)
(***************************************************************************)
GetTransactionsByStatus(s) == {w \in Withdrawals : status[w] = s}

\* Mutant: the query for a proven record has no filter.
HasAnyProvenRecord(w) == transactionsProven # {}

HasProvenRecord(w) == \E r \in transactionsProven : r.withdrawal = w

HasFinalizedRecord(w) == w \in transactionsFinalized

\* The $lookup of GetTransactionsProvenByStatus, of one withdrawal that its
\* $match has found: the record as it is by then, if there is one.
LookupProven(w) == {r \in transactionsProven : r.withdrawal = w}

(***************************************************************************)
(* Updates.  Each one says what becomes of the collection it writes.       *)
(***************************************************************************)

\* An upsert per transaction, each of which sets every field, the status too.
BatchCreateTransactions(txs, s) ==
  status' = [t \in Transactions |-> IF t \in txs THEN s ELSE status[t]]

\* A filter that matches no document is not an error: nothing changes.
SetStatus(t, s) ==
  status' = IF status[t] = NoDocument
              THEN status
              ELSE [status EXCEPT ![t] = s]

\* Mutant: the update is an upsert.
UpsertStatus(w, s) == status' = [status EXCEPT ![w] = s]

UpdateTransactionStatusByWithdrawalHash(w, s) == SetStatus(w, s)

\* Mutant: the update has no filter and writes every deposit.
UpdateAllDeposits(d) ==
  status' = [t \in Transactions |->
               IF t \in Deposits /\ status[t] # NoDocument
                 THEN "RELAYED"
                 ELSE status[t]]

UpdateTransactionByMessageHash(d) == SetStatus(d, "RELAYED")

\* Mutant: $lt for $lte.
AwaitsOutputBelow(w, l2Block) ==
  /\ status[w] = "STATE_ROOT_NOT_PUBLISHED"
  /\ \E l \in withdrawalLogs : l.withdrawal = w /\ l.block < l2Block

AwaitsOutput(w, l2Block) ==
  /\ status[w] = "STATE_ROOT_NOT_PUBLISHED"
  /\ \E l \in withdrawalLogs : l.withdrawal = w /\ l.block <= l2Block

\* UpdateMany, of which only the documents of txs may have been reached when
\* it fails.
UpdateToReadyToProve(txs, l2Block) ==
  status' = [t \in Transactions |->
               IF t \in txs /\ AwaitsOutput(t, l2Block)
                 THEN "READY_TO_PROVE"
                 ELSE status[t]]

UpdateWithdrawalsToReadyToProve(l2Block) ==
  UpdateToReadyToProve(Withdrawals, l2Block)

\* Mutant: the record is inserted, but never updated.
InsertTransactionProven(w, time) ==
  transactionsProven' =
    IF HasProvenRecord(w)
      THEN transactionsProven
      ELSE transactionsProven \cup {[withdrawal |-> w, time |-> time]}

CreateTransactionProven(w, time) ==
  transactionsProven' =
    {r \in transactionsProven : r.withdrawal # w}
      \cup {[withdrawal |-> w, time |-> time]}

CreateTransactionFinalized(w) ==
  transactionsFinalized' = transactionsFinalized \cup {w}

UpdateLastIndexedBlock(chain, block) ==
  lastIndexedBlock' = [lastIndexedBlock EXCEPT ![chain] = block]
=============================================================================
