------------------------------ MODULE StatusProofs ------------------------------
(***************************************************************************)
(* Theorems about what happens to the statuses of the documents.  The      *)
(* first part is about the bulk writes, which set every field of a         *)
(* document: without a fault each document is written by one of them only  *)
(* once.  The second is the refinement of StatusMirror: every step of the  *)
(* loops, of the checkers, of a fault or of a restart is one write of the  *)
(* mirror, or does not show.  The third is about the order of the          *)
(* statuses: what takes a withdrawal to an earlier one.                    *)
(***************************************************************************)
EXTENDS CompletenessProofs

-----------------------------------------------------------------------------
(***************************************************************************)
(* The invariant: a document that exists comes from a block that its loop  *)
(* is through with, and from one log only.                                 *)
(***************************************************************************)
LogsUnique ==
  /\ \A k, l \in depositLogs : k.deposit = l.deposit => k = l
  /\ \A k, l \in withdrawalLogs : k.withdrawal = l.withdrawal => k = l

L1Behind(n) ==
  /\ ethPc # "start"
  /\ \/ n < ethStart
     \/ ethPc \in EthBatchPcs \ {"deposits"} /\ n <= ethEnd

L2Behind(n) ==
  /\ llPc # "start"
  /\ \/ n < llStart
     \/ llPc \in LlBatchPcs \ {"withdrawals"} /\ n <= llEnd

DepositsBehind ==
  \A l \in depositLogs : status[l.deposit] # NoDocument => L1Behind(l.block)

WithdrawalsBehind ==
  \A l \in withdrawalLogs :
    status[l.withdrawal] # NoDocument => L2Behind(l.block)

LoopsRun == ethPc \in EthRunningPcs /\ llPc \in LlRunningPcs

ResetInv ==
  /\ JustifiedInv /\ CompleteInv /\ LogsUnique
  /\ faults = 0 => LoopsRun /\ DepositsBehind /\ WithdrawalsBehind

-----------------------------------------------------------------------------
CreatedStatuses == {"STATE_ROOT_NOT_PUBLISHED", "UNCONFIRMED_L1_TO_L2_MESSAGE"}

\* What all writes but the bulk writes do to the status of a document.
UpdatesOnly ==
  \A t \in Transactions :
    \/ status'[t] = status[t]
    \/ /\ status[t] # NoDocument /\ status'[t] # NoDocument
       /\ status'[t] \notin CreatedStatuses

NoReset ==
  \A t \in Transactions :
    status[t] # NoDocument /\ status'[t] \in CreatedStatuses =>
      status'[t] = status[t]

BulkWrite ==
  \/ IndexL1Deposits
  \/ \E txs \in SUBSET DepositsInBatch : IndexL1DepositsFails(txs)
  \/ IndexL2Withdrawals
  \/ \E txs \in SUBSET WithdrawalsInBatch : IndexL2WithdrawalsFails(txs)

\* A filtered update creates no document.
LEMMA SetStatusUpdatesOnly ==
  ASSUME StoreTypeOK,
         NEW s \in {"READY_TO_PROVE", "IN_CHALLENGE_PERIOD", "READY_FOR_RELAY",
                    "RELAYED"}
  PROVE  \A x : SetStatus(x, s) => UpdatesOnly
BY DEF SetStatus, StoreTypeOK, UpdatesOnly, CreatedStatuses, NoDocument

\* Nor does an output, of whichever withdrawals it updates.
LEMMA OutputUpdatesOnly ==
  ASSUME NEW txs, NEW block, UpdateToReadyToProve(txs, block)
  PROVE  UpdatesOnly
BY DEF UpdateToReadyToProve, AwaitsOutput, UpdatesOnly, CreatedStatuses,
       NoDocument

\* Nor does a step that writes no status.
LEMMA SameStatusUpdatesOnly ==
  ASSUME UNCHANGED status  PROVE UpdatesOnly
BY DEF UpdatesOnly

\* The steps of the loops other than their bulk writes.
LEMMA EthereumLoopUpdates ==
  ASSUME StoreTypeOK, EthStep  PROVE IndexL1Deposits \/ UpdatesOnly
<1>1. ASSUME NEW log \in ethTodo, OutputProposed(log)  PROVE UpdatesOnly
  BY <1>1, OutputUpdatesOnly
  DEF OutputProposed, UpdateWithdrawalsToReadyToProve
<1>2. ASSUME NEW log \in ethTodo, ProvenSetStatus(log) \/ FinalizedSetStatus(log)
      PROVE  UpdatesOnly
  BY <1>2, SetStatusUpdatesOnly
  DEF ProvenSetStatus, FinalizedSetStatus,
      UpdateTransactionStatusByWithdrawalHash
<1> QED
  BY <1>1, <1>2, SameStatusUpdatesOnly
  DEF EthStep, EthStart, EthSelectBatch, ProvenReadPortal, ProvenCreateRecord,
      FinalizedCreateRecord, ProvenDone, FinalizedDone, OutputsDone,
      EthAdvance, storeVars

\* The same for the second loop.
LEMMA LightLinkLoopUpdates ==
  ASSUME StoreTypeOK, LlStep  PROVE IndexL2Withdrawals \/ UpdatesOnly
<1>1. ASSUME NEW log \in llTodo, RelayedMessage(log)  PROVE UpdatesOnly
  BY <1>1, SetStatusUpdatesOnly
  DEF RelayedMessage, UpdateTransactionByMessageHash
<1> QED
  BY <1>1, SameStatusUpdatesOnly
  DEF LlStep, LlStart, LlSelectBatch, RelayedDone, LlAdvance, storeVars

\* The checkers only update.
LEMMA CheckersUpdate ==
  ASSUME StoreTypeOK, CheckerStep  PROVE UpdatesOnly
<1>1. CASE \/ \E w \in provenHit : ProvenCheckerUpdate(w)
           \/ \E w \in finalizedHit : FinalizedCheckerUpdate(w)
           \/ \E r \in readyList : ReadyCheckerUpdate(r)
  BY <1>1, SetStatusUpdatesOnly, SameStatusUpdatesOnly
  DEF ProvenCheckerUpdate, FinalizedCheckerUpdate, ReadyCheckerUpdate,
      UpdateTransactionStatusByWithdrawalHash
<1> QED
  BY <1>1, SameStatusUpdatesOnly
  DEF CheckerStep, ProvenCheckerStep, ProvenCheckerList, ProvenCheckerFind,
      FinalizedCheckerStep, FinalizedCheckerList, FinalizedCheckerFind,
      ReadyCheckerStep, ReadyCheckerList, ReadyCheckerLookup, storeVars

\* Only four actions insert documents or set the status of a new one.
LEMMA BulkWriteOrUpdates ==
  ASSUME TypeInv, [Next]_vars
  PROVE  BulkWrite \/ UpdatesOnly
<1>1. StoreTypeOK
  BY DEF TypeInv, TypeOK
<1>2. CASE EthereumLoop \/ LightLinkLoop \/ Checkers(CheckerStep)
  BY <1>1, <1>2, EthereumLoopUpdates, LightLinkLoopUpdates, CheckersUpdate
  DEF EthereumLoop, LightLinkLoop, Checkers, BulkWrite
<1>3. CASE UNCHANGED vars \/ Environment
  BY <1>3, SameStatusUpdatesOnly DEF vars, Environment, storeVars
<1>4. CASE \/ LoopFault \/ ReadFault \/ Exit \/ Stop \/ Restart
           \/ \E c \in CheckerNames : CheckerFault(c)
  BY <1>4, SameStatusUpdatesOnly, OutputUpdatesOnly
  DEF LoopFault, OutputProposedFails, EthFail, LlFail, ReadFault, EthStart, LlStart, CheckerFault,
      CheckerFail, Exit, Stop, EndProcess, Restart, BulkWrite, storeVars
<1> QED  BY <1>2, <1>3, <1>4, WaitingChangesNothing DEF Next

\* As long as nothing failed, no bulk write finds one of its documents.
LEMMA BulkWriteIsNew ==
  ASSUME ResetInv, faults = 0, BulkWrite  PROVE NoReset
<1>1. /\ ChainTypeOK /\ StoreTypeOK /\ LogsUnique /\ DepositsBehind /\ WithdrawalsBehind
      /\ ethStart \in Nat /\ ethEnd \in Nat /\ llStart \in Nat /\ llEnd \in Nat
  BY DEF ResetInv, CompleteInv, TypeInv, TypeOK, EthTypeOK, LlTypeOK
<1>2. ASSUME ethPc = "deposits", NEW d \in DepositsInBatch
      PROVE  status[d] = NoDocument
  <2>1. PICK l \in depositLogs : l.deposit = d /\ l.block \in ethStart .. ethEnd
    BY <1>2 DEF DepositsInBatch, Filter
  <2>2. ~L1Behind(l.block)
    BY <1>1, <1>2, <2>1 DEF L1Behind
  <2> QED  BY <1>1, <2>1, <2>2 DEF DepositsBehind
<1>3. ASSUME llPc = "withdrawals", NEW w \in WithdrawalsInBatch
      PROVE  status[w] = NoDocument
  <2>1. PICK l \in withdrawalLogs : l.withdrawal = w /\ l.block \in llStart .. llEnd
    BY <1>3 DEF WithdrawalsInBatch, Filter
  <2>2. ~L2Behind(l.block)
    BY <1>1, <1>3, <2>1 DEF L2Behind
  <2> QED  BY <1>1, <2>1, <2>2 DEF WithdrawalsBehind
<1>4. CASE \/ IndexL1Deposits
           \/ \E txs \in SUBSET DepositsInBatch : IndexL1DepositsFails(txs)
  BY <1>2, <1>4
  DEF IndexL1Deposits, IndexL1DepositsFails, BatchCreateTransactions, NoReset
<1>5. CASE \/ IndexL2Withdrawals
           \/ \E txs \in SUBSET WithdrawalsInBatch : IndexL2WithdrawalsFails(txs)
  BY <1>3, <1>5
  DEF IndexL2Withdrawals, IndexL2WithdrawalsFails, BatchCreateTransactions,
      NoReset
<1> QED  BY <1>4, <1>5 DEF BulkWrite

-----------------------------------------------------------------------------
\* What has a log gets no second one.
LEMMA EnvironmentUnique ==
  ASSUME ChainTypeOK, LogsUnique, Environment  PROVE LogsUnique'
<1>1. CASE UNCHANGED << depositLogs, withdrawalLogs >>
  BY <1>1 DEF LogsUnique
<1>2. ASSUME NEW w \in Withdrawals, InitiateWithdrawal(w)  PROVE LogsUnique'
  BY <1>2 DEF InitiateWithdrawal, MineL2, Initiated, LogsUnique
<1>3. ASSUME NEW d \in Deposits, MakeDeposit(d)  PROVE LogsUnique'
  BY <1>3 DEF MakeDeposit, MineL1, Deposited, LogsUnique
<1> QED
  BY <1>1, <1>2, <1>3
  DEF Environment, ChainNext, EmptyL1Block, EmptyL2Block, ProveWithdrawal,
      FinalizeWithdrawal, RelayDeposit, ProposeOutput, Rollback, Tick, MineL1,
      MineL2

\* A new log is of a transaction that has no document yet.
LEMMA EnvironmentBehind ==
  ASSUME ResetInv, faults = 0, Environment
  PROVE  DepositsBehind' /\ WithdrawalsBehind'
<1>1. /\ DepositsBehind /\ WithdrawalsBehind /\ StatusJustified /\ ChainTypeOK
  BY DEF ResetInv, JustifiedInv, TypeInv, TypeOK
<1>2. UNCHANGED << status, ethPc, ethStart, ethEnd, llPc, llStart, llEnd >>
  BY DEF Environment, storeVars, ethVars, llVars
<1>3. \A l \in depositLogs' : l \in depositLogs \/ status[l.deposit] = NoDocument
  <2>1. CASE UNCHANGED depositLogs
    BY <2>1
  <2>2. ASSUME NEW d \in Deposits, MakeDeposit(d)
        PROVE  \A l \in depositLogs' : l \in depositLogs \/ status[l.deposit] = NoDocument
    BY <1>1, <2>2 DEF MakeDeposit, StatusJustified
  <2> QED
    BY <2>1, <2>2
    DEF Environment, ChainNext, EmptyL1Block, EmptyL2Block, InitiateWithdrawal,
        ProveWithdrawal, FinalizeWithdrawal, RelayDeposit, ProposeOutput,
        Rollback, Tick, MineL1, MineL2
<1>4. \A l \in withdrawalLogs' :
        l \in withdrawalLogs \/ status[l.withdrawal] = NoDocument
  <2>1. CASE UNCHANGED withdrawalLogs
    BY <2>1
  <2>2. ASSUME NEW w \in Withdrawals, InitiateWithdrawal(w)
        PROVE  \A l \in withdrawalLogs' :
                 l \in withdrawalLogs \/ status[l.withdrawal] = NoDocument
    BY <1>1, <2>2 DEF InitiateWithdrawal, StatusJustified
  <2> QED
    BY <2>1, <2>2
    DEF Environment, ChainNext, EmptyL1Block, EmptyL2Block, MakeDeposit,
        ProveWithdrawal, FinalizeWithdrawal, RelayDeposit, ProposeOutput,
        Rollback, Tick, MineL1, MineL2
<1> QED
  BY <1>1, <1>2, <1>3, <1>4
  DEF DepositsBehind, WithdrawalsBehind, L1Behind, L2Behind

\* A step that inserts no deposit, and by which the loop falls back nowhere.
LEMMA DepositsStayBehind ==
  ASSUME ChainTypeOK, DepositsBehind, UNCHANGED depositLogs,
         \A d \in Deposits : status'[d] # NoDocument => status[d] # NoDocument,
         \A n \in Nat : L1Behind(n) => L1Behind(n)'
  PROVE  DepositsBehind'
<1>1. \A l \in depositLogs : l.deposit \in Deposits /\ l.block \in Nat
  BY DEF ChainTypeOK
<1> QED  BY <1>1 DEF DepositsBehind

\* The same for withdrawals.
LEMMA WithdrawalsStayBehind ==
  ASSUME ChainTypeOK, WithdrawalsBehind, UNCHANGED withdrawalLogs,
         \A w \in Withdrawals : status'[w] # NoDocument => status[w] # NoDocument,
         \A n \in Nat : L2Behind(n) => L2Behind(n)'
  PROVE  WithdrawalsBehind'
<1>1. \A l \in withdrawalLogs : l.withdrawal \in Withdrawals /\ l.block \in Nat
  BY DEF ChainTypeOK
<1> QED  BY <1>1 DEF WithdrawalsBehind

\* After its bulk write a loop is through with the batch's blocks.
LEMMA EthereumLoopBehind ==
  ASSUME ResetInv, faults = 0, EthereumLoop
  PROVE  LoopsRun' /\ DepositsBehind' /\ WithdrawalsBehind'
<1>1. /\ DepositsBehind /\ WithdrawalsBehind /\ LogsUnique /\ LoopsRun
      /\ ChainTypeOK /\ StoreTypeOK /\ L1Invariant
      /\ ethStart \in Nat /\ ethEnd \in Nat
  BY DEF ResetInv, CompleteInv, TypeInv, TypeOK, EthTypeOK
<1>2. UNCHANGED << depositLogs, withdrawalLogs, llPc, llStart, llEnd >> /\ EthStep
  BY DEF EthereumLoop, chainVars, llVars
<1>3. \A n \in Nat : L1Behind(n) => L1Behind(n)'
  <2> SUFFICES ASSUME NEW n \in Nat, L1Behind(n)  PROVE L1Behind(n)'
    OBVIOUS
  <2>1. CASE EthAdvance
    <3>1. /\ ethStart <= ethEnd /\ ethStart' = ethEnd + 1 /\ ethPc' = "select"
      BY <1>1, <2>1 DEF EthAdvance, L1Invariant, EthBatchPcs
    <3>2. n < ethStart \/ n <= ethEnd
      BY DEF L1Behind
    <3>3. n < ethStart'
      BY <1>1, <3>1, <3>2
    <3> QED  BY <3>1, <3>3 DEF L1Behind
  <2>2. CASE EthSelectBatch
    BY <2>2 DEF EthSelectBatch, L1Behind, EthBatchPcs
  <2>3. CASE ~EthAdvance /\ ~EthSelectBatch
    <3>1. /\ UNCHANGED << ethStart, ethEnd >>
          /\ ethPc' \in EthBatchPcs \ {"deposits"}
      BY <1>2, <2>3
      DEF EthStep, EthStart, IndexL1Deposits, ProvenSetStatus,
          ProvenReadPortal, ProvenCreateRecord, FinalizedSetStatus,
          FinalizedCreateRecord, OutputProposed, ProvenDone, FinalizedDone,
          OutputsDone, EthBatchPcs, L1Behind
    <3> QED  BY <3>1 DEF L1Behind, EthBatchPcs
  <2> QED  BY <2>1, <2>2, <2>3
<1>4. \A n \in Nat : L2Behind(n) => L2Behind(n)'
  BY <1>2 DEF L2Behind
<1>5. LoopsRun'
  BY <1>1, <1>2
  DEF LoopsRun, EthStep, EthStart, EthSelectBatch, IndexL1Deposits,
      ProvenSetStatus, ProvenReadPortal, ProvenCreateRecord,
      FinalizedSetStatus, FinalizedCreateRecord, OutputProposed, ProvenDone,
      FinalizedDone, OutputsDone, EthAdvance, EthRunningPcs, EthBatchPcs
<1>6. CASE UpdatesOnly
  <2>1. /\ \A d \in Deposits : status'[d] # NoDocument => status[d] # NoDocument
        /\ \A w \in Withdrawals : status'[w] # NoDocument => status[w] # NoDocument
    BY <1>6 DEF UpdatesOnly, Transactions
  <2> QED
    BY <1>1, <1>2, <1>3, <1>4, <1>5, <2>1, DepositsStayBehind,
       WithdrawalsStayBehind
<1>7. CASE IndexL1Deposits
  <2>1. \A t \in Transactions :
          status'[t] = IF t \in DepositsInBatch
                         THEN "UNCONFIRMED_L1_TO_L2_MESSAGE" ELSE status[t]
    BY <1>7 DEF IndexL1Deposits, BatchCreateTransactions
  <2>2. DepositsInBatch \subseteq Deposits
    BY <1>1 DEF DepositsInBatch, Filter, ChainTypeOK
  <2>3. \A w \in Withdrawals : status'[w] = status[w]
    BY <2>1, <2>2, ChainsAssumption DEF Transactions
  <2>4. WithdrawalsBehind'
    BY <1>1, <1>2, <1>4, <2>3, WithdrawalsStayBehind
  <2>5. DepositsBehind'
    <3> SUFFICES ASSUME NEW l \in depositLogs, status'[l.deposit] # NoDocument
                 PROVE  L1Behind(l.block)'
      BY <1>2 DEF DepositsBehind
    <3>1. l.deposit \in Transactions /\ l.block \in Nat
      BY <1>1 DEF ChainTypeOK, Transactions
    <3>2. CASE l.deposit \in DepositsInBatch
      <4>1. l.block \in ethStart .. ethEnd
        BY <1>1, <3>2 DEF DepositsInBatch, Filter, LogsUnique
      <4> QED  BY <1>1, <1>7, <4>1 DEF IndexL1Deposits, L1Behind, EthBatchPcs
    <3>3. CASE l.deposit \notin DepositsInBatch
      <4>1. status[l.deposit] # NoDocument
        BY <2>1, <3>1, <3>3
      <4> QED  BY <1>1, <1>3, <3>1, <4>1 DEF DepositsBehind
    <3> QED  BY <3>2, <3>3
  <2> QED  BY <1>5, <2>4, <2>5
<1> QED  BY <1>1, <1>2, <1>6, <1>7, EthereumLoopUpdates

\* The same for the second loop.
LEMMA LightLinkLoopBehind ==
  ASSUME ResetInv, faults = 0, LightLinkLoop
  PROVE  LoopsRun' /\ DepositsBehind' /\ WithdrawalsBehind'
<1>1. /\ DepositsBehind /\ WithdrawalsBehind /\ LogsUnique /\ LoopsRun
      /\ ChainTypeOK /\ StoreTypeOK /\ L2Invariant
      /\ llStart \in Nat /\ llEnd \in Nat
  BY DEF ResetInv, CompleteInv, TypeInv, TypeOK, LlTypeOK
<1>2. UNCHANGED << depositLogs, withdrawalLogs, ethPc, ethStart, ethEnd >> /\ LlStep
  BY DEF LightLinkLoop, chainVars, ethVars
<1>3. \A n \in Nat : L2Behind(n) => L2Behind(n)'
  <2> SUFFICES ASSUME NEW n \in Nat, L2Behind(n)  PROVE L2Behind(n)'
    OBVIOUS
  <2>1. CASE LlAdvance
    <3>1. /\ llStart <= llEnd /\ llStart' = llEnd + 1 /\ llPc' = "select"
      BY <1>1, <2>1 DEF LlAdvance, L2Invariant, LlBatchPcs
    <3>2. n < llStart \/ n <= llEnd
      BY DEF L2Behind
    <3>3. n < llStart'
      BY <1>1, <3>1, <3>2
    <3> QED  BY <3>1, <3>3 DEF L2Behind
  <2>2. CASE LlSelectBatch
    BY <2>2 DEF LlSelectBatch, L2Behind, LlBatchPcs
  <2>3. CASE ~LlAdvance /\ ~LlSelectBatch
    <3>1. /\ UNCHANGED << llStart, llEnd >>
          /\ llPc' \in LlBatchPcs \ {"withdrawals"}
      BY <1>2, <2>3
      DEF LlStep, LlStart, IndexL2Withdrawals, RelayedMessage, RelayedDone,
          LlBatchPcs, L2Behind
    <3> QED  BY <3>1 DEF L2Behind, LlBatchPcs
  <2> QED  BY <2>1, <2>2, <2>3
<1>4. \A n \in Nat : L1Behind(n) => L1Behind(n)'
  BY <1>2 DEF L1Behind
<1>5. LoopsRun'
  BY <1>1, <1>2
  DEF LoopsRun, LlStep, LlStart, LlSelectBatch, IndexL2Withdrawals,
      RelayedMessage, RelayedDone, LlAdvance, LlRunningPcs, LlBatchPcs
<1>6. CASE UpdatesOnly
  <2>1. /\ \A d \in Deposits : status'[d] # NoDocument => status[d] # NoDocument
        /\ \A w \in Withdrawals : status'[w] # NoDocument => status[w] # NoDocument
    BY <1>6 DEF UpdatesOnly, Transactions
  <2> QED
    BY <1>1, <1>2, <1>3, <1>4, <1>5, <2>1, DepositsStayBehind,
       WithdrawalsStayBehind
<1>7. CASE IndexL2Withdrawals
  <2>1. \A t \in Transactions :
          status'[t] = IF t \in WithdrawalsInBatch
                         THEN "STATE_ROOT_NOT_PUBLISHED" ELSE status[t]
    BY <1>7 DEF IndexL2Withdrawals, BatchCreateTransactions
  <2>2. WithdrawalsInBatch \subseteq Withdrawals
    BY <1>1 DEF WithdrawalsInBatch, Filter, ChainTypeOK
  <2>3. \A d \in Deposits : status'[d] = status[d]
    BY <2>1, <2>2, ChainsAssumption DEF Transactions
  <2>4. DepositsBehind'
    BY <1>1, <1>2, <1>4, <2>3, DepositsStayBehind
  <2>5. WithdrawalsBehind'
    <3> SUFFICES ASSUME NEW l \in withdrawalLogs, status'[l.withdrawal] # NoDocument
                 PROVE  L2Behind(l.block)'
      BY <1>2 DEF WithdrawalsBehind
    <3>1. l.withdrawal \in Transactions /\ l.block \in Nat
      BY <1>1 DEF ChainTypeOK, Transactions
    <3>2. CASE l.withdrawal \in WithdrawalsInBatch
      <4>1. l.block \in llStart .. llEnd
        BY <1>1, <3>2 DEF WithdrawalsInBatch, Filter, LogsUnique
      <4> QED  BY <1>1, <1>7, <4>1 DEF IndexL2Withdrawals, L2Behind, LlBatchPcs
    <3>3. CASE l.withdrawal \notin WithdrawalsInBatch
      <4>1. status[l.withdrawal] # NoDocument
        BY <2>1, <3>1, <3>3
      <4> QED  BY <1>1, <1>3, <3>1, <4>1 DEF WithdrawalsBehind
    <3> QED  BY <3>2, <3>3
  <2> QED  BY <1>5, <2>4, <2>5
<1> QED  BY <1>1, <1>2, <1>6, <1>7, LightLinkLoopUpdates

\* Every step keeps the invariant.
LEMMA NextReset ==
  ASSUME ResetInv, [Next]_vars
  PROVE  ResetInv'
<1>1. JustifiedInv' /\ CompleteInv'
  BY NextJustified, NextComplete DEF ResetInv
<1>2. /\ ChainTypeOK /\ StoreTypeOK /\ faults \in Nat
  BY DEF ResetInv, CompleteInv, TypeInv, TypeOK
<1>3. LogsUnique'
  <2>1. CASE Environment
    BY <1>2, <2>1, EnvironmentUnique DEF ResetInv
  <2>2. CASE ~Environment
    <3>1. UNCHANGED << depositLogs, withdrawalLogs >>
      BY <2>2
      DEF Next, EthereumLoop, LightLinkLoop, Waiting, Checkers, LoopFault,
          ReadFault, CheckerFault, Exit, Stop, EndProcess, Restart, vars,
          chainVars
    <3> QED  BY <3>1 DEF ResetInv, LogsUnique
  <2> QED  BY <2>1, <2>2
<1>4. ASSUME faults' = 0
      PROVE  LoopsRun' /\ DepositsBehind' /\ WithdrawalsBehind'
  <2>1. ~(LoopFault \/ ReadFault \/ Stop \/ \E c \in CheckerNames : CheckerFault(c))
    BY <1>2, <1>4 DEF LoopFault, ReadFault, Stop, CheckerFault, Fault
  <2>2. faults = 0
    BY <1>4, <2>1
    DEF Next, Environment, EthereumLoop, LightLinkLoop, Waiting, Checkers,
        Exit, Restart, vars
  <2>3. LoopsRun /\ DepositsBehind /\ WithdrawalsBehind
    BY <2>2 DEF ResetInv
  <2>4. ~(Exit \/ Restart)
    BY <2>3
    DEF Exit, Restart, Up, LoopsRun, EthRunningPcs, EthBatchPcs, LlRunningPcs,
        LlBatchPcs
  <2>5. CASE EthereumLoop \/ LightLinkLoop
    BY <2>2, <2>5, EthereumLoopBehind, LightLinkLoopBehind
  <2>6. CASE Environment
    BY <2>2, <2>3, <2>6, EnvironmentBehind
    DEF LoopsRun, Environment, ethVars, llVars
  <2>7. CASE Checkers(CheckerStep) \/ UNCHANGED vars
    <3>1. UpdatesOnly
      BY <1>2, <2>7, CheckersUpdate, SameStatusUpdatesOnly
      DEF Checkers, vars, storeVars
    <3>2. /\ \A d \in Deposits : status'[d] # NoDocument => status[d] # NoDocument
          /\ \A w \in Withdrawals : status'[w] # NoDocument => status[w] # NoDocument
      BY <3>1 DEF UpdatesOnly, Transactions
    <3>3. UNCHANGED << depositLogs, withdrawalLogs, ethPc, ethStart, ethEnd, llPc, llStart, llEnd >>
      BY <2>7 DEF Checkers, vars, chainVars, ethVars, llVars
    <3>4. /\ \A n \in Nat : L1Behind(n) => L1Behind(n)'
          /\ \A n \in Nat : L2Behind(n) => L2Behind(n)'
      BY <3>3 DEF L1Behind, L2Behind
    <3> QED
      BY <1>2, <2>3, <3>2, <3>3, <3>4, DepositsStayBehind,
         WithdrawalsStayBehind DEF LoopsRun
  <2> QED
    BY <2>1, <2>4, <2>5, <2>6, <2>7, WaitingChangesNothing DEF Next
<1> QED  BY <1>1, <1>3, <1>4 DEF ResetInv

\* Without a fault no document is written twice by a bulk write: the status of
\* one that exists is never set back to the one it was created with.
THEOREM NoResetWithoutFault == Spec => StatusResetOnlyAfterFault
<1>1. Init => ResetInv
  <2> SUFFICES ASSUME Init  PROVE ResetInv
    OBVIOUS
  <2>1. JustifiedInv
    BY InitTypeInv
    DEF Init, StoreInit, CheckersInit, JustifiedInv, RecordsLogged,
        ListsLogged, StatusJustified, Transactions, NoDocument
  <2>2. LogsUnique /\ LoopsRun /\ DepositsBehind /\ WithdrawalsBehind
    BY DEF Init, ChainInit, EthInit, LlInit, LogsUnique, LoopsRun,
           DepositsBehind, WithdrawalsBehind, EthRunningPcs, LlRunningPcs
  <2> QED  BY <2>1, <2>2, InitComplete DEF ResetInv
<1>2. ResetInv /\ [Next]_vars => ResetInv'
  BY NextReset
<1>3. ResetInv /\ [Next]_vars =>
        [\A t \in Transactions :
           /\ faults = 0
           /\ status[t] # NoDocument
           /\ status'[t] \in {"STATE_ROOT_NOT_PUBLISHED",
                              "UNCONFIRMED_L1_TO_L2_MESSAGE"}
           => status'[t] = status[t]]_vars
  <2> SUFFICES ASSUME ResetInv, [Next]_vars, NEW t \in Transactions, faults = 0,
                      status[t] # NoDocument, status'[t] \in CreatedStatuses
               PROVE  status'[t] = status[t]
    BY DEF CreatedStatuses
  <2>1. BulkWrite \/ UpdatesOnly
    BY BulkWriteOrUpdates DEF ResetInv, CompleteInv
  <2>2. NoReset
    BY <2>1, BulkWriteIsNew DEF UpdatesOnly, NoReset
  <2> QED  BY <2>2 DEF NoReset
<1> QED  BY <1>1, <1>2, <1>3, PTL DEF Spec, StatusResetOnlyAfterFault

-----------------------------------------------------------------------------
(***************************************************************************)
(* The invariant.  A record that the ready checker has listed may be old,  *)
(* but it is never deleted: its withdrawal still has one when it is set to *)
(* READY_FOR_RELAY.                                                        *)
(***************************************************************************)
ListedHaveRecord == \A r \in readyList : HasProvenRecord(r.withdrawal)

MirrorInv == JustifiedInv /\ ListedHaveRecord

\* No step deletes a document or a record.
LEMMA NextGrows ==
  ASSUME StoreTypeOK, [Next]_vars  PROVE StoreGrows
<1>1. CASE UNCHANGED vars
  BY <1>1, UnchangedStoreGrows DEF vars
<1>2. CASE Environment
  BY <1>2, UnchangedStoreGrows DEF Environment
<1>3. CASE EthereumLoop
  BY <1>3, EthereumLoopGrows DEF EthereumLoop
<1>4. CASE LightLinkLoop
  BY <1>4, LightLinkLoopGrows DEF LightLinkLoop
<1>5. CASE Waiting
  BY <1>1, <1>5, WaitingChangesNothing
<1>6. CASE Checkers(CheckerStep)
  BY <1>6, CheckersGrow DEF Checkers
<1>7. CASE \/ LoopFault \/ ReadFault \/ Exit \/ Stop \/ Restart
           \/ \E c \in CheckerNames : CheckerFault(c)
  BY <1>7, FaultGrows
<1> QED  BY <1>1, <1>2, <1>3, <1>4, <1>5, <1>6, <1>7 DEF Next

\* What the ready checker has listed when it goes on.
LEMMA ReadyListStep ==
  ASSUME [Next]_vars
  PROVE  readyList' \subseteq readyList \cup transactionsProven
<1>1. CASE UNCHANGED readyList
  BY <1>1
<1>2. CASE Checkers(CheckerStep)
  BY <1>2
  DEF Checkers, CheckerStep, ProvenCheckerStep, ProvenCheckerList,
      ProvenCheckerFind, ProvenCheckerUpdate, FinalizedCheckerStep,
      FinalizedCheckerList, FinalizedCheckerFind, FinalizedCheckerUpdate,
      ReadyCheckerStep, ReadyCheckerList, ReadyCheckerLookup, ReadyCheckerUpdate,
      LookupProven
<1>3. CASE Exit \/ Stop
  BY <1>3 DEF Exit, Stop, EndProcess, CheckersIdle
<1>4. ASSUME NEW c \in CheckerNames, CheckerFault(c)
      PROVE  readyList' \subseteq readyList \cup transactionsProven
  BY <1>4 DEF CheckerFault, CheckerFail
<1> QED
  BY <1>1, <1>2, <1>3, <1>4, WaitingChangesNothing
  DEF Next, vars, checkerVars, Environment, EthereumLoop, LightLinkLoop,
      LoopFault, ReadFault, Restart

\* Every step keeps the invariant.
LEMMA NextMirrorInv ==
  ASSUME MirrorInv, [Next]_vars
  PROVE  MirrorInv'
<1>1. JustifiedInv'
  BY NextJustified DEF MirrorInv
<1>2. StoreGrows
  BY NextGrows DEF MirrorInv, JustifiedInv, TypeInv, TypeOK
<1>3. ListedHaveRecord'
  <2> SUFFICES ASSUME NEW r \in readyList'
               PROVE  HasProvenRecord(r.withdrawal)'
    BY DEF ListedHaveRecord
  <2>1. CASE r \in readyList
    BY <1>2, <2>1 DEF MirrorInv, ListedHaveRecord, StoreGrows
  <2>2. CASE r \in transactionsProven
    BY <1>2, <2>2 DEF HasProvenRecord, StoreGrows
  <2> QED  BY <2>1, <2>2, ReadyListStep
<1> QED  BY <1>1, <1>3 DEF MirrorInv

-----------------------------------------------------------------------------
(***************************************************************************)
(* The refinement mapping.                                                 *)
(***************************************************************************)
MirrorStep == [Mirror!MirrorNext]_(Mirror!mirrorVars)

ProvenOnes == {r.withdrawal : r \in transactionsProven}

\* Each pair of a transaction and a status that is evidence.
LEMMA EvidenceOf ==
  /\ \A w \in Withdrawals :
       /\ Initiated(w) => << w, "STATE_ROOT_NOT_PUBLISHED" >> \in Evidence
       /\ OutputCovers(w) => << w, "READY_TO_PROVE" >> \in Evidence
       /\ Proven(w) => << w, "IN_CHALLENGE_PERIOD" >> \in Evidence
       /\ ChallengeOver(w) => << w, "READY_FOR_RELAY" >> \in Evidence
       /\ Finalized(w) => << w, "RELAYED" >> \in Evidence
  /\ \A d \in Deposits :
       /\ Deposited(d) => << d, "UNCONFIRMED_L1_TO_L2_MESSAGE" >> \in Evidence
       /\ RelayedOnL2(d) => << d, "RELAYED" >> \in Evidence
BY DEF Evidence

\* Evidence is only added to, and depends on nothing but the chains.
LEMMA EvidenceStays ==
  ASSUME ChainTypeOK, ChainTypeOK', ChainGrows
  PROVE  Evidence \subseteq Evidence'
<1>1. /\ \A w : Initiated(w) => Initiated(w)'
      /\ \A w : OutputCovers(w) => OutputCovers(w)'
      /\ \A w : Proven(w) => Proven(w)'
      /\ \A w : Finalized(w) => Finalized(w)'
      /\ \A d : Deposited(d) => Deposited(d)'
      /\ \A d : RelayedOnL2(d) => RelayedOnL2(d)'
  BY LogsStay
<1>2. \A w : ChallengeOver(w) => ChallengeOver(w)'
  BY LogsStay, ChainsAssumption DEF ChallengeOver
<1> QED  BY <1>1, <1>2 DEF Evidence

\* Without a new log and with the clock stopped the evidence is the same.
LEMMA SameEvidence ==
  ASSUME UNCHANGED chainVars  PROVE Evidence' = Evidence
BY DEF chainVars, Evidence, Initiated, OutputCovers, Proven, ChallengeOver,
       Finalized, Deposited, RelayedOnL2

\* A step that leaves the documents and the records alone.
LEMMA NothingShows ==
  ASSUME UNCHANGED chainVars, UNCHANGED status,
         UNCHANGED << transactionsProven, transactionsFinalized >>
  PROVE  MirrorStep
BY SameEvidence DEF MirrorStep, Mirror!mirrorVars

\* A write of one status to some documents, each of which it is evident for.
LEMMA WriteShows ==
  ASSUME UNCHANGED chainVars,
         UNCHANGED << transactionsProven, transactionsFinalized >>,
         NEW txs \in SUBSET Transactions, NEW s,
         status' = [t \in Transactions |-> IF t \in txs THEN s ELSE status[t]],
         \A t \in txs : << t, s >> \in Evidence,
         \A t \in txs : s \in Mirror!StatusesOf(t),
         \A t \in txs : s = Mirror!FirstStatus(t) \/ status[t] # NoDocument,
         s = "READY_FOR_RELAY" => \A t \in txs : HasProvenRecord(t),
         StoreTypeOK
  PROVE  MirrorStep
<1>1. Evidence' = Evidence
  BY SameEvidence
<1>2. CASE txs = {}
  BY <1>2, NothingShows DEF StoreTypeOK
<1>3. CASE txs # {}
  <2>1. s \in UNION {Mirror!StatusesOf(t) : t \in txs}
    BY <1>3
  <2>2. s = "READY_FOR_RELAY" => txs \subseteq {r.withdrawal : r \in transactionsProven}
    BY DEF HasProvenRecord
  <2>3. Mirror!WriteStatus(txs, s)
    BY <1>1, <2>2
    DEF Mirror!WriteStatus, Mirror!Transactions, Transactions, NoDocument,
        Mirror!NoDocument
  <2> QED  BY <2>1, <2>3
           DEF MirrorStep, Mirror!MirrorNext, Mirror!Transactions,
               Transactions
<1> QED  BY <1>2, <1>3

\* An update of one document that is evident for its transaction.
LEMMA UpdateShows ==
  ASSUME StoreTypeOK, UNCHANGED chainVars,
         UNCHANGED << transactionsProven, transactionsFinalized >>,
         NEW t \in Transactions, NEW s, SetStatus(t, s),
         << t, s >> \in Evidence,
         s \in Mirror!StatusesOf(t),
         s = "READY_FOR_RELAY" => HasProvenRecord(t)
  PROVE  MirrorStep
<1>1. CASE status[t] = NoDocument
  BY <1>1, NothingShows DEF SetStatus
<1>2. CASE status[t] # NoDocument
  <2>1. status' = [u \in Transactions |-> IF u \in {t} THEN s ELSE status[u]]
    BY <1>2 DEF SetStatus, StoreTypeOK
  <2>2. {t} \in SUBSET Transactions
    OBVIOUS
  <2>3. /\ \A u \in {t} : << u, s >> \in Evidence
        /\ \A u \in {t} : s \in Mirror!StatusesOf(u)
        /\ \A u \in {t} : s = Mirror!FirstStatus(u) \/ status[u] # NoDocument
        /\ s = "READY_FOR_RELAY" => \A u \in {t} : HasProvenRecord(u)
    BY <1>2
  <2> DEFINE txs == {t}
  <2> HIDE DEF txs
  <2> QED  BY <2>1, <2>2, <2>3, WriteShows DEF txs
<1> QED  BY <1>1, <1>2

\* The statuses that the code writes are those of the mirror.
LEMMA StatusesOfMirror ==
  /\ \A w \in Withdrawals :
       /\ Mirror!FirstStatus(w) = "STATE_ROOT_NOT_PUBLISHED"
       /\ WithdrawalStatuses \subseteq Mirror!StatusesOf(w)
  /\ \A d \in Deposits :
       /\ Mirror!FirstStatus(d) = "UNCONFIRMED_L1_TO_L2_MESSAGE"
       /\ DepositStatuses \subseteq Mirror!StatusesOf(d)
BY ChainsAssumption
DEF Mirror!FirstStatus, Mirror!StatusesOf, WithdrawalStatuses, DepositStatuses

\* An upsert of withdrawals or of deposits that were logged.
LEMMA CreateShows ==
  ASSUME StoreTypeOK, UNCHANGED chainVars,
         UNCHANGED << transactionsProven, transactionsFinalized >>,
         NEW txs, NEW s, BatchCreateTransactions(txs, s),
         \/ /\ s = "STATE_ROOT_NOT_PUBLISHED"
            /\ \A t \in txs : t \in Withdrawals /\ Initiated(t)
         \/ /\ s = "UNCONFIRMED_L1_TO_L2_MESSAGE"
            /\ \A t \in txs : t \in Deposits /\ Deposited(t)
  PROVE  MirrorStep
<1>1. txs \in SUBSET Transactions
  BY DEF Transactions
<1>2. /\ \A t \in txs : << t, s >> \in Evidence
      /\ \A t \in txs : s \in Mirror!StatusesOf(t) /\ s = Mirror!FirstStatus(t)
      /\ s # "READY_FOR_RELAY"
  BY EvidenceOf, StatusesOfMirror DEF WithdrawalStatuses, DepositStatuses
<1> QED  BY <1>1, <1>2, WriteShows DEF BatchCreateTransactions

\* What an output makes ready to prove, or the part of it that was done.
LEMMA OutputShows ==
  ASSUME StoreTypeOK, UNCHANGED chainVars,
         UNCHANGED << transactionsProven, transactionsFinalized >>,
         NEW log \in outputLogs, NEW part \in SUBSET Withdrawals,
         UpdateToReadyToProve(part, log.l2Block)
  PROVE  MirrorStep
<1> DEFINE txs == {w \in part : AwaitsOutput(w, log.l2Block)}
<1>1. \A w \in txs : /\ w \in Withdrawals
                     /\ OutputCovers(w) /\ status[w] # NoDocument
  BY DEF AwaitsOutput, OutputCovers, NoDocument
<1>2. status' = [t \in Transactions |->
                   IF t \in txs THEN "READY_TO_PROVE" ELSE status[t]]
  BY DEF UpdateToReadyToProve
<1>3. /\ \A w \in txs : << w, "READY_TO_PROVE" >> \in Evidence
      /\ \A w \in txs : "READY_TO_PROVE" \in Mirror!StatusesOf(w)
  BY <1>1, EvidenceOf, StatusesOfMirror DEF WithdrawalStatuses
<1>4. txs \in SUBSET Transactions
  BY DEF Transactions
<1> HIDE DEF txs
<1> QED  BY <1>1, <1>2, <1>3, <1>4, WriteShows

-----------------------------------------------------------------------------
(***************************************************************************)
(* Every step.                                                             *)
(***************************************************************************)
LEMMA EnvironmentShows ==
  ASSUME MirrorInv, Environment  PROVE MirrorStep
<1>1. ChainTypeOK /\ ChainTypeOK' /\ ChainGrows
  BY ChainStep DEF Environment, MirrorInv, JustifiedInv, TypeInv, TypeOK
<1>2. Evidence \subseteq Evidence'
  BY <1>1, EvidenceStays
<1>3. Mirror!ChainsGoOn
  BY <1>2 DEF Mirror!ChainsGoOn, Environment, storeVars
<1> QED  BY <1>3 DEF MirrorStep, Mirror!MirrorNext

\* The steps of the loops.
LEMMA EthereumLoopShows ==
  ASSUME MirrorInv, EthereumLoop  PROVE MirrorStep
<1>1. UNCHANGED chainVars
  BY DEF EthereumLoop
<1>2. ChainTypeOK /\ StoreTypeOK /\ EthTodoOK /\ ProofRead
  BY DEF MirrorInv, JustifiedInv, TypeInv, TypeOK
<1>3. ASSUME \/ EthStart(lastIndexedBlock["ethereum"]) \/ EthSelectBatch
             \/ ProvenDone \/ FinalizedDone \/ OutputsDone \/ EthAdvance
             \/ \E log \in ethTodo : ProvenReadPortal(log)
      PROVE  MirrorStep
  BY <1>1, <1>3, NothingShows
  DEF EthStart, EthSelectBatch, ProvenDone, FinalizedDone, OutputsDone,
      EthAdvance, ProvenReadPortal, storeVars
<1>4. ASSUME IndexL1Deposits  PROVE MirrorStep
  <2>1. \A d \in DepositsInBatch : d \in Deposits /\ Deposited(d)
    BY <1>2 DEF DepositsInBatch, Filter, Deposited, ChainTypeOK
  <2> QED  BY <1>1, <1>2, <1>4, <2>1, CreateShows DEF IndexL1Deposits
<1>5. ASSUME NEW log \in ethTodo, ProvenSetStatus(log)  PROVE MirrorStep
  <2>1. log.withdrawal \in Withdrawals /\ Proven(log.withdrawal)
    BY <1>2, <1>5 DEF ProvenSetStatus, EthTodoOK, ChainTypeOK, Proven
  <2>2. /\ << log.withdrawal, "IN_CHALLENGE_PERIOD" >> \in Evidence
        /\ "IN_CHALLENGE_PERIOD" \in Mirror!StatusesOf(log.withdrawal)
    BY <2>1, EvidenceOf, StatusesOfMirror DEF WithdrawalStatuses
  <2> QED  BY <1>1, <1>2, <1>5, <2>1, <2>2, UpdateShows
           DEF ProvenSetStatus, UpdateTransactionStatusByWithdrawalHash,
               Transactions
<1>6. ASSUME NEW log \in ethTodo, ProvenCreateRecord(log)  PROVE MirrorStep
  <2> DEFINE w == log.withdrawal
  <2>1. w \in Withdrawals /\ Proven(w)
    BY <1>2, <1>6 DEF ProvenCreateRecord, EthTodoOK, ChainTypeOK, Proven
  <2>2. {r.withdrawal : r \in transactionsProven'}
          = {r.withdrawal : r \in transactionsProven} \cup {w}
    <3>1. transactionsProven' =
            {r \in transactionsProven : r.withdrawal # w}
              \cup {[withdrawal |-> w, time |-> ethProof]}
      BY <1>6 DEF ProvenCreateRecord, CreateTransactionProven
    <3>2. ASSUME NEW r \in transactionsProven
          PROVE  r.withdrawal \in {q.withdrawal : q \in transactionsProven'} \cup {w}
      BY <3>1
    <3>3. [withdrawal |-> w, time |-> ethProof] \in transactionsProven'
      BY <3>1
    <3>4. w \in {q.withdrawal : q \in transactionsProven'}
      BY <3>3
    <3>5. \A q \in transactionsProven' :
            q.withdrawal \in {r.withdrawal : r \in transactionsProven} \cup {w}
      BY <3>1
    <3> HIDE DEF w
    <3> QED  BY <3>2, <3>4, <3>5
  <2>3. << w, "IN_CHALLENGE_PERIOD" >> \in Evidence
    BY <2>1, EvidenceOf
  <2>4. Mirror!RecordProven(w)
    BY <1>1, <1>6, <2>2, <2>3, SameEvidence
    DEF Mirror!RecordProven, ProvenCreateRecord
  <2> QED  BY <2>1, <2>4 DEF MirrorStep, Mirror!MirrorNext
<1>7. ASSUME NEW log \in ethTodo, FinalizedSetStatus(log)  PROVE MirrorStep
  <2>1. log.withdrawal \in Withdrawals /\ Finalized(log.withdrawal)
    BY <1>2, <1>7 DEF FinalizedSetStatus, EthTodoOK, ChainTypeOK, Finalized
  <2>2. /\ << log.withdrawal, "RELAYED" >> \in Evidence
        /\ "RELAYED" \in Mirror!StatusesOf(log.withdrawal)
    BY <2>1, EvidenceOf, StatusesOfMirror DEF WithdrawalStatuses
  <2> QED  BY <1>1, <1>2, <1>7, <2>1, <2>2, UpdateShows
           DEF FinalizedSetStatus, UpdateTransactionStatusByWithdrawalHash,
               Transactions
<1>8. ASSUME NEW log \in ethTodo, FinalizedCreateRecord(log)  PROVE MirrorStep
  <2>1. log.withdrawal \in Withdrawals /\ Finalized(log.withdrawal)
    BY <1>2, <1>8 DEF FinalizedCreateRecord, EthTodoOK, ChainTypeOK, Finalized
  <2>2. << log.withdrawal, "RELAYED" >> \in Evidence
    BY <2>1, EvidenceOf
  <2>3. Mirror!RecordFinalized(log.withdrawal)
    BY <1>1, <1>8, <2>2, SameEvidence
    DEF Mirror!RecordFinalized, FinalizedCreateRecord,
        CreateTransactionFinalized
  <2> QED  BY <2>1, <2>3 DEF MirrorStep, Mirror!MirrorNext
<1>9. ASSUME NEW log \in ethTodo, OutputProposed(log)  PROVE MirrorStep
  <2>1. log \in outputLogs
    BY <1>2, <1>9 DEF OutputProposed, EthTodoOK
  <2> QED  BY <1>1, <1>2, <1>9, <2>1, OutputShows
           DEF OutputProposed, UpdateWithdrawalsToReadyToProve
<1> QED
  BY <1>3, <1>4, <1>5, <1>6, <1>7, <1>8, <1>9 DEF EthereumLoop, EthStep

\* The same for the second loop.
LEMMA LightLinkLoopShows ==
  ASSUME MirrorInv, LightLinkLoop  PROVE MirrorStep
<1>1. UNCHANGED chainVars
  BY DEF LightLinkLoop
<1>2. ChainTypeOK /\ StoreTypeOK /\ LlTypeOK
  BY DEF MirrorInv, JustifiedInv, TypeInv, TypeOK
<1>3. ASSUME \/ LlStart(lastIndexedBlock["lightlink"]) \/ LlSelectBatch
             \/ RelayedDone \/ LlAdvance
      PROVE  MirrorStep
  BY <1>1, <1>3, NothingShows
  DEF LlStart, LlSelectBatch, RelayedDone, LlAdvance, storeVars
<1>4. ASSUME IndexL2Withdrawals  PROVE MirrorStep
  <2>1. \A w \in WithdrawalsInBatch : w \in Withdrawals /\ Initiated(w)
    BY <1>2 DEF WithdrawalsInBatch, Filter, Initiated, ChainTypeOK
  <2> QED  BY <1>1, <1>2, <1>4, <2>1, CreateShows DEF IndexL2Withdrawals
<1>5. ASSUME NEW log \in llTodo, RelayedMessage(log)  PROVE MirrorStep
  <2>1. log.deposit \in Deposits /\ RelayedOnL2(log.deposit)
    BY <1>2 DEF LlTypeOK, ChainTypeOK, RelayedOnL2
  <2>2. /\ << log.deposit, "RELAYED" >> \in Evidence
        /\ "RELAYED" \in Mirror!StatusesOf(log.deposit)
    BY <2>1, EvidenceOf, StatusesOfMirror DEF DepositStatuses
  <2> QED  BY <1>1, <1>2, <1>5, <2>1, <2>2, UpdateShows
           DEF RelayedMessage, UpdateTransactionByMessageHash, Transactions
<1> QED  BY <1>3, <1>4, <1>5 DEF LightLinkLoop, LlStep

\* A checker writes what it once read; READY_FOR_RELAY only after a record.
LEMMA CheckersShow ==
  ASSUME MirrorInv, Checkers(CheckerStep)  PROVE MirrorStep
<1>1. UNCHANGED chainVars
  BY DEF Checkers
<1>2. ChainTypeOK /\ StoreTypeOK /\ CheckersTypeOK /\ ListsLogged /\ ListedHaveRecord
  BY DEF MirrorInv, JustifiedInv, TypeInv, TypeOK
<1>3. ASSUME \/ ProvenCheckerList \/ FinalizedCheckerList \/ ReadyCheckerList
             \/ \E w \in provenList : ProvenCheckerFind(w)
             \/ \E w \in finalizedList : FinalizedCheckerFind(w)
             \/ \E w \in readyMatched : ReadyCheckerLookup(w)
      PROVE  MirrorStep
  BY <1>1, <1>3, NothingShows
  DEF ProvenCheckerList, FinalizedCheckerList, ReadyCheckerList, ReadyCheckerLookup,
      ProvenCheckerFind, FinalizedCheckerFind, storeVars
<1>4. ASSUME NEW w \in provenHit, ProvenCheckerUpdate(w)  PROVE MirrorStep
  <2>1. w \in Withdrawals /\ Proven(w)
    BY <1>2 DEF CheckersTypeOK, ListsLogged
  <2>2. /\ << w, "IN_CHALLENGE_PERIOD" >> \in Evidence
        /\ "IN_CHALLENGE_PERIOD" \in Mirror!StatusesOf(w)
    BY <2>1, EvidenceOf, StatusesOfMirror DEF WithdrawalStatuses
  <2> QED  BY <1>1, <1>2, <1>4, <2>1, <2>2, UpdateShows
           DEF ProvenCheckerUpdate, UpdateTransactionStatusByWithdrawalHash,
               Transactions
<1>5. ASSUME NEW w \in finalizedHit, FinalizedCheckerUpdate(w)  PROVE MirrorStep
  <2>1. w \in Withdrawals /\ Finalized(w)
    BY <1>2 DEF CheckersTypeOK, ListsLogged
  <2>2. << w, "RELAYED" >> \in Evidence /\ "RELAYED" \in Mirror!StatusesOf(w)
    BY <2>1, EvidenceOf, StatusesOfMirror DEF WithdrawalStatuses
  <2> QED  BY <1>1, <1>2, <1>5, <2>1, <2>2, UpdateShows
           DEF FinalizedCheckerUpdate, UpdateTransactionStatusByWithdrawalHash,
               Transactions
<1>6. ASSUME NEW r \in readyList, ReadyCheckerUpdate(r)  PROVE MirrorStep
  <2>1. UNCHANGED << transactionsProven, transactionsFinalized >>
    BY <1>6 DEF ReadyCheckerUpdate
  <2>2. CASE ~ChallengePeriodOver(r)
    BY <1>1, <1>6, <2>1, <2>2, NothingShows DEF ReadyCheckerUpdate
  <2>3. CASE ChallengePeriodOver(r)
    <3> DEFINE w == r.withdrawal
    <3>1. w \in Withdrawals /\ ProofLogged(w, r.time) /\ HasProvenRecord(w)
      BY <1>2 DEF CheckersTypeOK, ListsLogged, ListedHaveRecord
    <3>2. ChallengeOver(w)
      BY <2>3, <3>1 DEF ProofLogged, ChallengePeriodOver, ChallengeOver
    <3>3. /\ << w, "READY_FOR_RELAY" >> \in Evidence
          /\ "READY_FOR_RELAY" \in Mirror!StatusesOf(w)
      BY <3>1, <3>2, EvidenceOf, StatusesOfMirror DEF WithdrawalStatuses
    <3>4. SetStatus(w, "READY_FOR_RELAY")
      BY <1>6, <2>3
      DEF ReadyCheckerUpdate, UpdateTransactionStatusByWithdrawalHash
    <3> QED  BY <1>1, <1>2, <2>1, <3>1, <3>3, <3>4, UpdateShows
             DEF Transactions
  <2> QED  BY <2>2, <2>3
<1> QED
  BY <1>3, <1>4, <1>5, <1>6
  DEF Checkers, CheckerStep, ProvenCheckerStep, FinalizedCheckerStep,
      ReadyCheckerStep

\* What a bulk write had done when it failed is a write too.
LEMMA FaultShows ==
  ASSUME MirrorInv,
         \/ LoopFault \/ ReadFault \/ Exit \/ Stop \/ Restart
         \/ \E c \in CheckerNames : CheckerFault(c)
  PROVE  MirrorStep
<1>1. UNCHANGED chainVars
  BY DEF LoopFault, ReadFault, CheckerFault, Exit, Stop, EndProcess, Restart
<1>2. ChainTypeOK /\ StoreTypeOK /\ EthTodoOK
  BY DEF MirrorInv, JustifiedInv, TypeInv, TypeOK
<1>3. CASE UNCHANGED storeVars
  BY <1>1, <1>3, NothingShows DEF storeVars
<1>4. ASSUME NEW txs \in SUBSET DepositsInBatch, IndexL1DepositsFails(txs)
      PROVE  MirrorStep
  <2>1. \A d \in txs : d \in Deposits /\ Deposited(d)
    BY <1>2 DEF DepositsInBatch, Filter, Deposited, ChainTypeOK
  <2> QED  BY <1>1, <1>2, <1>4, <2>1, CreateShows
           DEF IndexL1DepositsFails
<1>5. ASSUME NEW txs \in SUBSET WithdrawalsInBatch, IndexL2WithdrawalsFails(txs)
      PROVE  MirrorStep
  <2>1. \A w \in txs : w \in Withdrawals /\ Initiated(w)
    BY <1>2 DEF WithdrawalsInBatch, Filter, Initiated, ChainTypeOK
  <2> QED  BY <1>1, <1>2, <1>5, <2>1, CreateShows DEF IndexL2WithdrawalsFails
<1>6. ASSUME NEW log \in ethTodo, NEW txs \in SUBSET Withdrawals,
             OutputProposedFails(log, txs)
      PROVE  MirrorStep
  <2>1. log \in outputLogs
    BY <1>2, <1>6 DEF OutputProposedFails, EthTodoOK
  <2> QED  BY <1>1, <1>2, <1>6, <2>1, OutputShows DEF OutputProposedFails
<1> QED
  BY <1>3, <1>4, <1>5, <1>6
  DEF LoopFault, EthFail, LlFail, ReadFault, EthStart, LlStart, CheckerFault,
      CheckerFail, Exit, Stop, EndProcess, Restart

\* Every step is one of the mirror or does not show.
LEMMA NextShows ==
  ASSUME MirrorInv, [Next]_vars  PROVE MirrorStep
<1>1. CASE UNCHANGED vars
  BY <1>1, NothingShows DEF vars, storeVars
<1> QED
  BY <1>1, EnvironmentShows, EthereumLoopShows, LightLinkLoopShows,
     CheckersShow, FaultShows, WaitingChangesNothing DEF Next

\* The database only shows what the mirror of the chains shows: whatever the
\* loops, the checkers with their stale lists, the faults and the restarts do,
\* each write is of a status that the chains justify, a document is created
\* with its first status, and no document or record is ever taken away.
THEOREM DatabaseMirrorsChains == Spec => ImplementsStatusMirror
<1>1. Init => MirrorInv
  BY InitTypeInv
  DEF Init, StoreInit, CheckersInit, MirrorInv, ListedHaveRecord, JustifiedInv,
      RecordsLogged, ListsLogged, StatusJustified, Transactions, NoDocument
<1>2. Init => Mirror!MirrorInit
  <2> SUFFICES ASSUME Init  PROVE Mirror!MirrorInit
    OBVIOUS
  <2>1. Evidence = {}
    BY DEF Init, ChainInit, Evidence, Initiated, OutputCovers, Proven,
           ChallengeOver, Finalized, Deposited, RelayedOnL2
  <2> QED  BY <2>1
           DEF Init, StoreInit, Mirror!MirrorInit, Mirror!Transactions,
               Transactions, Mirror!NoDocument, NoDocument
<1>3. MirrorInv /\ [Next]_vars => MirrorInv'
  BY NextMirrorInv
<1>4. MirrorInv /\ [Next]_vars => [Mirror!MirrorNext]_(Mirror!mirrorVars)
  BY NextShows DEF MirrorStep
<1> QED
  BY <1>1, <1>2, <1>3, <1>4, PTL
  DEF Spec, ImplementsStatusMirror, Mirror!MirrorSpec

-----------------------------------------------------------------------------
(***************************************************************************)
(* The order in which the statuses of a withdrawal are written.  What the  *)
(* loop has written for a finalization, it has written after what it wrote *)
(* for the proofs: a proof is mined in an earlier block, and within one    *)
(* batch the proofs come first.                                            *)
(***************************************************************************)
ProofsBeforeFinalization ==
  \A l \in provenLogs, f \in finalizedLogs :
    l.withdrawal = f.withdrawal => l.block < f.block

AfterProofs == {"finalized", "finalizedRecord", "outputs", "cursor"}

\* The loop has recorded the proof l.
ProofBehind(l) ==
  /\ ethPc # "start"
  /\ \/ l.block < ethStart
     \/ /\ l.block <= ethEnd
        /\ \/ ethPc \in {"proven", "portal", "record"} /\ l \notin ethTodo
           \/ ethPc \in AfterProofs

\* The loop is past the proofs of the batch of f.
FinalizationBehind(f) ==
  /\ ethPc # "start"
  /\ \/ f.block < ethStart
     \/ f.block <= ethEnd /\ ethPc \in AfterProofs

ProofIsBehind(w) ==
  \E l \in provenLogs : l.withdrawal = w /\ ProofBehind(l)

FinalizationIsBehind(w) ==
  \E f \in finalizedLogs : f.withdrawal = w /\ FinalizationBehind(f)

ReadyAfterProof ==
  \A w \in Withdrawals :
    status[w] = "READY_FOR_RELAY" \/ HasProvenRecord(w) => ProofIsBehind(w)

RelayedAfterFinalization ==
  \A w \in Withdrawals :
    status[w] = "RELAYED" \/ HasFinalizedRecord(w) \/ w \in finalizedHit
      => FinalizationIsBehind(w)

WithdrawalsTyped ==
  \A w \in Withdrawals : status[w] \in WithdrawalStatuses \cup {NoDocument}

TodoInBatch ==
  ethTodo # {} =>
    /\ ethPc \in EthBatchPcs \ {"deposits", "cursor"}
    /\ \A l \in ethTodo : l.block \in ethStart .. ethEnd

FlowInv ==
  /\ ResetInv /\ MirrorInv
  /\ ProofsBeforeFinalization
  /\ WithdrawalsTyped
  /\ TodoInBatch
  /\ faults = 0 => ReadyAfterProof /\ RelayedAfterFinalization

-----------------------------------------------------------------------------
\* A withdrawal is proven before it is finalized, and not after.
LEMMA ProofsComeFirst ==
  ASSUME ChainTypeOK, ProofsBeforeFinalization, ChainNext
  PROVE  ProofsBeforeFinalization'
<1>1. CASE UNCHANGED << provenLogs, finalizedLogs >>
  BY <1>1 DEF ProofsBeforeFinalization
<1>2. ASSUME NEW w \in Withdrawals, ProveWithdrawal(w)
      PROVE  ProofsBeforeFinalization'
  BY <1>2 DEF ProveWithdrawal, MineL1, Finalized, ProofsBeforeFinalization
<1>3. ASSUME NEW w \in Withdrawals, FinalizeWithdrawal(w)
      PROVE  ProofsBeforeFinalization'
  <2>1. \A l \in provenLogs : l.block < l1Head + 1
    BY DEF ChainTypeOK
  <2> QED
    BY <1>3, <2>1 DEF FinalizeWithdrawal, MineL1, ProofsBeforeFinalization
<1> QED
  BY <1>1, <1>2, <1>3
  DEF ChainNext, EmptyL1Block, EmptyL2Block, InitiateWithdrawal, MakeDeposit,
      RelayDeposit, ProposeOutput, Rollback, Tick, MineL1, MineL2

\* Everything that writes the status of a withdrawal.
WrittenByLoop(w) ==
  \/ /\ status[w] = "STATE_ROOT_NOT_PUBLISHED"
     /\ status'[w] = "READY_TO_PROVE"
  \/ \E log \in ethTodo :
       /\ ProvenSetStatus(log) /\ log.withdrawal = w
       /\ status'[w] = "IN_CHALLENGE_PERIOD"
  \/ \E log \in ethTodo :
       /\ FinalizedSetStatus(log) /\ log.withdrawal = w
       /\ status'[w] = "RELAYED"

WrittenByChecker(w) ==
  \/ w \in provenHit \ provenHit' /\ status'[w] = "IN_CHALLENGE_PERIOD"
  \/ w \in finalizedHit /\ status'[w] = "RELAYED"
  \/ /\ status'[w] = "READY_FOR_RELAY"
     /\ \E r \in readyList \ readyList' : r.withdrawal = w

\* The first loop writes withdrawals for outputs, proofs and finalizations.
LEMMA EthereumLoopWrites ==
  ASSUME TypeInv, EthereumLoop, NEW w \in Withdrawals, status'[w] # status[w]
  PROVE  WrittenByLoop(w)
<1>1. ChainTypeOK /\ StoreTypeOK /\ w \in Transactions
  BY DEF TypeInv, TypeOK, Transactions
<1>2. ~IndexL1Deposits
  <2>1. DepositsInBatch \subseteq Deposits
    BY <1>1 DEF DepositsInBatch, Filter, ChainTypeOK
  <2> QED
    BY <1>1, <2>1, ChainsAssumption
    DEF IndexL1Deposits, BatchCreateTransactions
<1>3. ASSUME NEW log \in ethTodo, ProvenSetStatus(log)
      PROVE  WrittenByLoop(w)
  <2>1. SetStatus(log.withdrawal, "IN_CHALLENGE_PERIOD")
    BY <1>3 DEF ProvenSetStatus, UpdateTransactionStatusByWithdrawalHash
  <2>2. log.withdrawal = w /\ status'[w] = "IN_CHALLENGE_PERIOD"
    BY <1>1, <2>1 DEF SetStatus, StoreTypeOK
  <2> QED  BY <1>3, <2>2 DEF WrittenByLoop
<1>4. ASSUME NEW log \in ethTodo, FinalizedSetStatus(log)
      PROVE  WrittenByLoop(w)
  <2>1. SetStatus(log.withdrawal, "RELAYED")
    BY <1>4 DEF FinalizedSetStatus, UpdateTransactionStatusByWithdrawalHash
  <2>2. log.withdrawal = w /\ status'[w] = "RELAYED"
    BY <1>1, <2>1 DEF SetStatus, StoreTypeOK
  <2> QED  BY <1>4, <2>2 DEF WrittenByLoop
<1>5. ASSUME NEW log \in ethTodo, OutputProposed(log)
      PROVE  WrittenByLoop(w)
  BY <1>1, <1>5
  DEF OutputProposed, UpdateWithdrawalsToReadyToProve, UpdateToReadyToProve, AwaitsOutput,
      WrittenByLoop
<1>6. CASE UNCHANGED status
  BY <1>6
<1> QED
  BY <1>2, <1>3, <1>4, <1>5, <1>6
  DEF EthereumLoop, EthStep, EthStart, EthSelectBatch, ProvenReadPortal,
      ProvenCreateRecord, ProvenDone, FinalizedCreateRecord, FinalizedDone,
      OutputsDone, EthAdvance, storeVars

\* The checkers write what is on their lists.
LEMMA CheckersWrite ==
  ASSUME TypeInv, Checkers(CheckerStep), NEW w \in Withdrawals,
         status'[w] # status[w]
  PROVE  WrittenByChecker(w)
<1>1. StoreTypeOK /\ w \in Transactions
  BY DEF TypeInv, TypeOK, Transactions
<1>2. ASSUME NEW v, NEW s, SetStatus(v, s)
      PROVE  v = w /\ status'[w] = s
  BY <1>1, <1>2 DEF SetStatus, StoreTypeOK
<1>3. ASSUME NEW v \in provenHit, ProvenCheckerUpdate(v)
      PROVE  WrittenByChecker(w)
  BY <1>2, <1>3
  DEF ProvenCheckerUpdate, UpdateTransactionStatusByWithdrawalHash,
      WrittenByChecker
<1>4. ASSUME NEW v \in finalizedHit, FinalizedCheckerUpdate(v)
      PROVE  WrittenByChecker(w)
  BY <1>2, <1>4
  DEF FinalizedCheckerUpdate, UpdateTransactionStatusByWithdrawalHash,
      WrittenByChecker
<1>5. ASSUME NEW r \in readyList, ReadyCheckerUpdate(r)
      PROVE  WrittenByChecker(w)
  <2>1. SetStatus(r.withdrawal, "READY_FOR_RELAY") /\ readyList' = readyList \ {r}
    BY <1>5 DEF ReadyCheckerUpdate, UpdateTransactionStatusByWithdrawalHash
  <2> QED  BY <1>2, <2>1 DEF WrittenByChecker
<1>6. CASE UNCHANGED status
  BY <1>6
<1> QED
  BY <1>3, <1>4, <1>5, <1>6
  DEF Checkers, CheckerStep, ProvenCheckerStep, ProvenCheckerList,
      ProvenCheckerFind, FinalizedCheckerStep, FinalizedCheckerList,
      FinalizedCheckerFind, ReadyCheckerStep, ReadyCheckerList, ReadyCheckerLookup, storeVars

\* An output that fails had made some withdrawals ready to prove.
MadeReady(w) ==
  status[w] = "STATE_ROOT_NOT_PUBLISHED" /\ status'[w] = "READY_TO_PROVE"

LEMMA FailedOutputWrites ==
  ASSUME NEW log, NEW txs, OutputProposedFails(log, txs),
         NEW w \in Withdrawals, status'[w] # status[w]
  PROVE  MadeReady(w)
BY DEF OutputProposedFails, UpdateToReadyToProve, AwaitsOutput, Transactions,
       MadeReady

\* The second loop and what it had done when it failed only create.
LEMMA BulkWriteCreates ==
  ASSUME TypeInv,
         \/ LightLinkLoop
         \/ \E txs \in SUBSET DepositsInBatch : IndexL1DepositsFails(txs)
         \/ \E txs \in SUBSET WithdrawalsInBatch : IndexL2WithdrawalsFails(txs),
         NEW w \in Withdrawals, status'[w] # status[w]
  PROVE  BulkWrite /\ status'[w] = "STATE_ROOT_NOT_PUBLISHED"
<1>1. ChainTypeOK /\ StoreTypeOK /\ LlTypeOK /\ w \in Transactions /\ w \notin Deposits
  BY ChainsAssumption DEF TypeInv, TypeOK, Transactions
<1>2. DepositsInBatch \subseteq Deposits
  BY <1>1 DEF DepositsInBatch, Filter, ChainTypeOK
<1>3. ASSUME NEW txs \in SUBSET DepositsInBatch, IndexL1DepositsFails(txs)
      PROVE  FALSE
  BY <1>1, <1>2, <1>3
  DEF IndexL1DepositsFails, BatchCreateTransactions
<1>4. ASSUME NEW log \in llTodo, RelayedMessage(log)
      PROVE  FALSE
  <2>1. log.deposit \in Deposits
    BY <1>1 DEF LlTypeOK, ChainTypeOK
  <2> QED  BY <1>1, <1>4, <2>1
           DEF RelayedMessage, UpdateTransactionByMessageHash, SetStatus,
               StoreTypeOK
<1>5. CASE \/ IndexL2Withdrawals
           \/ \E txs \in SUBSET WithdrawalsInBatch : IndexL2WithdrawalsFails(txs)
  BY <1>1, <1>5
  DEF IndexL2Withdrawals, IndexL2WithdrawalsFails, BatchCreateTransactions,
      BulkWrite
<1>6. CASE UNCHANGED status
  BY <1>6
<1> QED
  BY <1>3, <1>4, <1>5, <1>6
  DEF LightLinkLoop, LlStep, LlStart, LlSelectBatch, RelayedDone, LlAdvance,
      storeVars

\* Nothing else writes the status of a withdrawal.
LEMMA WithdrawalWrites ==
  ASSUME TypeInv, [Next]_vars, NEW w \in Withdrawals, status'[w] # status[w]
  PROVE  \/ BulkWrite /\ status'[w] = "STATE_ROOT_NOT_PUBLISHED"
         \/ EthereumLoop /\ WrittenByLoop(w)
         \/ Checkers(CheckerStep) /\ WrittenByChecker(w)
         \/ MadeReady(w)
<1>1. CASE UNCHANGED status
  BY <1>1
<1>2. CASE \/ LightLinkLoop
           \/ \E txs \in SUBSET DepositsInBatch : IndexL1DepositsFails(txs)
           \/ \E txs \in SUBSET WithdrawalsInBatch : IndexL2WithdrawalsFails(txs)
  BY <1>2, BulkWriteCreates
<1>3. CASE LoopFault
  BY <1>1, <1>2, <1>3, FailedOutputWrites
  DEF LoopFault, EthFail, LlFail, storeVars
<1>4. CASE \/ Environment \/ ReadFault \/ Exit \/ Stop \/ Restart
           \/ UNCHANGED vars \/ \E c \in CheckerNames : CheckerFault(c)
  BY <1>1, <1>4
  DEF Environment, ReadFault, EthStart, LlStart, Exit, Stop, EndProcess,
      Restart, CheckerFault, CheckerFail, vars, storeVars
<1> QED
  BY <1>1, <1>2, <1>3, <1>4, EthereumLoopWrites, CheckersWrite,
     WaitingChangesNothing DEF Next, vars, storeVars

-----------------------------------------------------------------------------
\* Withdrawals carry the statuses of withdrawals.
LEMMA WithdrawalsStayTyped ==
  ASSUME TypeInv, WithdrawalsTyped, [Next]_vars  PROVE WithdrawalsTyped'
<1> SUFFICES ASSUME NEW w \in Withdrawals
             PROVE  status'[w] \in WithdrawalStatuses \cup {NoDocument}
  BY DEF WithdrawalsTyped
<1>1. CASE status'[w] = status[w]
  BY <1>1 DEF WithdrawalsTyped
<1>2. CASE status'[w] # status[w]
  BY <1>2, WithdrawalWrites
  DEF WrittenByLoop, MadeReady, WrittenByChecker, WithdrawalStatuses
<1> QED  BY <1>1, <1>2

\* What an iterator has still to yield is in the blocks of the batch.
LEMMA TodoStaysInBatch ==
  ASSUME TypeInv, TodoInBatch, [Next]_vars  PROVE TodoInBatch'
<1>1. CASE ethTodo' = {}
  BY <1>1 DEF TodoInBatch
<1>2. CASE UNCHANGED << ethPc, ethStart, ethEnd, ethTodo >>
  BY <1>2 DEF TodoInBatch
<1>3. ASSUME NEW logs, ethTodo' = Filter(logs, ethStart, ethEnd),
             UNCHANGED << ethStart, ethEnd >>,
             ethPc' \in EthBatchPcs \ {"deposits", "cursor"}
      PROVE  TodoInBatch'
  BY <1>3 DEF Filter, TodoInBatch
<1>4. ASSUME ethTodo # {}, ethTodo' \subseteq ethTodo,
             UNCHANGED << ethStart, ethEnd >>,
             ethPc' \in EthBatchPcs \ {"deposits", "cursor"}
      PROVE  TodoInBatch'
  BY <1>4 DEF TodoInBatch
<1>5. CASE EthereumLoop
  <2>1. CASE IndexL1Deposits
    BY <1>3, <2>1 DEF IndexL1Deposits, EthBatchPcs
  <2>2. CASE ProvenDone
    BY <1>3, <2>2 DEF ProvenDone, EthBatchPcs
  <2>3. CASE FinalizedDone
    BY <1>3, <2>3 DEF FinalizedDone, EthBatchPcs
  <2>4. ASSUME NEW log \in ethTodo,
               \/ ProvenSetStatus(log) \/ ProvenReadPortal(log)
               \/ ProvenCreateRecord(log) \/ FinalizedSetStatus(log)
               \/ FinalizedCreateRecord(log) \/ OutputProposed(log)
        PROVE  TodoInBatch'
    BY <1>4, <2>4
    DEF ProvenSetStatus, ProvenReadPortal, ProvenCreateRecord,
        FinalizedSetStatus, FinalizedCreateRecord, OutputProposed, EthBatchPcs
  <2>5. CASE OutputsDone
    BY <1>1, <2>5 DEF OutputsDone
  <2>6. CASE EthStart(lastIndexedBlock["ethereum"]) \/ EthSelectBatch \/ EthAdvance
    <3>1. ethTodo = {} /\ ethTodo' = ethTodo
      BY <2>6
      DEF EthStart, EthSelectBatch, EthAdvance, TodoInBatch, EthBatchPcs
    <3> QED  BY <1>1, <3>1
  <2> QED  BY <1>5, <2>1, <2>2, <2>3, <2>4, <2>5, <2>6
           DEF EthereumLoop, EthStep
<1>6. CASE LoopFault \/ ReadFault \/ Exit \/ Stop \/ Restart
  <2>1. CASE ethTodo' = ethTodo /\ ethPc \in {"start", "down"}
    <3>1. ethTodo = {}
      BY <2>1 DEF TodoInBatch, EthBatchPcs
    <3> QED  BY <1>1, <2>1, <3>1
  <2> QED
    BY <1>1, <1>2, <1>6, <2>1
    DEF LoopFault, EthFail, IndexL1DepositsFails, OutputProposedFails, EthIdle, ethVars, ReadFault,
        EthStart, Exit, Stop, EndProcess, Restart, Up
<1>7. CASE \/ Environment \/ LightLinkLoop \/ Checkers(CheckerStep)
           \/ UNCHANGED vars \/ \E c \in CheckerNames : CheckerFault(c)
  BY <1>2, <1>7
  DEF Environment, LightLinkLoop, Checkers, CheckerFault, vars, ethVars
<1> QED  BY <1>5, <1>6, <1>7, WaitingChangesNothing DEF Next

\* As long as nothing fails, only the loop itself changes where it is.
LEMMA QuietStep ==
  ASSUME TypeInv, LoopsRun, faults = 0, faults' = 0, [Next]_vars
  PROVE  \/ EthereumLoop
         \/ UNCHANGED << ethPc, ethStart, ethEnd, ethTodo >>
            /\ UNCHANGED << transactionsProven, transactionsFinalized >>
<1>1. ~(LoopFault \/ ReadFault \/ Stop \/ \E c \in CheckerNames : CheckerFault(c))
  BY DEF LoopFault, ReadFault, Stop, CheckerFault, Fault
<1>2. ~(Exit \/ Restart)
  BY DEF Exit, Restart, Up, LoopsRun, EthRunningPcs, EthBatchPcs, LlRunningPcs,
         LlBatchPcs
<1>3. CASE LightLinkLoop
  BY <1>3
  DEF LightLinkLoop, LlStep, LlStart, LlSelectBatch, IndexL2Withdrawals,
      RelayedMessage, RelayedDone, LlAdvance, storeVars, ethVars
<1>4. CASE Checkers(CheckerStep)
  BY <1>4
  DEF Checkers, CheckerStep, ProvenCheckerStep, ProvenCheckerList,
      ProvenCheckerFind, ProvenCheckerUpdate, FinalizedCheckerStep,
      FinalizedCheckerList, FinalizedCheckerFind, FinalizedCheckerUpdate,
      ReadyCheckerStep, ReadyCheckerList, ReadyCheckerLookup, ReadyCheckerUpdate, storeVars,
      ethVars
<1>5. CASE Environment \/ UNCHANGED vars
  BY <1>5 DEF Environment, vars, storeVars, ethVars
<1> QED  BY <1>1, <1>2, <1>3, <1>4, <1>5, WaitingChangesNothing DEF Next

\* What the loop is through with, it stays through with.
LEMMA BehindStays ==
  ASSUME TypeInv, L1Invariant,
         \/ EthereumLoop
         \/ UNCHANGED << ethPc, ethStart, ethEnd, ethTodo >>
  PROVE  /\ \A l \in provenLogs : ProofBehind(l) => ProofBehind(l)'
         /\ \A f \in finalizedLogs : FinalizationBehind(f) => FinalizationBehind(f)'
<1>1. /\ \A l \in provenLogs : l.block \in Nat
      /\ \A f \in finalizedLogs : f.block \in Nat
      /\ ethStart \in Nat /\ ethEnd \in Nat
  BY DEF TypeInv, TypeOK, ChainTypeOK, EthTypeOK
<1>2. CASE UNCHANGED << ethPc, ethStart, ethEnd, ethTodo >>
  BY <1>2 DEF ProofBehind, FinalizationBehind
<1>3. CASE EthStart(lastIndexedBlock["ethereum"])
  BY <1>3 DEF EthStart, ProofBehind, FinalizationBehind
<1>4. CASE EthSelectBatch \/ IndexL1Deposits
  BY <1>4
  DEF EthSelectBatch, IndexL1Deposits, ProofBehind, FinalizationBehind,
      AfterProofs
<1>5. ASSUME NEW log \in ethTodo,
             ProvenSetStatus(log) \/ ProvenReadPortal(log) \/ ProvenCreateRecord(log)
      PROVE  /\ \A l \in provenLogs : ProofBehind(l) => ProofBehind(l)'
             /\ \A f \in finalizedLogs :
                  FinalizationBehind(f) => FinalizationBehind(f)'
  BY <1>5
  DEF ProvenSetStatus, ProvenReadPortal, ProvenCreateRecord, ProofBehind,
      FinalizationBehind, AfterProofs
<1>6. CASE ProvenDone
  BY <1>6 DEF ProvenDone, ProofBehind, FinalizationBehind, AfterProofs
<1>7. ASSUME NEW log \in ethTodo,
             \/ FinalizedSetStatus(log) \/ FinalizedCreateRecord(log)
             \/ OutputProposed(log)
      PROVE  /\ \A l \in provenLogs : ProofBehind(l) => ProofBehind(l)'
             /\ \A f \in finalizedLogs :
                  FinalizationBehind(f) => FinalizationBehind(f)'
  BY <1>7
  DEF FinalizedSetStatus, FinalizedCreateRecord, OutputProposed, ProofBehind,
      FinalizationBehind, AfterProofs
<1>8. CASE FinalizedDone \/ OutputsDone
  BY <1>8
  DEF FinalizedDone, OutputsDone, ProofBehind, FinalizationBehind, AfterProofs
<1>9. CASE EthAdvance
  <2>1. /\ ethStart <= ethEnd /\ ethStart' = ethEnd + 1 /\ ethPc' = "select"
    BY <1>9 DEF EthAdvance, L1Invariant, EthBatchPcs
  <2>2. /\ ethStart \in Nat /\ ethEnd \in Nat /\ ethStart' = ethEnd + 1
        /\ \A l \in provenLogs : l.block \in Nat
        /\ \A f \in finalizedLogs : f.block \in Nat
    BY <1>1, <2>1
  <2>3. ASSUME NEW n \in Nat, n < ethStart \/ n <= ethEnd
        PROVE  n < ethStart'
    BY <2>1, <2>2, <2>3
  <2>4. ASSUME NEW l \in provenLogs, ProofBehind(l)
        PROVE  ProofBehind(l)'
    <3>1. l.block < ethStart'
      BY <2>2, <2>3, <2>4 DEF ProofBehind
    <3> QED  BY <2>1, <3>1 DEF ProofBehind
  <2>5. ASSUME NEW f \in finalizedLogs, FinalizationBehind(f)
        PROVE  FinalizationBehind(f)'
    <3>1. f.block < ethStart'
      BY <2>2, <2>3, <2>5 DEF FinalizationBehind
    <3> QED  BY <2>1, <3>1 DEF FinalizationBehind
  <2> QED  BY <2>4, <2>5
<1> QED
  BY <1>2, <1>3, <1>4, <1>5, <1>6, <1>7, <1>8, <1>9 DEF EthereumLoop, EthStep

\* What a step adds to the records, to the statuses and to the list is of a
\* log that the loop is through with.
LEMMA NewlyWrittenIsBehind ==
  ASSUME FlowInv, faults = 0, faults' = 0, [Next]_vars, NEW w \in Withdrawals
  PROVE  /\ status'[w] = "READY_FOR_RELAY" \/ HasProvenRecord(w)' =>
              \/ status[w] = "READY_FOR_RELAY" \/ HasProvenRecord(w)
              \/ \E l \in provenLogs : l.withdrawal = w /\ ProofBehind(l)'
         /\ status'[w] = "RELAYED" \/ HasFinalizedRecord(w)' \/ w \in finalizedHit' =>
              \/ status[w] = "RELAYED" \/ HasFinalizedRecord(w) \/ w \in finalizedHit
              \/ \E f \in finalizedLogs : f.withdrawal = w /\ FinalizationBehind(f)'
<1>1. /\ TypeInv /\ EthTodoOK /\ TodoInBatch /\ LoopsRun /\ ListedHaveRecord
      /\ ethStart \in Nat /\ ethEnd \in Nat
  BY DEF FlowInv, ResetInv, MirrorInv, CompleteInv, TypeInv, TypeOK, EthTypeOK
<1>2. ASSUME NEW log \in ethTodo, FinalizedSetStatus(log) \/ FinalizedCreateRecord(log)
      PROVE  log \in finalizedLogs /\ FinalizationBehind(log)'
  <2>1. /\ ethPc' \in AfterProofs /\ ethPc' # "start" /\ ethEnd' = ethEnd
        /\ ethPc \in {"finalized", "finalizedRecord"}
    BY <1>2 DEF FinalizedSetStatus, FinalizedCreateRecord, AfterProofs
  <2>2. log \in finalizedLogs /\ log.block \in ethStart .. ethEnd
    BY <1>1, <2>1 DEF EthTodoOK, TodoInBatch
  <2> QED  BY <1>1, <2>1, <2>2 DEF FinalizationBehind
<1>3. ASSUME NEW log \in ethTodo, ProvenCreateRecord(log)
      PROVE  log \in provenLogs /\ ProofBehind(log)'
  <2>1. /\ ethPc = "record" /\ ethPc' = "proven" /\ ethTodo' = ethTodo \ {log}
        /\ ethEnd' = ethEnd
    BY <1>3 DEF ProvenCreateRecord
  <2>2. log \in provenLogs /\ log.block \in ethStart .. ethEnd
    BY <1>1, <2>1 DEF EthTodoOK, TodoInBatch
  <2> QED  BY <1>1, <2>1, <2>2 DEF ProofBehind
<1>4. ASSUME status'[w] = "READY_FOR_RELAY", status[w] # "READY_FOR_RELAY"
      PROVE  HasProvenRecord(w)
  BY <1>1, <1>4, WithdrawalWrites
  DEF WrittenByLoop, MadeReady, WrittenByChecker, ListedHaveRecord
<1>5. ASSUME status'[w] = "RELAYED", status[w] # "RELAYED"
      PROVE  \/ w \in finalizedHit
             \/ \E f \in finalizedLogs : f.withdrawal = w /\ FinalizationBehind(f)'
  <2>1. CASE w \in finalizedHit
    BY <2>1
  <2>2. CASE w \notin finalizedHit
    <3>1. PICK log \in ethTodo : FinalizedSetStatus(log) /\ log.withdrawal = w
      BY <1>1, <1>5, <2>2, WithdrawalWrites
      DEF WrittenByLoop, MadeReady, WrittenByChecker
    <3> QED  BY <1>2, <3>1
  <2> QED  BY <2>1, <2>2
<1>6. ASSUME HasProvenRecord(w)', ~HasProvenRecord(w)
      PROVE  \E l \in provenLogs : l.withdrawal = w /\ ProofBehind(l)'
  <2>1. transactionsProven' # transactionsProven
    BY <1>6 DEF HasProvenRecord
  <2>2. PICK log \in ethTodo : ProvenCreateRecord(log)
    BY <1>1, <2>1, QuietStep
    DEF EthereumLoop, EthStep, EthStart, EthSelectBatch, IndexL1Deposits,
        ProvenSetStatus, ProvenReadPortal, ProvenDone, FinalizedSetStatus,
        FinalizedCreateRecord, FinalizedDone, OutputProposed, OutputsDone,
        EthAdvance, storeVars
  <2>3. log.withdrawal = w
    BY <1>6, <2>2
    DEF ProvenCreateRecord, CreateTransactionProven, HasProvenRecord
  <2> QED  BY <1>3, <2>2, <2>3
<1>7. ASSUME HasFinalizedRecord(w)', ~HasFinalizedRecord(w)
      PROVE  \E f \in finalizedLogs : f.withdrawal = w /\ FinalizationBehind(f)'
  <2>1. transactionsFinalized' # transactionsFinalized
    BY <1>7 DEF HasFinalizedRecord
  <2>2. PICK log \in ethTodo : FinalizedCreateRecord(log)
    BY <1>1, <2>1, QuietStep
    DEF EthereumLoop, EthStep, EthStart, EthSelectBatch, IndexL1Deposits,
        ProvenSetStatus, ProvenReadPortal, ProvenCreateRecord, ProvenDone,
        FinalizedSetStatus, FinalizedDone, OutputProposed, OutputsDone,
        EthAdvance, storeVars
  <2>3. log.withdrawal = w
    BY <1>7, <2>2
    DEF FinalizedCreateRecord, CreateTransactionFinalized, HasFinalizedRecord
  <2> QED  BY <1>2, <2>2, <2>3
<1>8. ASSUME w \in finalizedHit', w \notin finalizedHit
      PROVE  HasFinalizedRecord(w)
  <2>1. finalizedHit' # finalizedHit
    BY <1>8
  <2>2. ~(LoopFault \/ ReadFault \/ Stop \/ \E c \in CheckerNames : CheckerFault(c))
    BY DEF LoopFault, ReadFault, Stop, CheckerFault, Fault
  <2>3. ~Exit /\ ~Restart
    BY <1>1
    DEF Exit, Restart, Up, LoopsRun, EthRunningPcs, EthBatchPcs, LlRunningPcs,
        LlBatchPcs
  <2>4. Checkers(CheckerStep)
    BY <2>1, <2>2, <2>3, WaitingChangesNothing
    DEF Next, Environment, EthereumLoop, LightLinkLoop, vars, checkerVars
  <2>5. PICK v \in finalizedList : FinalizedCheckerFind(v)
    BY <1>8, <2>1, <2>4
    DEF Checkers, CheckerStep, ProvenCheckerStep, ProvenCheckerList,
        ProvenCheckerFind, ProvenCheckerUpdate, FinalizedCheckerStep,
        FinalizedCheckerList, FinalizedCheckerUpdate, ReadyCheckerStep,
        ReadyCheckerList, ReadyCheckerLookup, ReadyCheckerUpdate
  <2> QED  BY <1>8, <2>5 DEF FinalizedCheckerFind
<1> QED  BY <1>4, <1>5, <1>6, <1>7, <1>8

\* Every step keeps the invariant.
LEMMA NextFlow ==
  ASSUME FlowInv, [Next]_vars  PROVE FlowInv'
<1>1. ResetInv' /\ MirrorInv' /\ WithdrawalsTyped' /\ TodoInBatch'
  BY NextReset, NextMirrorInv, WithdrawalsStayTyped, TodoStaysInBatch
  DEF FlowInv, ResetInv, CompleteInv
<1>2. TypeInv /\ ChainTypeOK /\ ChainInv /\ faults \in Nat
  BY DEF FlowInv, ResetInv, CompleteInv, TypeInv, TypeOK
<1>3. /\ ProofsBeforeFinalization'
      /\ provenLogs \subseteq provenLogs' /\ finalizedLogs \subseteq finalizedLogs'
  <2>1. CASE Environment
    BY <1>2, <2>1, ProofsComeFirst, ChainStep
    DEF FlowInv, Environment, ChainGrows, NewAbove
  <2>2. CASE ~Environment
    <3>1. UNCHANGED << provenLogs, finalizedLogs >>
      BY <2>2
      DEF Next, EthereumLoop, LightLinkLoop, Waiting, Checkers, LoopFault,
          ReadFault, CheckerFault, Exit, Stop, EndProcess, Restart, vars,
          chainVars
    <3> QED  BY <3>1 DEF FlowInv, ProofsBeforeFinalization
  <2> QED  BY <2>1, <2>2
<1>4. ASSUME faults' = 0
      PROVE  ReadyAfterProof' /\ RelayedAfterFinalization'
  <2>1. ~(LoopFault \/ ReadFault \/ Stop \/ \E c \in CheckerNames : CheckerFault(c))
    BY <1>2, <1>4 DEF LoopFault, ReadFault, Stop, CheckerFault, Fault
  <2>2. faults = 0
    BY <1>4, <2>1
    DEF Next, Environment, EthereumLoop, LightLinkLoop, Waiting, Checkers,
        Exit, Restart, vars
  <2>3. LoopsRun /\ ReadyAfterProof /\ RelayedAfterFinalization /\ L1Invariant
    BY <2>2 DEF FlowInv, ResetInv, CompleteInv
  <2>4. /\ \A l \in provenLogs : ProofBehind(l) => ProofBehind(l)'
        /\ \A f \in finalizedLogs : FinalizationBehind(f) => FinalizationBehind(f)'
    BY <1>2, <1>4, <2>2, <2>3, QuietStep, BehindStays
  <2>5. ReadyAfterProof'
    <3> SUFFICES ASSUME NEW w \in Withdrawals,
                        status'[w] = "READY_FOR_RELAY" \/ HasProvenRecord(w)'
                 PROVE  ProofIsBehind(w)'
      BY DEF ReadyAfterProof
    <3>1. \E l \in provenLogs : l.withdrawal = w /\ ProofBehind(l)'
      BY <1>4, <2>2, <2>3, <2>4, NewlyWrittenIsBehind
      DEF ReadyAfterProof, ProofIsBehind
    <3> QED  BY <1>3, <3>1 DEF ProofIsBehind
  <2>6. RelayedAfterFinalization'
    <3> SUFFICES ASSUME NEW w \in Withdrawals,
                        \/ status'[w] = "RELAYED"
                        \/ HasFinalizedRecord(w)'
                        \/ w \in finalizedHit'
                 PROVE  FinalizationIsBehind(w)'
      BY DEF RelayedAfterFinalization
    <3>1. \E f \in finalizedLogs : f.withdrawal = w /\ FinalizationBehind(f)'
      BY <1>4, <2>2, <2>3, <2>4, NewlyWrittenIsBehind
      DEF RelayedAfterFinalization, FinalizationIsBehind
    <3> QED  BY <1>3, <3>1 DEF FinalizationIsBehind
  <2> QED  BY <2>5, <2>6
<1> QED  BY <1>1, <1>3, <1>4 DEF FlowInv

\* A proof that the loop is about to apply is of a withdrawal that it has not
\* finalized, and that it sets back from READY_FOR_RELAY only as another proof
\* was recorded before.
LEMMA ProofIsNew ==
  ASSUME FlowInv, faults = 0, NEW log \in ethTodo, ProvenSetStatus(log)
  PROVE  /\ status[log.withdrawal] # "RELAYED"
         /\ status[log.withdrawal] = "READY_FOR_RELAY" => ProvenAgain(log.withdrawal)
<1> DEFINE w == log.withdrawal
<1>1. /\ ChainTypeOK /\ EthTodoOK /\ TodoInBatch /\ ProofsBeforeFinalization
      /\ ReadyAfterProof /\ RelayedAfterFinalization
      /\ ethStart \in Nat /\ ethEnd \in Nat /\ ethPc = "proven"
  BY DEF FlowInv, ResetInv, CompleteInv, TypeInv, TypeOK, EthTypeOK,
         ProvenSetStatus
<1>2. /\ log \in provenLogs /\ log.block \in ethStart .. ethEnd
      /\ w \in Withdrawals
  BY <1>1 DEF EthTodoOK, TodoInBatch, ChainTypeOK
<1>3. status[w] # "RELAYED"
  <2> SUFFICES ASSUME status[w] = "RELAYED"  PROVE FALSE
    OBVIOUS
  <2>1. PICK f \in finalizedLogs : f.withdrawal = w /\ FinalizationBehind(f)
    BY <1>1, <1>2 DEF RelayedAfterFinalization, FinalizationIsBehind
  <2>2. f.block < ethStart /\ log.block < f.block /\ f.block \in Nat
    BY <1>1, <1>2, <2>1
    DEF FinalizationBehind, AfterProofs, ProofsBeforeFinalization, ChainTypeOK
  <2> QED  BY <1>1, <1>2, <2>2
<1>4. ASSUME status[w] = "READY_FOR_RELAY"  PROVE ProvenAgain(w)
  <2>1. PICK l \in provenLogs : l.withdrawal = w /\ ProofBehind(l)
    BY <1>1, <1>2, <1>4 DEF ReadyAfterProof, ProofIsBehind
  <2>2. l # log
    BY <1>1, <1>2, <2>1 DEF ProofBehind, AfterProofs
  <2> QED  BY <1>2, <2>1, <2>2 DEF ProvenAgain
<1> QED  BY <1>3, <1>4

\* The ranks of the statuses, as numbers.
LEMMA Ranks ==
  /\ FlowRank(NoDocument) = 0 /\ FlowRank("STATE_ROOT_NOT_PUBLISHED") = 1
  /\ FlowRank("READY_TO_PROVE") = 2 /\ FlowRank("IN_CHALLENGE_PERIOD") = 3
  /\ FlowRank("READY_FOR_RELAY") = 4 /\ FlowRank("RELAYED") = 5
BY DEF FlowRank, NoDocument

\* Without a fault, a withdrawal is set back in the flow of the README only by
\* a checker, from its list, or because it was proven again: the Ethereum loop,
\* which writes without looking at the document, never undoes RELAYED, and
\* neither loop sets back a withdrawal that was proven once.
THEOREM LoopsKeepTheFlow == Spec => LoopsFollowFlow
<1>1. Init => FlowInv
  <2> SUFFICES ASSUME Init  PROVE FlowInv
    OBVIOUS
  <2>1. JustifiedInv /\ MirrorInv
    BY InitTypeInv
    DEF Init, StoreInit, CheckersInit, MirrorInv, ListedHaveRecord,
        JustifiedInv, RecordsLogged, ListsLogged, StatusJustified,
        Transactions, NoDocument
  <2>2. LogsUnique /\ LoopsRun /\ DepositsBehind /\ WithdrawalsBehind
    BY DEF Init, ChainInit, EthInit, LlInit, LogsUnique, LoopsRun,
           DepositsBehind, WithdrawalsBehind, EthRunningPcs, LlRunningPcs
  <2>3. ProofsBeforeFinalization /\ TodoInBatch
    BY DEF Init, ChainInit, EthInit, ProofsBeforeFinalization, TodoInBatch
  <2>4. WithdrawalsTyped /\ ReadyAfterProof /\ RelayedAfterFinalization
    BY DEF Init, StoreInit, CheckersInit, WithdrawalsTyped, ReadyAfterProof,
           RelayedAfterFinalization, HasProvenRecord, HasFinalizedRecord,
           Transactions, NoDocument
  <2> QED  BY <2>1, <2>2, <2>3, <2>4, InitComplete DEF FlowInv, ResetInv
<1>2. FlowInv /\ [Next]_vars => FlowInv'
  BY NextFlow
<1>3. FlowInv /\ [Next]_vars =>
        [\A w \in Withdrawals :
           faults = 0 /\ FlowRank(status'[w]) < FlowRank(status[w]) =>
             \/ /\ status'[w] = "IN_CHALLENGE_PERIOD"
                /\ \/ w \in provenHit \ provenHit'
                   \/ status[w] = "READY_FOR_RELAY" /\ ProvenAgain(w)
             \/ /\ status'[w] = "READY_FOR_RELAY"
                /\ \E r \in readyList \ readyList' : r.withdrawal = w]_vars
  <2> SUFFICES ASSUME FlowInv, [Next]_vars, NEW w \in Withdrawals, faults = 0,
                      FlowRank(status'[w]) < FlowRank(status[w])
               PROVE  \/ /\ status'[w] = "IN_CHALLENGE_PERIOD"
                         /\ \/ w \in provenHit \ provenHit'
                            \/ status[w] = "READY_FOR_RELAY" /\ ProvenAgain(w)
                      \/ /\ status'[w] = "READY_FOR_RELAY"
                         /\ \E r \in readyList \ readyList' : r.withdrawal = w
    OBVIOUS
  <2>1. TypeInv /\ WithdrawalsTyped /\ w \in Transactions
    BY DEF FlowInv, ResetInv, CompleteInv, Transactions
  <2>2. status[w] \in WithdrawalStatuses \cup {NoDocument}
    BY <2>1 DEF WithdrawalsTyped
  <2>3. status'[w] # status[w] /\ status[w] # NoDocument
    BY <2>1, <2>2, WithdrawalsStayTyped, Ranks
    DEF WithdrawalsTyped, WithdrawalStatuses
  <2>4. CASE BulkWrite /\ status'[w] = "STATE_ROOT_NOT_PUBLISHED"
    BY <2>1, <2>3, <2>4, BulkWriteIsNew DEF FlowInv, NoReset, CreatedStatuses
  <2>5. CASE WrittenByLoop(w)
    <3>1. CASE /\ status[w] = "STATE_ROOT_NOT_PUBLISHED"
               /\ status'[w] = "READY_TO_PROVE"
      BY <3>1, Ranks
    <3>2. CASE status'[w] = "RELAYED"
      BY <2>2, <3>2, Ranks DEF WithdrawalStatuses
    <3>3. ASSUME NEW log \in ethTodo, ProvenSetStatus(log), log.withdrawal = w,
                 status'[w] = "IN_CHALLENGE_PERIOD"
          PROVE  status[w] = "READY_FOR_RELAY" /\ ProvenAgain(w)
      <4>1. /\ status[w] # "RELAYED"
            /\ status[w] = "READY_FOR_RELAY" => ProvenAgain(w)
        BY <3>3, ProofIsNew
      <4>2. status[w] = "READY_FOR_RELAY"
        BY <2>2, <3>3, <4>1, Ranks DEF WithdrawalStatuses
      <4> QED  BY <4>1, <4>2
    <3> QED  BY <2>5, <3>1, <3>2, <3>3 DEF WrittenByLoop
  <2>6. CASE WrittenByChecker(w)
    <3>1. CASE status'[w] = "RELAYED"
      BY <2>2, <3>1, Ranks DEF WithdrawalStatuses
    <3> QED  BY <2>6, <3>1 DEF WrittenByChecker
  <2>7. ~MadeReady(w)
    BY Ranks DEF MadeReady
  <2> QED  BY <2>1, <2>3, <2>4, <2>5, <2>6, <2>7, WithdrawalWrites
<1> QED  BY <1>1, <1>2, <1>3, PTL DEF Spec, LoopsFollowFlow
=============================================================================
