-------------------------- MODULE BridgeIndexerProofs --------------------------
(***************************************************************************)
(* Theorems about BridgeIndexer, for any sets of withdrawals and deposits, *)
(* any batch sizes and any number of faults.                               *)
(***************************************************************************)
EXTENDS BridgeIndexer, TLAPS

-----------------------------------------------------------------------------
(***************************************************************************)
(* What holds of the chains alone, and how a step of theirs changes them.  *)
(***************************************************************************)
ProofLogged(w, t) == \E l \in provenLogs : l.withdrawal = w /\ l.time = t

\* The portal's time of a withdrawal is that of one of its proofs, and no two
\* proofs are in the same block.
ChainInv ==
  /\ \A l \in provenLogs : provenWithdrawals[l.withdrawal] > 0
  /\ \A w \in Withdrawals :
       provenWithdrawals[w] > 0 => ProofLogged(w, provenWithdrawals[w])
  /\ \A k, l \in provenLogs : k.block = l.block => k = l

\* Nothing is taken back, and a new log is in a new block.
NewAbove(new, old, head) == old \subseteq new /\ \A l \in new \ old : l.block > head

ChainGrows ==
  /\ l1Head <= l1Head' /\ l2Head <= l2Head' /\ clock <= clock'
  /\ NewAbove(depositLogs', depositLogs, l1Head)
  /\ NewAbove(provenLogs', provenLogs, l1Head)
  /\ NewAbove(finalizedLogs', finalizedLogs, l1Head)
  /\ NewAbove(outputLogs', outputLogs, l1Head)
  /\ NewAbove(withdrawalLogs', withdrawalLogs, l2Head)
  /\ NewAbove(relayLogs', relayLogs, l2Head)

\* A step of the chains keeps their types and their invariant, and only adds.
LEMMA ChainStep ==
  ASSUME ChainTypeOK, ChainInv, ChainNext
  PROVE  ChainTypeOK' /\ ChainInv' /\ ChainGrows
<1> USE ChainsAssumption
<1>1. CASE EmptyL1Block
  BY <1>1
  DEF EmptyL1Block, MineL1, ChainTypeOK, ChainInv, ProofLogged, ChainGrows,
      NewAbove
<1>2. CASE EmptyL2Block
  BY <1>2
  DEF EmptyL2Block, MineL2, ChainTypeOK, ChainInv, ProofLogged, ChainGrows,
      NewAbove
<1>3. ASSUME NEW w \in Withdrawals, InitiateWithdrawal(w)
      PROVE  ChainTypeOK' /\ ChainInv' /\ ChainGrows
  BY <1>3
  DEF InitiateWithdrawal, MineL2, ChainTypeOK, ChainInv, ProofLogged,
      ChainGrows, NewAbove
<1>4. ASSUME NEW w \in Withdrawals, ProveWithdrawal(w)
      PROVE  ChainTypeOK' /\ ChainInv' /\ ChainGrows
  <2> DEFINE log == [withdrawal |-> w, block |-> l1Head + 1, time |-> clock]
  <2>1. provenLogs' = provenLogs \cup {log} /\ l1Head' = l1Head + 1
    BY <1>4 DEF ProveWithdrawal, MineL1
  <2>2. provenWithdrawals' = [provenWithdrawals EXCEPT ![w] = clock]
    BY <1>4 DEF ProveWithdrawal
  <2>3. ChainTypeOK' /\ ChainGrows
    BY <1>4 DEF ProveWithdrawal, MineL1, ChainTypeOK, ChainGrows, NewAbove
  <2>4. ChainInv'
    <3>1. \A l \in provenLogs' : provenWithdrawals'[l.withdrawal] > 0
      BY <2>1, <2>2 DEF ChainTypeOK, ChainInv
    <3>2. ASSUME NEW v \in Withdrawals, provenWithdrawals'[v] > 0
          PROVE  ProofLogged(v, provenWithdrawals[v])'
      <4>1. CASE v = w
        <5>1. log \in provenLogs' /\ log.withdrawal = v /\ log.time = clock
          BY <2>1, <4>1
        <5>2. provenWithdrawals'[v] = clock
          BY <2>2, <4>1 DEF ChainTypeOK
        <5> QED  BY <5>1, <5>2 DEF ProofLogged
      <4>2. CASE v # w
        <5>1. provenWithdrawals'[v] = provenWithdrawals[v]
          BY <2>2, <4>2 DEF ChainTypeOK
        <5>2. PICK l \in provenLogs :
                l.withdrawal = v /\ l.time = provenWithdrawals[v]
          BY <3>2, <5>1 DEF ChainInv, ProofLogged
        <5> QED  BY <5>1, <5>2, <2>1 DEF ProofLogged
      <4> QED  BY <4>1, <4>2
    <3>3. \A k, l \in provenLogs' : k.block = l.block => k = l
      BY <2>1 DEF ChainTypeOK, ChainInv
    <3> QED  BY <3>1, <3>2, <3>3 DEF ChainInv
  <2> QED  BY <2>3, <2>4
<1>5. ASSUME NEW w \in Withdrawals, FinalizeWithdrawal(w)
      PROVE  ChainTypeOK' /\ ChainInv' /\ ChainGrows
  BY <1>5
  DEF FinalizeWithdrawal, MineL1, ChainTypeOK, ChainInv, ProofLogged,
      ChainGrows, NewAbove
<1>6. ASSUME NEW d \in Deposits, MakeDeposit(d)
      PROVE  ChainTypeOK' /\ ChainInv' /\ ChainGrows
  BY <1>6
  DEF MakeDeposit, MineL1, ChainTypeOK, ChainInv, ProofLogged, ChainGrows,
      NewAbove
<1>7. ASSUME NEW d \in Deposits, RelayDeposit(d)
      PROVE  ChainTypeOK' /\ ChainInv' /\ ChainGrows
  BY <1>7
  DEF RelayDeposit, MineL2, ChainTypeOK, ChainInv, ProofLogged, ChainGrows,
      NewAbove
<1>8. ASSUME NEW n \in 1 .. l2Head, ProposeOutput(n)
      PROVE  ChainTypeOK' /\ ChainInv' /\ ChainGrows
  BY <1>8
  DEF ProposeOutput, MineL1, ChainTypeOK, ChainInv, ProofLogged, ChainGrows,
      NewAbove
<1>9. ASSUME NEW n \in 0 .. l2Head, Rollback(n)
      PROVE  ChainTypeOK' /\ ChainInv' /\ ChainGrows
  BY <1>9
  DEF Rollback, MineL1, ChainTypeOK, ChainInv, ProofLogged, ChainGrows,
      NewAbove
<1>10. CASE Tick
  BY <1>10 DEF Tick, ChainTypeOK, ChainInv, ProofLogged, ChainGrows, NewAbove
<1> QED
  BY <1>1, <1>2, <1>3, <1>4, <1>5, <1>6, <1>7, <1>8, <1>9, <1>10 DEF ChainNext

-----------------------------------------------------------------------------
(***************************************************************************)
(* Type correctness.  The time of a proven record is typed only because it *)
(* is the time of a logged proof, so the local variables of the loop that  *)
(* lead to the record are part of the invariant.                           *)
(***************************************************************************)
EthTodoOK ==
  /\ ethPc \in {"proven", "portal", "record"} => ethTodo \subseteq provenLogs
  /\ ethPc \in {"finalized", "finalizedRecord"} =>
       ethTodo \subseteq finalizedLogs
  /\ ethPc = "outputs" => ethTodo \subseteq outputLogs

ProofRead ==
  ethPc = "record" =>
    \A l \in ethTodo :
      IsNextLog(l, ethTodo) => ProofLogged(l.withdrawal, ethProof)

TypeInv == TypeOK /\ ChainInv /\ EthTodoOK /\ ProofRead

\* Two logs that an iterator may yield next are the same one.
LEMMA NextLogUnique ==
  ASSUME ChainTypeOK, ChainInv, ethTodo \subseteq provenLogs,
         NEW k \in ethTodo, NEW l \in ethTodo,
         IsNextLog(k, ethTodo), IsNextLog(l, ethTodo)
  PROVE  k = l
<1>1. k.block \in Int /\ l.block \in Int
  BY DEF ChainTypeOK
<1>2. k.block = l.block
  BY <1>1 DEF IsNextLog
<1> QED  BY <1>2 DEF ChainInv

\* The end of a batch is a block of the chain.
LEMMA BatchEndBound ==
  ASSUME NEW start \in Nat, NEW head \in Nat, NEW min \in Nat,
         NEW max \in Nat \ {0}, BatchReady(start, head, min)
  PROVE  /\ BatchEnd(start, head, max) \in Nat
         /\ BatchEnd(start, head, max) <= head
         /\ start <= BatchEnd(start, head, max)
BY DEF BatchReady, BatchEnd, BatchSize

\* The writes of statuses keep them typed.
LEMMA StatusUpdateTyped ==
  ASSUME StoreTypeOK, NEW s \in MessageStatuses
  PROVE  /\ \A w \in Withdrawals :
              UpdateTransactionStatusByWithdrawalHash(w, s) =>
                status' \in [Transactions -> MessageStatuses \cup {NoDocument}]
         /\ \A txs : BatchCreateTransactions(txs, s) =>
                status' \in [Transactions -> MessageStatuses \cup {NoDocument}]
BY DEF StoreTypeOK, UpdateTransactionStatusByWithdrawalHash, SetStatus,
       BatchCreateTransactions

\* A step of the chains keeps the type invariant.
LEMMA EnvironmentTypeInv ==
  ASSUME TypeInv, Environment
  PROVE  TypeInv'
<1>1. ChainTypeOK' /\ ChainInv' /\ ChainGrows
  BY ChainStep DEF TypeInv, TypeOK, Environment
<1>2. UNCHANGED << storeVars, ethVars, llVars, checkerVars, faults >>
  BY DEF Environment
<1>3. StoreTypeOK'
  BY <1>1, <1>2
  DEF TypeInv, TypeOK, StoreTypeOK, storeVars, ChainGrows, ChainTypeOK
<1>4. EthTypeOK' /\ LlTypeOK'
  BY <1>1, <1>2
  DEF TypeInv, TypeOK, EthTypeOK, LlTypeOK, ethVars, llVars, ChainGrows,
      NewAbove, ChainTypeOK
<1>5. CheckersTypeOK' /\ faults' \in 0 .. MaxFaults
  BY <1>1, <1>2
  DEF TypeInv, TypeOK, CheckersTypeOK, checkerVars, ChainGrows, ChainTypeOK
<1>6. EthTodoOK'
  BY <1>1, <1>2 DEF TypeInv, EthTodoOK, ethVars, ChainGrows, NewAbove
<1>7. ProofRead'
  BY <1>1, <1>2
  DEF TypeInv, ProofRead, ProofLogged, IsNextLog, ethVars, ChainGrows,
      NewAbove
<1> QED  BY <1>1, <1>3, <1>4, <1>5, <1>6, <1>7 DEF TypeInv, TypeOK

\* A step of the Ethereum loop keeps the type invariant.
LEMMA EthereumLoopTypeInv ==
  ASSUME TypeInv, EthereumLoop
  PROVE  TypeInv'
<1> DEFINE Goal == StoreTypeOK' /\ EthTypeOK' /\ EthTodoOK' /\ ProofRead'
<1> USE EthereumIndexerAssumption
<1>1. UNCHANGED << chainVars, llVars, checkerVars, faults >>
  BY DEF EthereumLoop
<1>2. ChainTypeOK' /\ ChainInv' /\ LlTypeOK' /\ CheckersTypeOK'
  BY <1>1
  DEF TypeInv, TypeOK, ChainTypeOK, ChainInv, ProofLogged, LlTypeOK,
      CheckersTypeOK, chainVars, llVars, checkerVars
<1>3. faults' \in 0 .. MaxFaults
  BY <1>1 DEF TypeInv, TypeOK
<1>4. ASSUME EthStart(lastIndexedBlock["ethereum"])  PROVE Goal
  BY <1>4, <1>1
  DEF EthStart, ResumeBlock, TypeInv, TypeOK, StoreTypeOK, EthTypeOK,
      EthTodoOK, ProofRead, storeVars, chainVars, EthPcs, EthRunningPcs,
      IndexedChains
<1>5. ASSUME EthSelectBatch  PROVE Goal
  <2>1. BatchEnd(ethStart, l1Head, L1MaxBatchSize) \in Nat
    BY <1>5, BatchEndBound
    DEF EthSelectBatch, TypeInv, TypeOK, EthTypeOK, ChainTypeOK
  <2> QED  BY <1>5, <1>1, <2>1
           DEF EthSelectBatch, TypeInv, TypeOK, StoreTypeOK, EthTypeOK,
               EthTodoOK, ProofRead, storeVars, chainVars, EthPcs,
               EthRunningPcs, EthBatchPcs
<1>6. ASSUME IndexL1Deposits  PROVE Goal
  <2>1. status' \in [Transactions -> MessageStatuses \cup {NoDocument}]
    BY <1>6, StatusUpdateTyped
    DEF IndexL1Deposits, TypeInv, TypeOK, MessageStatuses, DepositStatuses
  <2> QED  BY <1>6, <1>1, <2>1
           DEF IndexL1Deposits, Filter, TypeInv, TypeOK, StoreTypeOK,
               EthTypeOK, EthTodoOK, ProofRead, chainVars, EthPcs,
               EthRunningPcs, EthBatchPcs
<1>7. ASSUME NEW log \in ethTodo, ProvenSetStatus(log)  PROVE Goal
  <2>1. log \in provenLogs /\ log.withdrawal \in Withdrawals
    BY <1>7 DEF ProvenSetStatus, TypeInv, TypeOK, EthTodoOK, ChainTypeOK
  <2>2. status' \in [Transactions -> MessageStatuses \cup {NoDocument}]
    BY <1>7, <2>1, StatusUpdateTyped
    DEF ProvenSetStatus, TypeInv, TypeOK, MessageStatuses, WithdrawalStatuses
  <2> QED  BY <1>7, <1>1, <2>2
           DEF ProvenSetStatus, TypeInv, TypeOK, StoreTypeOK, EthTypeOK,
               EthTodoOK, ProofRead, chainVars, EthPcs, EthRunningPcs,
               EthBatchPcs
<1>8. ASSUME NEW log \in ethTodo, ProvenReadPortal(log)  PROVE Goal
  <2>1. log \in provenLogs /\ log.withdrawal \in Withdrawals
    BY <1>8 DEF ProvenReadPortal, TypeInv, TypeOK, EthTodoOK, ChainTypeOK
  <2>2. ProofLogged(log.withdrawal, provenWithdrawals[log.withdrawal])
    BY <2>1 DEF TypeInv, ChainInv
  <2>3. ProofRead'
    <3> SUFFICES ASSUME NEW l \in ethTodo', IsNextLog(l, ethTodo')
                 PROVE  ProofLogged(l.withdrawal, ethProof)'
      BY DEF ProofRead
    <3>1. l = log
      BY <1>8, NextLogUnique DEF ProvenReadPortal, TypeInv, TypeOK, EthTodoOK
    <3> QED  BY <1>8, <1>1, <2>2, <3>1
             DEF ProvenReadPortal, ProofLogged, chainVars
  <2>4. ethProof' \in 0 .. clock'
    BY <1>8, <1>1, <2>1
    DEF ProvenReadPortal, TypeInv, TypeOK, ChainTypeOK, chainVars
  <2> QED  BY <1>8, <1>1, <2>3, <2>4
           DEF ProvenReadPortal, TypeInv, TypeOK, StoreTypeOK, EthTypeOK,
               EthTodoOK, storeVars, chainVars, EthPcs, EthRunningPcs,
               EthBatchPcs
<1>9. ASSUME NEW log \in ethTodo, ProvenCreateRecord(log)  PROVE Goal
  <2>1. PICK l \in provenLogs : l.withdrawal = log.withdrawal /\ l.time = ethProof
    BY <1>9 DEF ProvenCreateRecord, TypeInv, ProofRead, ProofLogged
  <2>2. log.withdrawal \in Withdrawals /\ ethProof \in 1 .. clock
    BY <2>1 DEF TypeInv, TypeOK, ChainTypeOK
  <2>3. transactionsProven' \subseteq [withdrawal : Withdrawals, time : 1 .. clock]
    BY <1>9, <2>2
    DEF ProvenCreateRecord, CreateTransactionProven, TypeInv, TypeOK,
        StoreTypeOK
  <2> QED  BY <1>9, <1>1, <2>3
           DEF ProvenCreateRecord, TypeInv, TypeOK, StoreTypeOK, EthTypeOK,
               EthTodoOK, ProofRead, chainVars, EthPcs, EthRunningPcs,
               EthBatchPcs, ChainTypeOK
<1>10. ASSUME NEW log \in ethTodo, FinalizedSetStatus(log)  PROVE Goal
  <2>1. log.withdrawal \in Withdrawals
    BY <1>10 DEF FinalizedSetStatus, TypeInv, TypeOK, EthTodoOK, ChainTypeOK
  <2>2. status' \in [Transactions -> MessageStatuses \cup {NoDocument}]
    BY <1>10, <2>1, StatusUpdateTyped
    DEF FinalizedSetStatus, TypeInv, TypeOK, MessageStatuses,
        WithdrawalStatuses
  <2> QED  BY <1>10, <1>1, <2>2
           DEF FinalizedSetStatus, TypeInv, TypeOK, StoreTypeOK, EthTypeOK,
               EthTodoOK, ProofRead, chainVars, EthPcs, EthRunningPcs,
               EthBatchPcs
<1>11. ASSUME NEW log \in ethTodo, FinalizedCreateRecord(log)  PROVE Goal
  <2>1. log.withdrawal \in Withdrawals
    BY <1>11 DEF FinalizedCreateRecord, TypeInv, TypeOK, EthTodoOK, ChainTypeOK
  <2> QED  BY <1>11, <1>1, <2>1
           DEF FinalizedCreateRecord, CreateTransactionFinalized, TypeInv,
               TypeOK, StoreTypeOK, EthTypeOK, EthTodoOK, ProofRead, chainVars,
               EthPcs, EthRunningPcs, EthBatchPcs
<1>12. ASSUME NEW log \in ethTodo, OutputProposed(log)  PROVE Goal
  BY <1>12, <1>1
  DEF OutputProposed, UpdateWithdrawalsToReadyToProve, UpdateToReadyToProve, TypeInv, TypeOK,
      StoreTypeOK, EthTypeOK, EthTodoOK, ProofRead, chainVars, MessageStatuses,
      WithdrawalStatuses
<1>13. ASSUME ProvenDone \/ FinalizedDone \/ OutputsDone  PROVE Goal
  BY <1>13, <1>1
  DEF ProvenDone, FinalizedDone, OutputsDone, Filter, TypeInv, TypeOK,
      StoreTypeOK, EthTypeOK, EthTodoOK, ProofRead, storeVars, chainVars,
      EthPcs, EthRunningPcs, EthBatchPcs
<1>14. ASSUME EthAdvance  PROVE Goal
  <2>1. ethEnd \in Nat /\ lastIndexedBlock \in [IndexedChains -> Nat]
    BY DEF TypeInv, TypeOK, EthTypeOK, StoreTypeOK
  <2>2. lastIndexedBlock' \in [IndexedChains -> Nat]
    BY <1>14, <2>1 DEF EthAdvance, UpdateLastIndexedBlock
  <2>3. StoreTypeOK'
    BY <1>14, <1>1, <2>2
    DEF EthAdvance, TypeInv, TypeOK, StoreTypeOK, chainVars
  <2> QED  BY <1>14, <1>1, <2>1, <2>3
           DEF EthAdvance, TypeInv, TypeOK, EthTypeOK, EthTodoOK, ProofRead,
               chainVars, EthPcs, EthRunningPcs, EthBatchPcs
<1>15. Goal
  BY <1>4, <1>5, <1>6, <1>7, <1>8, <1>9, <1>10, <1>11, <1>12, <1>13, <1>14
  DEF EthereumLoop, EthStep
<1> QED  BY <1>2, <1>3, <1>15 DEF TypeInv, TypeOK

\* A step of the LightLink loop keeps the type invariant.
LEMMA LightLinkLoopTypeInv ==
  ASSUME TypeInv, LightLinkLoop
  PROVE  TypeInv'
<1> DEFINE Goal == StoreTypeOK' /\ LlTypeOK'
<1> USE LightLinkIndexerAssumption
<1>1. UNCHANGED << chainVars, ethVars, checkerVars, faults >>
  BY DEF LightLinkLoop
<1>2. ChainTypeOK' /\ ChainInv' /\ EthTypeOK' /\ CheckersTypeOK'
  BY <1>1
  DEF TypeInv, TypeOK, ChainTypeOK, ChainInv, ProofLogged, EthTypeOK,
      CheckersTypeOK, chainVars, ethVars, checkerVars
<1>3. EthTodoOK' /\ ProofRead' /\ faults' \in 0 .. MaxFaults
  BY <1>1
  DEF TypeInv, TypeOK, EthTodoOK, ProofRead, ProofLogged, IsNextLog, chainVars,
      ethVars
<1>4. ASSUME LlStart(lastIndexedBlock["lightlink"])  PROVE Goal
  BY <1>4, <1>1
  DEF LlStart, ResumeBlock, TypeInv, TypeOK, StoreTypeOK, LlTypeOK, storeVars,
      chainVars, LlPcs, LlRunningPcs, IndexedChains
<1>5. ASSUME LlSelectBatch  PROVE Goal
  <2>1. BatchEnd(llStart, l2Head, L2MaxBatchSize) \in Nat
    BY <1>5, BatchEndBound
    DEF LlSelectBatch, TypeInv, TypeOK, LlTypeOK, ChainTypeOK
  <2> QED  BY <1>5, <1>1, <2>1
           DEF LlSelectBatch, TypeInv, TypeOK, StoreTypeOK, LlTypeOK,
               storeVars, chainVars, LlPcs, LlRunningPcs, LlBatchPcs
<1>6. ASSUME IndexL2Withdrawals  PROVE Goal
  <2>1. status' \in [Transactions -> MessageStatuses \cup {NoDocument}]
    BY <1>6, StatusUpdateTyped
    DEF IndexL2Withdrawals, TypeInv, TypeOK, MessageStatuses,
        WithdrawalStatuses
  <2> QED  BY <1>6, <1>1, <2>1
           DEF IndexL2Withdrawals, Filter, TypeInv, TypeOK, StoreTypeOK,
               LlTypeOK, chainVars, LlPcs, LlRunningPcs, LlBatchPcs
<1>7. ASSUME NEW log \in llTodo, RelayedMessage(log)  PROVE Goal
  <2>1. status' \in [Transactions -> MessageStatuses \cup {NoDocument}]
    BY <1>7
    DEF RelayedMessage, UpdateTransactionByMessageHash, SetStatus, TypeInv,
        TypeOK, StoreTypeOK, MessageStatuses, DepositStatuses
  <2> QED  BY <1>7, <1>1, <2>1
           DEF RelayedMessage, TypeInv, TypeOK, StoreTypeOK, LlTypeOK,
               chainVars
<1>8. ASSUME RelayedDone  PROVE Goal
  BY <1>8, <1>1
  DEF RelayedDone, TypeInv, TypeOK, StoreTypeOK, LlTypeOK, storeVars,
      chainVars, LlPcs, LlRunningPcs, LlBatchPcs
<1>9. ASSUME LlAdvance  PROVE Goal
  <2>1. llEnd \in Nat /\ lastIndexedBlock \in [IndexedChains -> Nat]
    BY DEF TypeInv, TypeOK, LlTypeOK, StoreTypeOK
  <2>2. lastIndexedBlock' \in [IndexedChains -> Nat]
    BY <1>9, <2>1 DEF LlAdvance, UpdateLastIndexedBlock
  <2>3. StoreTypeOK'
    BY <1>9, <1>1, <2>2 DEF LlAdvance, TypeInv, TypeOK, StoreTypeOK, chainVars
  <2> QED  BY <1>9, <1>1, <2>1, <2>3
           DEF LlAdvance, TypeInv, TypeOK, LlTypeOK, chainVars, LlPcs,
               LlRunningPcs, LlBatchPcs
<1>10. Goal
  BY <1>4, <1>5, <1>6, <1>7, <1>8, <1>9 DEF LightLinkLoop, LlStep
<1> QED  BY <1>2, <1>3, <1>10 DEF TypeInv, TypeOK

\* A step of the checkers keeps the type invariant.
LEMMA CheckersTypeInv ==
  ASSUME TypeInv, Checkers(CheckerStep)
  PROVE  TypeInv'
<1>1. UNCHANGED << chainVars, ethVars, llVars, faults >>
  BY DEF Checkers
<1>2. ChainTypeOK' /\ ChainInv' /\ EthTypeOK' /\ LlTypeOK'
  BY <1>1
  DEF TypeInv, TypeOK, ChainTypeOK, ChainInv, ProofLogged, EthTypeOK, LlTypeOK,
      chainVars, ethVars, llVars
<1>3. EthTodoOK' /\ ProofRead' /\ faults' \in 0 .. MaxFaults
  BY <1>1
  DEF TypeInv, TypeOK, EthTodoOK, ProofRead, ProofLogged, IsNextLog, chainVars,
      ethVars
<1>4. /\ provenList \subseteq Withdrawals /\ provenHit \subseteq Withdrawals
      /\ finalizedList \subseteq Withdrawals /\ finalizedHit \subseteq Withdrawals
      /\ readyMatched \subseteq Withdrawals
      /\ \A r \in readyList : r.withdrawal \in Withdrawals
  BY DEF TypeInv, TypeOK, CheckersTypeOK
<1>5. StoreTypeOK' /\ CheckersTypeOK'
  <2>1. CASE ProvenCheckerStep
    BY <2>1, <1>1, <1>4, StatusUpdateTyped
    DEF ProvenCheckerStep, ProvenCheckerList, ProvenCheckerFind,
        ProvenCheckerUpdate, GetTransactionsByStatus, TypeInv, TypeOK,
        StoreTypeOK, CheckersTypeOK, storeVars, chainVars, MessageStatuses,
        WithdrawalStatuses
  <2>2. CASE FinalizedCheckerStep
    BY <2>2, <1>1, <1>4, StatusUpdateTyped
    DEF FinalizedCheckerStep, FinalizedCheckerList, FinalizedCheckerFind,
        FinalizedCheckerUpdate, GetTransactionsByStatus, TypeInv, TypeOK,
        StoreTypeOK, CheckersTypeOK, storeVars, chainVars, MessageStatuses,
        WithdrawalStatuses
  <2>3. CASE ReadyCheckerStep
    BY <2>3, <1>1, <1>4, StatusUpdateTyped
    DEF ReadyCheckerStep, ReadyCheckerList, ReadyCheckerLookup, ReadyCheckerUpdate,
        GetTransactionsByStatus, LookupProven, TypeInv, TypeOK, StoreTypeOK,
        CheckersTypeOK, storeVars, chainVars, MessageStatuses,
        WithdrawalStatuses
  <2> QED  BY <2>1, <2>2, <2>3 DEF Checkers, CheckerStep
<1> QED  BY <1>2, <1>3, <1>5 DEF TypeInv, TypeOK

\* A step in which something fails, ends or starts keeps the type invariant.
LEMMA FaultTypeInv ==
  ASSUME TypeInv,
         \/ LoopFault \/ ReadFault \/ Exit \/ Stop \/ Restart
         \/ \E c \in CheckerNames : CheckerFault(c)
  PROVE  TypeInv'
<1> USE BridgeIndexerAssumption
<1>1. UNCHANGED chainVars
  BY DEF LoopFault, ReadFault, CheckerFault, Exit, Stop, EndProcess, Restart
<1>2. ChainTypeOK' /\ ChainInv'
  BY <1>1 DEF TypeInv, TypeOK, ChainTypeOK, ChainInv, ProofLogged, chainVars
<1>3. faults' \in 0 .. MaxFaults
  BY DEF TypeInv, TypeOK, LoopFault, ReadFault, CheckerFault, Exit, Stop,
         Restart, Fault
<1>4. CASE LoopFault
  <2>1. status' \in [Transactions -> MessageStatuses \cup {NoDocument}]
    BY <1>4, StatusUpdateTyped
    DEF LoopFault, EthFail, LlFail, IndexL1DepositsFails, OutputProposedFails,
        UpdateToReadyToProve, IndexL2WithdrawalsFails, TypeInv, TypeOK, StoreTypeOK, storeVars,
        MessageStatuses, WithdrawalStatuses, DepositStatuses
  <2>2. StoreTypeOK' /\ CheckersTypeOK'
    BY <1>4, <1>1, <2>1
    DEF LoopFault, EthFail, LlFail, IndexL1DepositsFails, OutputProposedFails,
        IndexL2WithdrawalsFails, TypeInv, TypeOK, StoreTypeOK, CheckersTypeOK,
        storeVars, chainVars, checkerVars
  <2>3. EthTypeOK' /\ EthTodoOK' /\ ProofRead'
    BY <1>4, <1>1
    DEF LoopFault, EthFail, LlFail, IndexL1DepositsFails, OutputProposedFails,
        IndexL2WithdrawalsFails, EthIdle, TypeInv, TypeOK, EthTypeOK,
        EthTodoOK, ProofRead, ProofLogged, IsNextLog, ethVars, chainVars,
        EthPcs, ChainTypeOK
  <2>4. LlTypeOK'
    BY <1>4, <1>1
    DEF LoopFault, EthFail, LlFail, IndexL1DepositsFails, OutputProposedFails,
        IndexL2WithdrawalsFails, LlIdle, TypeInv, TypeOK, LlTypeOK, llVars,
        chainVars, LlPcs
  <2> QED  BY <1>2, <1>3, <2>2, <2>3, <2>4 DEF TypeInv, TypeOK
<1>5. CASE ReadFault
  <2>1. StoreTypeOK' /\ CheckersTypeOK'
    BY <1>5, <1>1
    DEF ReadFault, EthStart, LlStart, TypeInv, TypeOK, StoreTypeOK,
        CheckersTypeOK, storeVars, chainVars, checkerVars
  <2>2. EthTypeOK' /\ EthTodoOK' /\ ProofRead'
    BY <1>5, <1>1, EthereumIndexerAssumption
    DEF ReadFault, EthStart, LlStart, ResumeBlock, TypeInv, TypeOK, EthTypeOK,
        EthTodoOK, ProofRead, ProofLogged, IsNextLog, ethVars, chainVars,
        EthPcs, EthRunningPcs
  <2>3. LlTypeOK'
    BY <1>5, <1>1, LightLinkIndexerAssumption
    DEF ReadFault, EthStart, LlStart, ResumeBlock, TypeInv, TypeOK, LlTypeOK,
        llVars, chainVars, LlPcs, LlRunningPcs
  <2> QED  BY <1>2, <1>3, <2>1, <2>2, <2>3 DEF TypeInv, TypeOK
<1>6. ASSUME NEW c \in CheckerNames, CheckerFault(c)  PROVE TypeInv'
  <2>1. StoreTypeOK' /\ CheckersTypeOK'
    BY <1>6, <1>1
    DEF CheckerFault, CheckerFail, TypeInv, TypeOK, StoreTypeOK,
        CheckersTypeOK, storeVars, chainVars
  <2>2. EthTypeOK' /\ LlTypeOK' /\ EthTodoOK' /\ ProofRead'
    BY <1>6, <1>1
    DEF CheckerFault, TypeInv, TypeOK, EthTypeOK, LlTypeOK, EthTodoOK,
        ProofRead, ProofLogged, IsNextLog, ethVars, llVars, chainVars
  <2> QED  BY <1>2, <1>3, <2>1, <2>2 DEF TypeInv, TypeOK
<1>7. CASE Exit \/ Stop
  <2>1. EndProcess
    BY <1>7 DEF Exit, Stop
  <2>2. StoreTypeOK' /\ CheckersTypeOK'
    BY <1>1, <2>1
    DEF EndProcess, CheckersIdle, TypeInv, TypeOK, StoreTypeOK, CheckersTypeOK,
        storeVars, chainVars
  <2>3. EthTypeOK' /\ LlTypeOK' /\ EthTodoOK' /\ ProofRead'
    BY <1>1, <2>1
    DEF EndProcess, EthIdle, LlIdle, TypeInv, TypeOK, EthTypeOK, LlTypeOK,
        EthTodoOK, ProofRead, chainVars, EthPcs, LlPcs, ChainTypeOK
  <2> QED  BY <1>2, <1>3, <2>2, <2>3 DEF TypeInv, TypeOK
<1>8. CASE Restart
  <2>1. StoreTypeOK' /\ CheckersTypeOK'
    BY <1>1, <1>8
    DEF Restart, TypeInv, TypeOK, StoreTypeOK, CheckersTypeOK, storeVars,
        chainVars, checkerVars
  <2>2. EthTypeOK' /\ LlTypeOK' /\ EthTodoOK' /\ ProofRead'
    BY <1>1, <1>8
    DEF Restart, TypeInv, TypeOK, EthTypeOK, LlTypeOK, EthTodoOK, ProofRead,
        chainVars, EthPcs, EthRunningPcs, LlPcs, LlRunningPcs
  <2> QED  BY <1>2, <1>3, <2>1, <2>2 DEF TypeInv, TypeOK
<1> QED  BY <1>4, <1>5, <1>6, <1>7, <1>8

\* A wait changes nothing.
LEMMA WaitingChangesNothing ==
  ASSUME Waiting  PROVE UNCHANGED vars
BY DEF Waiting, EthWait, LlWait, vars

\* Steps that change nothing keep the invariant.
LEMMA StutterTypeInv ==
  ASSUME TypeInv, UNCHANGED vars
  PROVE  TypeInv'
BY DEF vars, chainVars, storeVars, ethVars, llVars, checkerVars, TypeInv,
       TypeOK, ChainTypeOK, StoreTypeOK, EthTypeOK, LlTypeOK, CheckersTypeOK,
       ChainInv, ProofLogged, EthTodoOK, ProofRead, IsNextLog

\* The invariant holds at the start.
LEMMA InitTypeInv ==
  ASSUME Init  PROVE TypeInv
<1> USE ChainsAssumption, BridgeIndexerAssumption
<1>1. ChainTypeOK /\ ChainInv
  BY DEF Init, ChainInit, ChainTypeOK, ChainInv, ProofLogged
<1>2. StoreTypeOK
  BY DEF Init, ChainInit, StoreInit, StoreTypeOK, IndexedChains
<1>3. EthTypeOK /\ LlTypeOK /\ EthTodoOK /\ ProofRead
  BY DEF Init, ChainInit, EthInit, LlInit, EthTypeOK, LlTypeOK, EthTodoOK,
         ProofRead, EthPcs, EthRunningPcs, LlPcs, LlRunningPcs
<1>4. CheckersTypeOK /\ faults \in 0 .. MaxFaults
  BY DEF Init, CheckersInit, CheckersTypeOK
<1> QED  BY <1>1, <1>2, <1>3, <1>4 DEF TypeInv, TypeOK

\* Every step of the program and of the chains keeps it.
LEMMA NextTypeInv ==
  ASSUME TypeInv, [Next]_vars
  PROVE  TypeInv'
BY EnvironmentTypeInv, EthereumLoopTypeInv, LightLinkLoopTypeInv,
   CheckersTypeInv, FaultTypeInv, WaitingChangesNothing, StutterTypeInv
   DEF Next

\* Every variable keeps its type; in particular the time of every proven record
\* is a time of the past, although it is read from the portal while the chain
\* goes on (indexer_ethereum.go:223-239).
THEOREM TypeCorrect == Spec => []TypeOK
<1>1. Init => TypeInv
  BY InitTypeInv
<1>2. TypeInv /\ [Next]_vars => TypeInv'
  BY NextTypeInv
<1>3. TypeInv => TypeOK
  BY DEF TypeInv
<1> QED  BY <1>1, <1>2, <1>3, PTL DEF Spec

-----------------------------------------------------------------------------
(***************************************************************************)
(* No status is ahead of the chains.  A checker writes a status from what  *)
(* it read some time ago, and the loop a record from what it read from the *)
(* portal; the invariant says that each of these values was justified by a *)
(* log when it was read.  Logs stay, so it still is when it is written.    *)
(***************************************************************************)
RecordsLogged ==
  /\ \A r \in transactionsProven : ProofLogged(r.withdrawal, r.time)
  /\ \A w \in transactionsFinalized : Finalized(w)

ListsLogged ==
  /\ \A w \in provenHit : Proven(w)
  /\ \A w \in finalizedHit : Finalized(w)
  /\ \A r \in readyList : ProofLogged(r.withdrawal, r.time)

JustifiedInv == TypeInv /\ RecordsLogged /\ ListsLogged /\ StatusJustified

\* What the chains have justified stays justified.
LEMMA LogsStay ==
  ASSUME ChainTypeOK, ChainTypeOK', ChainGrows
  PROVE  /\ \A w : Initiated(w) => Initiated(w)'
         /\ \A w : OutputCovers(w) => OutputCovers(w)'
         /\ \A w : Proven(w) => Proven(w)'
         /\ \A w : Finalized(w) => Finalized(w)'
         /\ \A d : Deposited(d) => Deposited(d)'
         /\ \A d : RelayedOnL2(d) => RelayedOnL2(d)'
         /\ \A w, t : ProofLogged(w, t) => ProofLogged(w, t)'
         /\ \A l \in provenLogs : l \in provenLogs' /\ l.time \in Nat
         /\ clock \in Nat /\ clock' \in Nat /\ clock <= clock'
BY DEF ChainTypeOK, ChainGrows, NewAbove, Initiated, OutputCovers, Proven,
       Finalized, Deposited, RelayedOnL2, ProofLogged

\* An update of one withdrawal to a status that the chains entitle it to.
LEMMA WithdrawalUpdateJustified ==
  ASSUME StoreTypeOK, StatusJustified, UNCHANGED chainVars,
         NEW w \in Withdrawals,
         NEW s \in {"IN_CHALLENGE_PERIOD", "READY_FOR_RELAY", "RELAYED"},
         UpdateTransactionStatusByWithdrawalHash(w, s),
         s = "IN_CHALLENGE_PERIOD" => Proven(w),
         s = "READY_FOR_RELAY" =>
           \E l \in provenLogs :
             l.withdrawal = w /\ clock > l.time + FinalizationSeconds,
         s = "RELAYED" => Finalized(w)
  PROVE  StatusJustified'
<1>1. /\ \A v : Initiated(v)' = Initiated(v)
      /\ \A v : OutputCovers(v)' = OutputCovers(v)
      /\ \A v : Proven(v)' = Proven(v)
      /\ \A v : Finalized(v)' = Finalized(v)
      /\ \A d : Deposited(d)' = Deposited(d)
      /\ \A d : RelayedOnL2(d)' = RelayedOnL2(d)
      /\ provenLogs' = provenLogs /\ clock' = clock
  BY DEF chainVars, Initiated, OutputCovers, Proven, Finalized, Deposited,
         RelayedOnL2
<1>2. \A t \in Transactions :
        status'[t] = IF t = w /\ status[t] # NoDocument THEN s ELSE status[t]
  BY DEF UpdateTransactionStatusByWithdrawalHash, SetStatus, StoreTypeOK,
         Transactions
<1>3. w \notin Deposits
  BY ChainsAssumption
<1>4. ASSUME NEW v \in Withdrawals
      PROVE  /\ status'[v] # NoDocument => Initiated(v)
             /\ status'[v] = "READY_TO_PROVE" => OutputCovers(v)
             /\ status'[v] = "IN_CHALLENGE_PERIOD" => Proven(v)
             /\ status'[v] = "READY_FOR_RELAY" =>
                  \E l \in provenLogs :
                    l.withdrawal = v /\ clock > l.time + FinalizationSeconds
             /\ status'[v] = "RELAYED" => Finalized(v)
  <2>1. CASE v = w /\ status[v] # NoDocument
    BY <1>2, <2>1 DEF StatusJustified, Transactions
  <2>2. CASE v # w \/ status[v] = NoDocument
    BY <1>2, <2>2 DEF StatusJustified, Transactions
  <2> QED  BY <2>1, <2>2
<1>5. \A d \in Deposits : status'[d] = status[d]
  BY <1>2, <1>3 DEF Transactions
<1> QED  BY <1>1, <1>4, <1>5 DEF StatusJustified

\* What a log or a record has justified, step by step of the chains.
LEMMA EnvironmentJustified ==
  ASSUME JustifiedInv, Environment
  PROVE  JustifiedInv'
<1>1. TypeInv' /\ ChainGrows
  BY EnvironmentTypeInv, ChainStep
  DEF JustifiedInv, TypeInv, TypeOK, Environment
<1>2. UNCHANGED << storeVars, checkerVars >>
  BY DEF Environment
<1>3. RecordsLogged' /\ ListsLogged'
  BY <1>1, <1>2, LogsStay
  DEF JustifiedInv, TypeInv, TypeOK, RecordsLogged, ListsLogged, storeVars,
      checkerVars
<1>4. StatusJustified'
  <2>1. ChainTypeOK /\ ChainTypeOK' /\ StatusJustified /\ status' = status
    BY <1>1, <1>2 DEF JustifiedInv, TypeInv, TypeOK, storeVars
  <2>2. ASSUME NEW l \in provenLogs, clock > l.time + FinalizationSeconds
        PROVE  l \in provenLogs' /\ clock' > l.time + FinalizationSeconds
    BY <1>1, <2>1, <2>2, LogsStay, ChainsAssumption
  <2> QED  BY <1>1, <2>1, <2>2, LogsStay DEF StatusJustified
<1> QED  BY <1>1, <1>3, <1>4 DEF JustifiedInv

\* An upsert of withdrawals or of deposits that were logged.
LEMMA CreateJustified ==
  ASSUME StoreTypeOK, StatusJustified, UNCHANGED chainVars,
         NEW txs, NEW s,
         BatchCreateTransactions(txs, s),
         \/ /\ s = "STATE_ROOT_NOT_PUBLISHED"
            /\ \A t \in txs : t \in Withdrawals /\ Initiated(t)
         \/ /\ s = "UNCONFIRMED_L1_TO_L2_MESSAGE"
            /\ \A t \in txs : t \in Deposits /\ Deposited(t)
  PROVE  StatusJustified'
<1>1. /\ \A v : Initiated(v)' = Initiated(v)
      /\ \A v : OutputCovers(v)' = OutputCovers(v)
      /\ \A v : Proven(v)' = Proven(v)
      /\ \A v : Finalized(v)' = Finalized(v)
      /\ \A d : Deposited(d)' = Deposited(d)
      /\ \A d : RelayedOnL2(d)' = RelayedOnL2(d)
      /\ provenLogs' = provenLogs /\ clock' = clock
  BY DEF chainVars, Initiated, OutputCovers, Proven, Finalized, Deposited,
         RelayedOnL2
<1>2. \A t \in Transactions : status'[t] = IF t \in txs THEN s ELSE status[t]
  BY DEF BatchCreateTransactions
<1>3. \A w \in Withdrawals :
        \/ status'[w] = status[w]
        \/ status'[w] = "STATE_ROOT_NOT_PUBLISHED" /\ Initiated(w)
  BY <1>2, ChainsAssumption DEF Transactions
<1>4. \A d \in Deposits :
        \/ status'[d] = status[d]
        \/ status'[d] = "UNCONFIRMED_L1_TO_L2_MESSAGE" /\ Deposited(d)
  BY <1>2, ChainsAssumption DEF Transactions
<1> QED  BY <1>1, <1>3, <1>4 DEF StatusJustified

\* The records and lists of a step that leaves the chains and these alone.
LEMMA LoggedStutter ==
  ASSUME RecordsLogged, UNCHANGED chainVars,
         UNCHANGED << transactionsProven, transactionsFinalized >>
  PROVE  RecordsLogged'
BY DEF RecordsLogged, ProofLogged, Finalized, chainVars

\* What no step of the indexer changes stays justified.
LEMMA JustifiedStutter ==
  ASSUME StatusJustified, UNCHANGED chainVars, UNCHANGED status
  PROVE  StatusJustified'
BY DEF StatusJustified, chainVars, Initiated, OutputCovers, Proven, Finalized,
       Deposited, RelayedOnL2

\* A list that is not read again stays logged.
LEMMA ListsStutter ==
  ASSUME ListsLogged, UNCHANGED << chainVars, checkerVars >>
  PROVE  ListsLogged'
BY DEF ListsLogged, ProofLogged, Proven, Finalized, chainVars, checkerVars

\* So does the update that an output makes, of whichever documents.
LEMMA OutputUpdateJustified ==
  ASSUME StatusJustified, UNCHANGED chainVars,
         NEW log \in outputLogs, NEW txs \in SUBSET Withdrawals,
         UpdateToReadyToProve(txs, log.l2Block)
  PROVE  StatusJustified'
<1>1. \A w \in Withdrawals : AwaitsOutput(w, log.l2Block) => OutputCovers(w)
  BY DEF AwaitsOutput, OutputCovers
<1>2. \A t \in Transactions :
        \/ status'[t] = status[t]
        \/ /\ t \in Withdrawals /\ status[t] # NoDocument
           /\ OutputCovers(t) /\ status'[t] = "READY_TO_PROVE"
  BY <1>1 DEF UpdateToReadyToProve, AwaitsOutput, NoDocument
<1>3. \A d \in Deposits : status'[d] = status[d]
  BY <1>2, ChainsAssumption DEF Transactions
<1>4. \A w \in Withdrawals :
        \/ status'[w] = status[w]
        \/ status[w] # NoDocument /\ OutputCovers(w) /\ status'[w] = "READY_TO_PROVE"
  BY <1>2 DEF Transactions
<1> QED  BY <1>3, <1>4
         DEF StatusJustified, chainVars, Initiated, OutputCovers, Proven,
             Finalized, Deposited, RelayedOnL2

\* The loops write what the logs they took entitle them to.
LEMMA EthereumLoopJustified ==
  ASSUME JustifiedInv, EthereumLoop
  PROVE  JustifiedInv'
<1> DEFINE Goal == StatusJustified' /\ RecordsLogged'
<1>1. UNCHANGED chainVars /\ UNCHANGED checkerVars
  BY DEF EthereumLoop
<1>2. TypeInv' /\ ListsLogged'
  BY <1>1, EthereumLoopTypeInv, ListsStutter DEF JustifiedInv
<1>3. ChainTypeOK /\ StoreTypeOK /\ StatusJustified /\ RecordsLogged /\ EthTodoOK
  BY DEF JustifiedInv, TypeInv, TypeOK
<1>4. ASSUME \/ EthStart(lastIndexedBlock["ethereum"]) \/ EthSelectBatch
             \/ ProvenDone \/ FinalizedDone \/ OutputsDone \/ EthAdvance
      PROVE  Goal
  BY <1>1, <1>3, <1>4, LoggedStutter, JustifiedStutter
  DEF EthStart, EthSelectBatch, ProvenDone, FinalizedDone, OutputsDone,
      EthAdvance, storeVars
<1>5. ASSUME IndexL1Deposits  PROVE Goal
  <2>1. \A d \in DepositsInBatch : d \in Deposits /\ Deposited(d)
    BY <1>3 DEF DepositsInBatch, Filter, Deposited, ChainTypeOK
  <2>2. StatusJustified'
    BY <1>1, <1>3, <1>5, <2>1, CreateJustified DEF IndexL1Deposits
  <2> QED  BY <1>1, <1>3, <1>5, <2>2, LoggedStutter DEF IndexL1Deposits
<1>6. ASSUME NEW log \in ethTodo, ProvenSetStatus(log)  PROVE Goal
  <2>1. log.withdrawal \in Withdrawals /\ Proven(log.withdrawal)
    BY <1>3, <1>6 DEF ProvenSetStatus, EthTodoOK, ChainTypeOK, Proven
  <2>2. StatusJustified'
    BY <1>1, <1>3, <1>6, <2>1, WithdrawalUpdateJustified DEF ProvenSetStatus
  <2> QED  BY <1>1, <1>3, <1>6, <2>2, LoggedStutter DEF ProvenSetStatus
<1>7. ASSUME NEW log \in ethTodo, ProvenReadPortal(log)  PROVE Goal
  BY <1>1, <1>3, <1>7, LoggedStutter, JustifiedStutter
  DEF ProvenReadPortal, storeVars
<1>8. ASSUME NEW log \in ethTodo, ProvenCreateRecord(log)  PROVE Goal
  <2>1. ProofLogged(log.withdrawal, ethProof)
    BY <1>8 DEF ProvenCreateRecord, JustifiedInv, TypeInv, ProofRead
  <2>2. RecordsLogged'
    BY <1>1, <1>3, <1>8, <2>1
    DEF ProvenCreateRecord, CreateTransactionProven, RecordsLogged,
        ProofLogged, Finalized, chainVars
  <2> QED  BY <1>1, <1>3, <1>8, <2>2, JustifiedStutter DEF ProvenCreateRecord
<1>9. ASSUME NEW log \in ethTodo, FinalizedSetStatus(log)  PROVE Goal
  <2>1. log.withdrawal \in Withdrawals /\ Finalized(log.withdrawal)
    BY <1>3, <1>9 DEF FinalizedSetStatus, EthTodoOK, ChainTypeOK, Finalized
  <2>2. StatusJustified'
    BY <1>1, <1>3, <1>9, <2>1, WithdrawalUpdateJustified DEF FinalizedSetStatus
  <2> QED  BY <1>1, <1>3, <1>9, <2>2, LoggedStutter DEF FinalizedSetStatus
<1>10. ASSUME NEW log \in ethTodo, FinalizedCreateRecord(log)  PROVE Goal
  <2>1. Finalized(log.withdrawal)
    BY <1>3, <1>10 DEF FinalizedCreateRecord, EthTodoOK, Finalized
  <2>2. RecordsLogged'
    BY <1>1, <1>3, <1>10, <2>1
    DEF FinalizedCreateRecord, CreateTransactionFinalized, RecordsLogged,
        ProofLogged, Finalized, chainVars
  <2> QED  BY <1>1, <1>3, <1>10, <2>2, JustifiedStutter
           DEF FinalizedCreateRecord
<1>11. ASSUME NEW log \in ethTodo, OutputProposed(log)  PROVE Goal
  <2>1. log \in outputLogs
    BY <1>3, <1>11 DEF OutputProposed, EthTodoOK
  <2>2. StatusJustified'
    BY <1>1, <1>3, <1>11, <2>1, OutputUpdateJustified
    DEF OutputProposed, UpdateWithdrawalsToReadyToProve
  <2> QED  BY <1>1, <1>3, <1>11, <2>2, LoggedStutter DEF OutputProposed
<1>12. Goal
  BY <1>4, <1>5, <1>6, <1>7, <1>8, <1>9, <1>10, <1>11 DEF EthereumLoop, EthStep
<1> QED  BY <1>2, <1>12 DEF JustifiedInv

\* The same for the second loop.
LEMMA LightLinkLoopJustified ==
  ASSUME JustifiedInv, LightLinkLoop
  PROVE  JustifiedInv'
<1>1. UNCHANGED chainVars /\ UNCHANGED checkerVars
  BY DEF LightLinkLoop
<1>2. TypeInv' /\ ListsLogged'
  BY <1>1, LightLinkLoopTypeInv, ListsStutter DEF JustifiedInv
<1>3. ChainTypeOK /\ StoreTypeOK /\ StatusJustified /\ RecordsLogged
  BY DEF JustifiedInv, TypeInv, TypeOK
<1>4. RecordsLogged'
  BY <1>1, <1>3, LoggedStutter
  DEF LightLinkLoop, LlStep, LlStart, LlSelectBatch, IndexL2Withdrawals,
      RelayedMessage, RelayedDone, LlAdvance, storeVars
<1>5. CASE \/ LlStart(lastIndexedBlock["lightlink"]) \/ LlSelectBatch
           \/ RelayedDone \/ LlAdvance
  BY <1>1, <1>3, <1>5, JustifiedStutter, <1>2, <1>4
  DEF LlStart, LlSelectBatch, RelayedDone, LlAdvance, storeVars, JustifiedInv
<1>6. CASE IndexL2Withdrawals
  <2>1. \A w \in WithdrawalsInBatch : w \in Withdrawals /\ Initiated(w)
    BY <1>3 DEF WithdrawalsInBatch, Filter, Initiated, ChainTypeOK
  <2>2. StatusJustified'
    BY <1>1, <1>3, <1>6, <2>1, CreateJustified DEF IndexL2Withdrawals
  <2> QED  BY <1>2, <1>4, <2>2 DEF JustifiedInv
<1>7. ASSUME NEW log \in llTodo, RelayedMessage(log)  PROVE JustifiedInv'
  <2>1. log.deposit \in Deposits /\ RelayedOnL2(log.deposit)
    BY <1>3, <1>7
    DEF JustifiedInv, TypeInv, TypeOK, LlTypeOK, ChainTypeOK, RelayedOnL2
  <2>2. \A t \in Transactions :
          status'[t] = IF t = log.deposit /\ status[t] # NoDocument
                         THEN "RELAYED" ELSE status[t]
    BY <1>3, <1>7
    DEF RelayedMessage, UpdateTransactionByMessageHash, SetStatus, StoreTypeOK,
        Transactions
  <2>3. \A w \in Withdrawals : status'[w] = status[w]
    BY <2>1, <2>2, ChainsAssumption DEF Transactions
  <2>4. \A d \in Deposits :
          \/ status'[d] = status[d]
          \/ status[d] # NoDocument /\ RelayedOnL2(d)
    BY <2>1, <2>2 DEF Transactions
  <2>5. StatusJustified'
    BY <1>1, <1>3, <2>3, <2>4
    DEF StatusJustified, chainVars, Initiated, OutputCovers, Proven, Finalized,
        Deposited, RelayedOnL2
  <2> QED  BY <1>2, <1>4, <2>5 DEF JustifiedInv
<1> QED  BY <1>5, <1>6, <1>7 DEF LightLinkLoop, LlStep

\* The checkers write from records that were logged when listed.
LEMMA CheckersJustified ==
  ASSUME JustifiedInv, Checkers(CheckerStep)
  PROVE  JustifiedInv'
<1>1. UNCHANGED chainVars
  BY DEF Checkers
<1>2. TypeInv'
  BY CheckersTypeInv DEF JustifiedInv
<1>3. ChainTypeOK /\ StoreTypeOK /\ CheckersTypeOK /\ StatusJustified /\ RecordsLogged /\ ListsLogged
  BY DEF JustifiedInv, TypeInv, TypeOK
<1>4. RecordsLogged'
  BY <1>1, <1>3, LoggedStutter
  DEF Checkers, CheckerStep, ProvenCheckerStep, ProvenCheckerList,
      ProvenCheckerFind, ProvenCheckerUpdate, FinalizedCheckerStep,
      FinalizedCheckerList, FinalizedCheckerFind, FinalizedCheckerUpdate,
      ReadyCheckerStep, ReadyCheckerList, ReadyCheckerLookup, ReadyCheckerUpdate, storeVars
<1>5. ListsLogged'
  <2>1. CASE ProvenCheckerStep
    BY <1>1, <1>3, <2>1
    DEF ProvenCheckerStep, ProvenCheckerList, ProvenCheckerFind,
        ProvenCheckerUpdate, HasProvenRecord, RecordsLogged, ListsLogged,
        ProofLogged, Proven, Finalized, chainVars
  <2>2. CASE FinalizedCheckerStep
    BY <1>1, <1>3, <2>2
    DEF FinalizedCheckerStep, FinalizedCheckerList, FinalizedCheckerFind,
        FinalizedCheckerUpdate, HasFinalizedRecord, RecordsLogged, ListsLogged,
        ProofLogged, Proven, Finalized, chainVars
  <2>3. CASE ReadyCheckerStep
    BY <1>1, <1>3, <2>3
    DEF ReadyCheckerStep, ReadyCheckerList, ReadyCheckerLookup, ReadyCheckerUpdate,
        LookupProven, RecordsLogged, ListsLogged, ProofLogged,
        Proven, Finalized, chainVars
  <2> QED  BY <2>1, <2>2, <2>3 DEF Checkers, CheckerStep
<1>6. StatusJustified'
  <2>1. CASE \/ ProvenCheckerList \/ FinalizedCheckerList \/ ReadyCheckerList
             \/ \E w \in provenList : ProvenCheckerFind(w)
             \/ \E w \in finalizedList : FinalizedCheckerFind(w)
             \/ \E w \in readyMatched : ReadyCheckerLookup(w)
    BY <1>1, <1>3, <2>1, JustifiedStutter
    DEF ProvenCheckerList, FinalizedCheckerList, ReadyCheckerList, ReadyCheckerLookup,
        ProvenCheckerFind, FinalizedCheckerFind, storeVars
  <2>2. ASSUME NEW w \in provenHit, ProvenCheckerUpdate(w)  PROVE StatusJustified'
    <3>1. w \in Withdrawals /\ Proven(w)
      BY <1>3 DEF CheckersTypeOK, ListsLogged
    <3> QED  BY <1>1, <1>3, <2>2, <3>1, WithdrawalUpdateJustified
             DEF ProvenCheckerUpdate
  <2>3. ASSUME NEW w \in finalizedHit, FinalizedCheckerUpdate(w)  PROVE StatusJustified'
    <3>1. w \in Withdrawals /\ Finalized(w)
      BY <1>3 DEF CheckersTypeOK, ListsLogged
    <3> QED  BY <1>1, <1>3, <2>3, <3>1, WithdrawalUpdateJustified
             DEF FinalizedCheckerUpdate
  <2>4. ASSUME NEW r \in readyList, ReadyCheckerUpdate(r)  PROVE StatusJustified'
    <3>1. CASE ChallengePeriodOver(r)
      <4>1. r.withdrawal \in Withdrawals /\ ProofLogged(r.withdrawal, r.time)
        BY <1>3 DEF CheckersTypeOK, ListsLogged
      <4>2. \E l \in provenLogs :
              l.withdrawal = r.withdrawal /\ clock > l.time + FinalizationSeconds
        BY <3>1, <4>1 DEF ProofLogged, ChallengePeriodOver
      <4> QED
        BY <1>1, <1>3, <2>4, <3>1, <4>1, <4>2, WithdrawalUpdateJustified
        DEF ReadyCheckerUpdate
    <3>2. CASE ~ChallengePeriodOver(r)
      BY <1>1, <1>3, <2>4, <3>2, JustifiedStutter DEF ReadyCheckerUpdate
    <3> QED  BY <3>1, <3>2
  <2> QED  BY <2>1, <2>2, <2>3, <2>4
           DEF Checkers, CheckerStep, ProvenCheckerStep, FinalizedCheckerStep,
               ReadyCheckerStep
<1> QED  BY <1>2, <1>4, <1>5, <1>6 DEF JustifiedInv

\* A bulk write that stops half-way writes justified documents.
LEMMA FaultJustified ==
  ASSUME JustifiedInv,
         \/ LoopFault \/ ReadFault \/ Exit \/ Stop \/ Restart
         \/ \E c \in CheckerNames : CheckerFault(c)
  PROVE  JustifiedInv'
<1>1. UNCHANGED chainVars
  BY DEF LoopFault, ReadFault, CheckerFault, Exit, Stop, EndProcess, Restart
<1>2. TypeInv'
  BY FaultTypeInv DEF JustifiedInv
<1>3. ChainTypeOK /\ StoreTypeOK /\ StatusJustified /\ RecordsLogged /\ ListsLogged
  BY DEF JustifiedInv, TypeInv, TypeOK
<1>4. RecordsLogged'
  BY <1>1, <1>3, LoggedStutter
  DEF LoopFault, EthFail, LlFail, IndexL1DepositsFails, OutputProposedFails,
      IndexL2WithdrawalsFails, ReadFault, EthStart, LlStart, CheckerFault,
      CheckerFail, Exit, Stop, EndProcess, Restart, storeVars
<1>5. ListsLogged'
  <2>1. CASE LoopFault \/ ReadFault \/ Restart
    BY <1>1, <1>3, <2>1, ListsStutter DEF LoopFault, ReadFault, Restart
  <2>2. CASE \/ Exit \/ Stop \/ \E c \in CheckerNames : CheckerFault(c)
    BY <1>1, <1>3, <2>2
    DEF Exit, Stop, EndProcess, CheckersIdle, CheckerFault, CheckerFail,
        ListsLogged, ProofLogged, Proven, Finalized, chainVars
  <2> QED  BY <2>1, <2>2
<1>6. StatusJustified'
  <2>1. CASE UNCHANGED status
    BY <1>1, <1>3, <2>1, JustifiedStutter
  <2>2. ASSUME NEW txs \in SUBSET DepositsInBatch, IndexL1DepositsFails(txs)
        PROVE  StatusJustified'
    <3>1. \A d \in txs : d \in Deposits /\ Deposited(d)
      BY <1>3 DEF DepositsInBatch, Filter, Deposited, ChainTypeOK
    <3> QED  BY <1>1, <1>3, <2>2, <3>1, CreateJustified
             DEF IndexL1DepositsFails
  <2>3. ASSUME LoopFault, NEW log \in ethTodo, NEW txs \in SUBSET Withdrawals,
               OutputProposedFails(log, txs)
        PROVE  StatusJustified'
    <3>1. log \in outputLogs
      BY <2>3 DEF OutputProposedFails, JustifiedInv, TypeInv, EthTodoOK
    <3> QED  BY <1>1, <1>3, <2>3, <3>1, OutputUpdateJustified
             DEF OutputProposedFails
  <2>4. ASSUME NEW txs \in SUBSET WithdrawalsInBatch, IndexL2WithdrawalsFails(txs)
        PROVE  StatusJustified'
    <3>1. \A w \in txs : w \in Withdrawals /\ Initiated(w)
      BY <1>3 DEF WithdrawalsInBatch, Filter, Initiated, ChainTypeOK
    <3> QED  BY <1>1, <1>3, <2>4, <3>1, CreateJustified
             DEF IndexL2WithdrawalsFails
  <2> QED  BY <2>1, <2>2, <2>3, <2>4
           DEF LoopFault, EthFail, LlFail, ReadFault, EthStart, LlStart,
               CheckerFault, CheckerFail, Exit, Stop, EndProcess, Restart,
               storeVars
<1> QED  BY <1>2, <1>4, <1>5, <1>6 DEF JustifiedInv

\* Every step keeps the invariant.
LEMMA NextJustified ==
  ASSUME JustifiedInv, [Next]_vars
  PROVE  JustifiedInv'
<1>1. CASE UNCHANGED vars
  BY <1>1, StutterTypeInv, LoggedStutter, ListsStutter, JustifiedStutter
  DEF JustifiedInv, vars, storeVars
<1> QED
  BY <1>1, EnvironmentJustified, EthereumLoopJustified, LightLinkLoopJustified,
     CheckersJustified, FaultJustified, WaitingChangesNothing DEF Next

\* No status is ahead of the chains, in whatever order the loops, the checkers
\* and the chains make their steps, and wherever the process was stopped.
THEOREM StatusesAreJustified == Spec => []StatusJustified
<1>1. Init => JustifiedInv
  BY InitTypeInv
  DEF Init, StoreInit, CheckersInit, JustifiedInv, RecordsLogged, ListsLogged,
      StatusJustified, Transactions, NoDocument
<1>2. JustifiedInv /\ [Next]_vars => JustifiedInv'
  BY NextJustified
<1>3. JustifiedInv => StatusJustified
  BY DEF JustifiedInv
<1> QED  BY <1>1, <1>2, <1>3, PTL DEF Spec
=============================================================================
