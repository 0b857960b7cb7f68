--------------------------- MODULE CompletenessProofs ---------------------------
(***************************************************************************)
(* Theorems about the record of the last indexed block: what the database  *)
(* holds of the blocks up to it, and that it does not move back.           *)
(***************************************************************************)
EXTENDS BridgeIndexerProofs

-----------------------------------------------------------------------------
(***************************************************************************)
(* What the database holds of a range of blocks.                           *)
(***************************************************************************)
DepositsKept(a, b) ==
  \A l \in depositLogs : l.block \in a .. b => status[l.deposit] # NoDocument

ProofsKept(a, b) ==
  \A l \in provenLogs : l.block \in a .. b => HasProvenRecord(l.withdrawal)

FinalizationsKept(a, b) ==
  \A l \in finalizedLogs :
    l.block \in a .. b => HasFinalizedRecord(l.withdrawal)

WithdrawalsKept(a, b) ==
  \A l \in withdrawalLogs :
    l.block \in a .. b => status[l.withdrawal] # NoDocument

L1Kept(a, b) == DepositsKept(a, b) /\ ProofsKept(a, b) /\ FinalizationsKept(a, b)

(***************************************************************************)
(* The inductive invariant.  Everything before the current batch is kept,  *)
(* and of the current batch what the stages before this one have written;  *)
(* within a stage, a log is still to be done or already kept.  Nothing is  *)
(* asked of blocks that are not mined yet.                                 *)
(***************************************************************************)
L1Invariant ==
  /\ lastIndexedBlock["ethereum"] <= l1Head
  /\ L1Kept(L1DefaultStartBlock, lastIndexedBlock["ethereum"])
  /\ ethPc \in {"select"} \cup EthBatchPcs =>
       /\ ethStart = L1DefaultStartBlock \/ ethStart <= l1Head + 1
       /\ L1Kept(L1DefaultStartBlock, ethStart - 1)
  /\ ethPc \in EthBatchPcs => ethStart <= ethEnd /\ ethEnd <= l1Head
  /\ ethPc \in EthBatchPcs \ {"deposits"} => DepositsKept(ethStart, ethEnd)
  /\ ethPc \in {"proven", "portal", "record"} =>
       \A l \in provenLogs :
         l.block \in ethStart .. ethEnd =>
           l \in ethTodo \/ HasProvenRecord(l.withdrawal)
  /\ ethPc \in {"finalized", "finalizedRecord", "outputs", "cursor"} =>
       ProofsKept(ethStart, ethEnd)
  /\ ethPc \in {"finalized", "finalizedRecord"} =>
       \A l \in finalizedLogs :
         l.block \in ethStart .. ethEnd =>
           l \in ethTodo \/ HasFinalizedRecord(l.withdrawal)
  /\ ethPc \in {"outputs", "cursor"} => FinalizationsKept(ethStart, ethEnd)

L2Invariant ==
  /\ lastIndexedBlock["lightlink"] <= l2Head
  /\ WithdrawalsKept(L2DefaultStartBlock, lastIndexedBlock["lightlink"])
  /\ llPc \in {"select"} \cup LlBatchPcs =>
       /\ llStart = L2DefaultStartBlock \/ llStart <= l2Head + 1
       /\ WithdrawalsKept(L2DefaultStartBlock, llStart - 1)
  /\ llPc \in LlBatchPcs => llStart <= llEnd /\ llEnd <= l2Head
  /\ llPc \in {"relayed", "cursor"} => WithdrawalsKept(llStart, llEnd)

CompleteInv == TypeInv /\ L1Invariant /\ L2Invariant

-----------------------------------------------------------------------------
(***************************************************************************)
(* Nothing is ever deleted, so what is kept stays kept.                    *)
(***************************************************************************)
StoreGrows ==
  /\ \A t \in Transactions : status[t] # NoDocument => status'[t] # NoDocument
  /\ \A w : HasProvenRecord(w) => HasProvenRecord(w)'
  /\ \A w : HasFinalizedRecord(w) => HasFinalizedRecord(w)'

\* A single update of the status field keeps the documents.
LEMMA DocumentsStay ==
  ASSUME StoreTypeOK, NEW s \in MessageStatuses
  PROVE  /\ \A x : SetStatus(x, s) =>
              \A t \in Transactions :
                status[t] # NoDocument => status'[t] # NoDocument
         /\ \A txs : BatchCreateTransactions(txs, s) =>
              \A t \in Transactions :
                status[t] # NoDocument => status'[t] # NoDocument
BY DEF SetStatus, BatchCreateTransactions, StoreTypeOK, MessageStatuses,
       WithdrawalStatuses, DepositStatuses, NoDocument

\* Steps that do not write.
LEMMA UnchangedStoreGrows ==
  ASSUME UNCHANGED storeVars  PROVE StoreGrows
BY DEF StoreGrows, storeVars, HasProvenRecord, HasFinalizedRecord

\* Steps of the program take no log back.
LEMMA UnchangedChainGrows ==
  ASSUME ChainTypeOK, UNCHANGED chainVars  PROVE ChainGrows
BY DEF ChainTypeOK, ChainGrows, NewAbove, chainVars

\* The statuses that the code writes.
LEMMA StatusesOfCode ==
  /\ "STATE_ROOT_NOT_PUBLISHED" \in MessageStatuses
  /\ "READY_TO_PROVE" \in MessageStatuses
  /\ "IN_CHALLENGE_PERIOD" \in MessageStatuses
  /\ "READY_FOR_RELAY" \in MessageStatuses
  /\ "RELAYED" \in MessageStatuses
  /\ "UNCONFIRMED_L1_TO_L2_MESSAGE" \in MessageStatuses
BY DEF MessageStatuses, WithdrawalStatuses, DepositStatuses

\* The loops and the checkers delete nothing.
LEMMA EthereumLoopGrows ==
  ASSUME StoreTypeOK, EthStep  PROVE StoreGrows
<1>1. CASE \/ EthStart(lastIndexedBlock["ethereum"]) \/ EthSelectBatch
           \/ ProvenDone \/ FinalizedDone \/ OutputsDone
           \/ \E log \in ethTodo : ProvenReadPortal(log)
  BY <1>1, UnchangedStoreGrows
  DEF EthStart, EthSelectBatch, ProvenDone, FinalizedDone, OutputsDone,
      ProvenReadPortal
<1>2. CASE EthAdvance
  BY <1>2 DEF EthAdvance, StoreGrows, HasProvenRecord, HasFinalizedRecord
<1>3. CASE IndexL1Deposits
  BY <1>3, DocumentsStay, StatusesOfCode
  DEF IndexL1Deposits, StoreGrows, HasProvenRecord, HasFinalizedRecord
<1>4. ASSUME NEW log \in ethTodo, ProvenSetStatus(log) \/ FinalizedSetStatus(log)
      PROVE  StoreGrows
  BY <1>4, DocumentsStay, StatusesOfCode
  DEF ProvenSetStatus, FinalizedSetStatus,
      UpdateTransactionStatusByWithdrawalHash, StoreGrows, HasProvenRecord,
      HasFinalizedRecord
<1>5. ASSUME NEW log \in ethTodo, ProvenCreateRecord(log)  PROVE StoreGrows
  <2> DEFINE new == [withdrawal |-> log.withdrawal, time |-> ethProof]
  <2>1. transactionsProven' =
          {r \in transactionsProven : r.withdrawal # log.withdrawal} \cup {new}
    BY <1>5 DEF ProvenCreateRecord, CreateTransactionProven
  <2>2. new \in transactionsProven' /\ new.withdrawal = log.withdrawal
    BY <2>1
  <2>3. ASSUME NEW w, HasProvenRecord(w)  PROVE HasProvenRecord(w)'
    <3>1. CASE w = log.withdrawal
      BY <2>2, <3>1 DEF HasProvenRecord
    <3>2. CASE w # log.withdrawal
      BY <2>1, <2>3, <3>2 DEF HasProvenRecord
    <3> QED  BY <3>1, <3>2
  <2> QED  BY <1>5, <2>3 DEF ProvenCreateRecord, StoreGrows, HasFinalizedRecord
<1>6. ASSUME NEW log \in ethTodo, FinalizedCreateRecord(log)  PROVE StoreGrows
  BY <1>6
  DEF FinalizedCreateRecord, CreateTransactionFinalized, StoreGrows,
      HasProvenRecord, HasFinalizedRecord
<1>7. ASSUME NEW log \in ethTodo, OutputProposed(log)  PROVE StoreGrows
  BY <1>7
  DEF OutputProposed, UpdateWithdrawalsToReadyToProve, UpdateToReadyToProve, StoreGrows,
      HasProvenRecord, HasFinalizedRecord, NoDocument
<1> QED  BY <1>1, <1>2, <1>3, <1>4, <1>5, <1>6, <1>7 DEF EthStep

\* The same for the second loop.
LEMMA LightLinkLoopGrows ==
  ASSUME StoreTypeOK, LlStep  PROVE StoreGrows
<1>1. CASE \/ LlStart(lastIndexedBlock["lightlink"]) \/ LlSelectBatch
           \/ RelayedDone
  BY <1>1, UnchangedStoreGrows DEF LlStart, LlSelectBatch, RelayedDone
<1>2. CASE LlAdvance
  BY <1>2 DEF LlAdvance, StoreGrows, HasProvenRecord, HasFinalizedRecord
<1>3. CASE IndexL2Withdrawals
  BY <1>3, DocumentsStay, StatusesOfCode
  DEF IndexL2Withdrawals, StoreGrows, HasProvenRecord, HasFinalizedRecord
<1>4. ASSUME NEW log \in llTodo, RelayedMessage(log)  PROVE StoreGrows
  BY <1>4, DocumentsStay, StatusesOfCode
  DEF RelayedMessage, UpdateTransactionByMessageHash, StoreGrows,
      HasProvenRecord, HasFinalizedRecord
<1> QED  BY <1>1, <1>2, <1>3, <1>4 DEF LlStep

\* The same for the checkers.
LEMMA CheckersGrow ==
  ASSUME StoreTypeOK, CheckerStep  PROVE StoreGrows
<1>1. CASE \/ ProvenCheckerList \/ FinalizedCheckerList \/ ReadyCheckerList
           \/ \E w \in provenList : ProvenCheckerFind(w)
           \/ \E w \in finalizedList : FinalizedCheckerFind(w)
           \/ \E w \in readyMatched : ReadyCheckerLookup(w)
  BY <1>1, UnchangedStoreGrows
  DEF ProvenCheckerList, FinalizedCheckerList, ReadyCheckerList, ReadyCheckerLookup,
      ProvenCheckerFind, FinalizedCheckerFind
<1>2. CASE \/ \E w \in provenHit : ProvenCheckerUpdate(w)
           \/ \E w \in finalizedHit : FinalizedCheckerUpdate(w)
           \/ \E r \in readyList : ReadyCheckerUpdate(r)
  BY <1>2, DocumentsStay, StatusesOfCode
  DEF ProvenCheckerUpdate, FinalizedCheckerUpdate, ReadyCheckerUpdate,
      UpdateTransactionStatusByWithdrawalHash, StoreGrows, HasProvenRecord,
      HasFinalizedRecord
<1> QED  BY <1>1, <1>2
         DEF CheckerStep, ProvenCheckerStep, FinalizedCheckerStep,
             ReadyCheckerStep

\* A step that ends a loop, or that is part of an end, a start or a fault.
LEMMA FaultGrows ==
  ASSUME StoreTypeOK,
         \/ LoopFault \/ ReadFault \/ Exit \/ Stop \/ Restart
         \/ \E c \in CheckerNames : CheckerFault(c)
  PROVE  StoreGrows
<1>1. CASE UNCHANGED storeVars
  BY <1>1, UnchangedStoreGrows
<1>2. CASE \/ \E txs \in SUBSET DepositsInBatch : IndexL1DepositsFails(txs)
           \/ \E txs \in SUBSET WithdrawalsInBatch : IndexL2WithdrawalsFails(txs)
  BY <1>2, DocumentsStay, StatusesOfCode
  DEF IndexL1DepositsFails, IndexL2WithdrawalsFails, StoreGrows,
      HasProvenRecord, HasFinalizedRecord
<1>3. ASSUME NEW log \in ethTodo, NEW txs \in SUBSET Withdrawals,
             OutputProposedFails(log, txs)
      PROVE  StoreGrows
  BY <1>3
  DEF OutputProposedFails, UpdateToReadyToProve, StoreGrows, HasProvenRecord,
      HasFinalizedRecord, NoDocument
<1> QED  BY <1>1, <1>2, <1>3
         DEF LoopFault, EthFail, LlFail, ReadFault, EthStart, LlStart,
             CheckerFault, CheckerFail, Exit, Stop, EndProcess, Restart

\* What is kept of mined blocks stays kept, and there are no new logs in them.
LEMMA KeptStays ==
  ASSUME ChainTypeOK, StoreGrows, ChainGrows, NEW a \in Nat, NEW b \in Int
  PROVE  /\ b <= l1Head =>
              /\ DepositsKept(a, b) => DepositsKept(a, b)'
              /\ ProofsKept(a, b) => ProofsKept(a, b)'
              /\ FinalizationsKept(a, b) => FinalizationsKept(a, b)'
         /\ b <= l2Head => (WithdrawalsKept(a, b) => WithdrawalsKept(a, b)')
<1>1. /\ \A l \in depositLogs : l.deposit \in Transactions
      /\ \A l \in withdrawalLogs : l.withdrawal \in Transactions
  BY DEF ChainTypeOK, Transactions
<1>2. l1Head \in Nat /\ l2Head \in Nat
  BY DEF ChainTypeOK
<1>3. ASSUME b <= l1Head, DepositsKept(a, b)  PROVE DepositsKept(a, b)'
  <2> SUFFICES ASSUME NEW l \in depositLogs', l.block \in a .. b
               PROVE  status'[l.deposit] # NoDocument
    BY DEF DepositsKept
  <2>1. l \in depositLogs
    BY <1>2, <1>3 DEF ChainGrows, NewAbove
  <2> QED  BY <1>1, <1>3, <2>1 DEF DepositsKept, StoreGrows
<1>4. ASSUME b <= l1Head, ProofsKept(a, b)  PROVE ProofsKept(a, b)'
  <2> SUFFICES ASSUME NEW l \in provenLogs', l.block \in a .. b
               PROVE  HasProvenRecord(l.withdrawal)'
    BY DEF ProofsKept
  <2>1. l \in provenLogs
    BY <1>2, <1>4 DEF ChainGrows, NewAbove
  <2> QED  BY <1>4, <2>1 DEF ProofsKept, StoreGrows
<1>5. ASSUME b <= l1Head, FinalizationsKept(a, b)  PROVE FinalizationsKept(a, b)'
  <2> SUFFICES ASSUME NEW l \in finalizedLogs', l.block \in a .. b
               PROVE  HasFinalizedRecord(l.withdrawal)'
    BY DEF FinalizationsKept
  <2>1. l \in finalizedLogs
    BY <1>2, <1>5 DEF ChainGrows, NewAbove
  <2> QED  BY <1>5, <2>1 DEF FinalizationsKept, StoreGrows
<1>6. ASSUME b <= l2Head, WithdrawalsKept(a, b)  PROVE WithdrawalsKept(a, b)'
  <2> SUFFICES ASSUME NEW l \in withdrawalLogs', l.block \in a .. b
               PROVE  status'[l.withdrawal] # NoDocument
    BY DEF WithdrawalsKept
  <2>1. l \in withdrawalLogs
    BY <1>2, <1>6 DEF ChainGrows, NewAbove
  <2> QED  BY <1>1, <1>6, <2>1 DEF WithdrawalsKept, StoreGrows
<1> QED  BY <1>3, <1>4, <1>5, <1>6

\* What is up to the next block of one head is so of a later head.
LEMMA BoundGrows ==
  ASSUME NEW a \in Nat, NEW b \in Nat, a <= b
  PROVE  \A n \in Nat : n <= a + 1 => n <= b + 1
OBVIOUS

\* A step of another goroutine or of the chains, which leaves the loop alone.
LEMMA L1Frame ==
  ASSUME TypeInv, TypeInv', L1Invariant, StoreGrows, ChainGrows,
         UNCHANGED ethVars,
         lastIndexedBlock'["ethereum"] = lastIndexedBlock["ethereum"]
  PROVE  L1Invariant'
<1> USE EthereumIndexerAssumption
<1>1. /\ ChainTypeOK /\ l1Head \in Nat /\ l1Head' \in Nat /\ l1Head <= l1Head'
      /\ ethStart \in Nat /\ ethEnd \in Nat
      /\ lastIndexedBlock["ethereum"] \in Nat
  BY DEF TypeInv, TypeOK, ChainTypeOK, EthTypeOK, StoreTypeOK, IndexedChains,
         ChainGrows
<1>2. L1Kept(L1DefaultStartBlock, lastIndexedBlock["ethereum"])'
  BY <1>1, KeptStays DEF L1Invariant, L1Kept
<1>3. ASSUME ethPc \in {"select"} \cup EthBatchPcs
      PROVE  L1Kept(L1DefaultStartBlock, ethStart - 1)'
  <2>1. CASE ethStart = L1DefaultStartBlock
    BY <1>1, <2>1
    DEF L1Kept, DepositsKept, ProofsKept, FinalizationsKept, ethVars
  <2>2. CASE ethStart <= l1Head + 1
    <3>1. ethStart - 1 \in Int /\ ethStart - 1 <= l1Head
      BY <1>1, <2>2
    <3> QED  BY <1>1, <1>3, <3>1, KeptStays DEF L1Invariant, L1Kept, ethVars
  <2> QED  BY <1>3, <2>1, <2>2 DEF L1Invariant
<1>4. ASSUME ethPc \in EthBatchPcs
      PROVE  /\ DepositsKept(ethStart, ethEnd) => DepositsKept(ethStart, ethEnd)'
             /\ ProofsKept(ethStart, ethEnd) => ProofsKept(ethStart, ethEnd)'
             /\ FinalizationsKept(ethStart, ethEnd) => FinalizationsKept(ethStart, ethEnd)'
             /\ \A l \in provenLogs' : l.block \in ethStart .. ethEnd => l \in provenLogs
             /\ \A l \in finalizedLogs' : l.block \in ethStart .. ethEnd => l \in finalizedLogs
  <2>1. ethEnd <= l1Head
    BY <1>4 DEF L1Invariant
  <2>2. UNCHANGED << ethStart, ethEnd >>
    BY DEF ethVars
  <2>3. /\ DepositsKept(ethStart, ethEnd) => DepositsKept(ethStart, ethEnd)'
        /\ ProofsKept(ethStart, ethEnd) => ProofsKept(ethStart, ethEnd)'
        /\ FinalizationsKept(ethStart, ethEnd) => FinalizationsKept(ethStart, ethEnd)'
    BY <1>1, <2>1, <2>2, KeptStays
  <2> QED  BY <1>1, <2>1, <2>3 DEF ChainGrows, NewAbove
<1>5. UNCHANGED << ethPc, ethStart, ethEnd, ethTodo >>
  BY DEF ethVars
<1>6. /\ \A w : HasProvenRecord(w) => HasProvenRecord(w)'
      /\ \A w : HasFinalizedRecord(w) => HasFinalizedRecord(w)'
  BY DEF StoreGrows
<1>7. {"proven", "portal", "record", "finalized", "finalizedRecord", "outputs",
       "cursor"} \subseteq EthBatchPcs
  BY DEF EthBatchPcs
<1>8. ethPc \in {"proven", "portal", "record"} =>
        \A l \in provenLogs' :
          l.block \in ethStart .. ethEnd =>
            l \in ethTodo \/ HasProvenRecord(l.withdrawal)'
  BY <1>4, <1>6, <1>7 DEF L1Invariant
<1>9. ethPc \in {"finalized", "finalizedRecord"} =>
        \A l \in finalizedLogs' :
          l.block \in ethStart .. ethEnd =>
            l \in ethTodo \/ HasFinalizedRecord(l.withdrawal)'
  BY <1>4, <1>6, <1>7 DEF L1Invariant
<1>10. /\ lastIndexedBlock'["ethereum"] <= l1Head'
       /\ ethPc \in {"select"} \cup EthBatchPcs =>
            ethStart = L1DefaultStartBlock \/ ethStart <= l1Head' + 1
       /\ ethPc \in EthBatchPcs => ethStart <= ethEnd /\ ethEnd <= l1Head'
  <2>1. lastIndexedBlock'["ethereum"] <= l1Head'
    <3>1. lastIndexedBlock["ethereum"] <= l1Head
      BY DEF L1Invariant
    <3> DEFINE last == lastIndexedBlock["ethereum"]
    <3>2. last \in Nat /\ last <= l1Head /\ last' = last
      BY <1>1, <3>1
    <3> HIDE DEF last
    <3>3. last' <= l1Head'
      BY <1>1, <3>2
    <3> QED  BY <3>3 DEF last
  <2>2. ASSUME ethPc \in {"select"} \cup EthBatchPcs
        PROVE  ethStart = L1DefaultStartBlock \/ ethStart <= l1Head' + 1
    <3>1. ethStart = L1DefaultStartBlock \/ ethStart <= l1Head + 1
      BY <2>2 DEF L1Invariant
    <3>2. CASE ethStart <= l1Head + 1
      BY <1>1, <3>2, BoundGrows
    <3> QED  BY <3>1, <3>2
  <2>3. ASSUME ethPc \in EthBatchPcs
        PROVE  ethStart <= ethEnd /\ ethEnd <= l1Head'
    <3>1. ethStart <= ethEnd /\ ethEnd <= l1Head
      BY <2>3 DEF L1Invariant
    <3> QED  BY <1>1, <3>1
  <2> QED  BY <2>1, <2>2, <2>3
<1>11. /\ ethPc \in EthBatchPcs \ {"deposits"} => DepositsKept(ethStart, ethEnd)'
       /\ ethPc \in {"finalized", "finalizedRecord", "outputs", "cursor"} =>
            ProofsKept(ethStart, ethEnd)'
       /\ ethPc \in {"outputs", "cursor"} => FinalizationsKept(ethStart, ethEnd)'
  BY <1>4, <1>7 DEF L1Invariant
<1> QED  BY <1>2, <1>3, <1>5, <1>8, <1>9, <1>10, <1>11 DEF L1Invariant

\* The loop ends, or the process, or it starts.
LEMMA L1Down ==
  ASSUME TypeInv, L1Invariant, StoreGrows, UNCHANGED chainVars,
         UNCHANGED lastIndexedBlock,
         ethPc' \in {"down", "failed", "start"}
  PROVE  L1Invariant'
<1>1. /\ ChainTypeOK /\ ChainGrows /\ l1Head' = l1Head
      /\ lastIndexedBlock["ethereum"] \in Nat
  BY UnchangedChainGrows
  DEF TypeInv, TypeOK, StoreTypeOK, IndexedChains, chainVars
<1>2. L1Kept(L1DefaultStartBlock, lastIndexedBlock["ethereum"])'
  BY <1>1, KeptStays, EthereumIndexerAssumption DEF L1Invariant, L1Kept
<1> QED  BY <1>1, <1>2 DEF L1Invariant, EthBatchPcs

\* The loop starts, after the last indexed block or at the default one.
LEMMA L1Start ==
  ASSUME TypeInv, L1Invariant, UNCHANGED chainVars,
         NEW n \in {0, lastIndexedBlock["ethereum"]}, EthStart(n)
  PROVE  L1Invariant'
<1> USE EthereumIndexerAssumption
<1>1. /\ ChainTypeOK /\ ChainGrows /\ l1Head' = l1Head /\ l1Head \in Nat
      /\ lastIndexedBlock["ethereum"] \in Nat /\ StoreGrows
      /\ lastIndexedBlock' = lastIndexedBlock
  BY UnchangedChainGrows, UnchangedStoreGrows
  DEF TypeInv, TypeOK, ChainTypeOK, StoreTypeOK, IndexedChains, chainVars,
      EthStart, storeVars
<1>2. L1Kept(L1DefaultStartBlock, lastIndexedBlock["ethereum"])'
  BY <1>1, KeptStays DEF L1Invariant, L1Kept
<1>3. CASE n > 0
  <2>1. ethStart' = lastIndexedBlock'["ethereum"] + 1
    BY <1>1, <1>3 DEF EthStart, ResumeBlock
  <2>2. ethStart' - 1 = lastIndexedBlock'["ethereum"]
    BY <1>1, <2>1
  <2>3. L1Kept(L1DefaultStartBlock, ethStart - 1)'
    BY <1>2, <2>2 DEF L1Kept, DepositsKept, ProofsKept, FinalizationsKept
  <2>4. ethStart' <= l1Head' + 1
    BY <1>1, <2>1 DEF L1Invariant
  <2> QED  BY <1>1, <1>2, <2>3, <2>4 DEF L1Invariant, EthStart, EthBatchPcs
<1>4. CASE ~(n > 0)
  <2>1. ethStart' = L1DefaultStartBlock
    BY <1>4 DEF EthStart, ResumeBlock
  <2>2. L1Kept(L1DefaultStartBlock, ethStart - 1)'
    BY <2>1 DEF L1Kept, DepositsKept, ProofsKept, FinalizationsKept
  <2> QED  BY <1>1, <1>2, <2>1, <2>2 DEF L1Invariant, EthStart, EthBatchPcs
<1> QED  BY <1>3, <1>4

\* A step of the loop itself.  In each stage, a log leaves the iterator only
\* when what it stands for is written.
LEMMA L1Step ==
  ASSUME TypeInv, TypeInv', L1Invariant, EthereumLoop
  PROVE  L1Invariant'
<1> USE EthereumIndexerAssumption
<1>1. /\ UNCHANGED chainVars /\ l1Head' = l1Head
      /\ provenLogs' = provenLogs /\ finalizedLogs' = finalizedLogs
  BY DEF EthereumLoop, chainVars
<1>2. /\ ChainTypeOK /\ StoreTypeOK /\ EthTypeOK /\ l1Head \in Nat
      /\ ethStart \in Nat /\ ethEnd \in Nat
      /\ lastIndexedBlock["ethereum"] \in Nat
  BY DEF TypeInv, TypeOK, ChainTypeOK, EthTypeOK, StoreTypeOK, IndexedChains
<1>3. StoreGrows /\ ChainGrows
  BY <1>1, <1>2, EthereumLoopGrows, UnchangedChainGrows DEF EthereumLoop
<1>4. ASSUME NEW a \in Nat, NEW b \in Int, b <= l1Head
      PROVE  /\ DepositsKept(a, b) => DepositsKept(a, b)'
             /\ ProofsKept(a, b) => ProofsKept(a, b)'
             /\ FinalizationsKept(a, b) => FinalizationsKept(a, b)'
  BY <1>2, <1>3, <1>4, KeptStays
<1>5. /\ \A w : HasProvenRecord(w) => HasProvenRecord(w)'
      /\ \A w : HasFinalizedRecord(w) => HasFinalizedRecord(w)'
  BY <1>3 DEF StoreGrows
\* What every step but the first and the last of a batch leaves alone.
<1>6. ASSUME ethPc \in {"select"} \cup EthBatchPcs, ethStart' = ethStart,
             lastIndexedBlock' = lastIndexedBlock
      PROVE  /\ lastIndexedBlock'["ethereum"] <= l1Head'
             /\ L1Kept(L1DefaultStartBlock, lastIndexedBlock["ethereum"])'
             /\ ethStart' = L1DefaultStartBlock \/ ethStart' <= l1Head' + 1
             /\ L1Kept(L1DefaultStartBlock, ethStart - 1)'
  <2>1. lastIndexedBlock["ethereum"] <= l1Head
    BY DEF L1Invariant
  <2>2. L1Kept(L1DefaultStartBlock, lastIndexedBlock["ethereum"])'
    BY <1>2, <1>4, <1>6, <2>1 DEF L1Invariant, L1Kept
  <2>3. ethStart = L1DefaultStartBlock \/ ethStart <= l1Head + 1
    BY <1>6 DEF L1Invariant
  <2>4. L1Kept(L1DefaultStartBlock, ethStart - 1)'
    <3>1. CASE ethStart = L1DefaultStartBlock
      BY <1>6, <3>1 DEF L1Kept, DepositsKept, ProofsKept, FinalizationsKept
    <3>2. CASE ethStart <= l1Head + 1
      <4>1. ethStart - 1 \in Int /\ ethStart - 1 <= l1Head
        BY <1>2, <3>2
      <4>2. L1Kept(L1DefaultStartBlock, ethStart - 1)
        BY <1>6 DEF L1Invariant
      <4> QED  BY <1>4, <1>6, <4>1, <4>2 DEF L1Kept
    <3> QED  BY <2>3, <3>1, <3>2
  <2> QED  BY <1>1, <1>6, <2>1, <2>2, <2>3, <2>4
<1>7. ASSUME ethPc \in EthBatchPcs, ethStart' = ethStart, ethEnd' = ethEnd
      PROVE  /\ ethStart' <= ethEnd' /\ ethEnd' <= l1Head'
             /\ DepositsKept(ethStart, ethEnd) => DepositsKept(ethStart, ethEnd)'
             /\ ProofsKept(ethStart, ethEnd) => ProofsKept(ethStart, ethEnd)'
             /\ FinalizationsKept(ethStart, ethEnd) => FinalizationsKept(ethStart, ethEnd)'
  <2>1. ethStart <= ethEnd /\ ethEnd <= l1Head
    BY <1>7 DEF L1Invariant
  <2> QED  BY <1>1, <1>2, <1>4, <1>7, <2>1
<1>8. CASE EthStart(lastIndexedBlock["ethereum"])
  BY <1>1, <1>8, L1Start
<1>9. CASE EthSelectBatch
  <2>1. ethEnd' <= l1Head /\ ethStart <= ethEnd'
    BY <1>2, <1>9, BatchEndBound DEF EthSelectBatch
  <2> QED  BY <1>1, <1>6, <1>9, <2>1
           DEF EthSelectBatch, storeVars, L1Invariant, EthBatchPcs
<1>10. CASE IndexL1Deposits
  <2>1. DepositsKept(ethStart, ethEnd)'
    <3> SUFFICES ASSUME NEW l \in depositLogs', l.block \in ethStart' .. ethEnd'
                 PROVE  status'[l.deposit] # NoDocument
      BY DEF DepositsKept
    <3>1. l \in Filter(depositLogs, ethStart, ethEnd) /\ l.deposit \in Transactions
      BY <1>1, <1>2, <1>10
      DEF IndexL1Deposits, Filter, ChainTypeOK, Transactions, chainVars
    <3> QED  BY <1>10, <3>1
             DEF IndexL1Deposits, BatchCreateTransactions, DepositsInBatch,
                 NoDocument
  <2>2. \A l \in provenLogs : l.block \in ethStart .. ethEnd => l \in ethTodo'
    BY <1>10 DEF IndexL1Deposits, Filter
  <2> QED  BY <1>1, <1>6, <1>7, <1>10, <2>1, <2>2
           DEF IndexL1Deposits, L1Invariant, EthBatchPcs
<1>11. ASSUME NEW log \in ethTodo, ProvenSetStatus(log) \/ ProvenReadPortal(log)
       PROVE  L1Invariant'
  <2>1. /\ ethPc \in {"proven", "portal"} /\ ethPc' \in {"portal", "record"}
        /\ UNCHANGED << ethStart, ethEnd, ethTodo, lastIndexedBlock >>
    BY <1>11 DEF ProvenSetStatus, ProvenReadPortal, storeVars
  <2> QED  BY <1>1, <1>5, <1>6, <1>7, <2>1 DEF L1Invariant, EthBatchPcs
<1>12. ASSUME NEW log \in ethTodo, ProvenCreateRecord(log)  PROVE L1Invariant'
  <2>1. HasProvenRecord(log.withdrawal)'
    <3> DEFINE new == [withdrawal |-> log.withdrawal, time |-> ethProof]
    <3>1. new \in transactionsProven' /\ new.withdrawal = log.withdrawal
      BY <1>12 DEF ProvenCreateRecord, CreateTransactionProven
    <3> QED  BY <3>1 DEF HasProvenRecord
  <2>2. \A l \in ethTodo : l \in ethTodo' \/ l = log
    BY <1>12 DEF ProvenCreateRecord
  <2> QED  BY <1>1, <1>5, <1>6, <1>7, <1>12, <2>1, <2>2
           DEF ProvenCreateRecord, L1Invariant, EthBatchPcs
<1>13. CASE ProvenDone
  <2>1. ProofsKept(ethStart, ethEnd)
    BY <1>13 DEF ProvenDone, L1Invariant, ProofsKept
  <2>2. \A l \in finalizedLogs : l.block \in ethStart .. ethEnd => l \in ethTodo'
    BY <1>13 DEF ProvenDone, Filter
  <2> QED  BY <1>1, <1>6, <1>7, <1>13, <2>1, <2>2
           DEF ProvenDone, storeVars, L1Invariant, EthBatchPcs
<1>14. ASSUME NEW log \in ethTodo, FinalizedSetStatus(log)  PROVE L1Invariant'
  BY <1>1, <1>5, <1>6, <1>7, <1>14
  DEF FinalizedSetStatus, L1Invariant, EthBatchPcs
<1>15. ASSUME NEW log \in ethTodo, FinalizedCreateRecord(log)  PROVE L1Invariant'
  <2>1. HasFinalizedRecord(log.withdrawal)'
    BY <1>15
    DEF FinalizedCreateRecord, CreateTransactionFinalized, HasFinalizedRecord
  <2>2. \A l \in ethTodo : l \in ethTodo' \/ l = log
    BY <1>15 DEF FinalizedCreateRecord
  <2> QED  BY <1>1, <1>5, <1>6, <1>7, <1>15, <2>1, <2>2
           DEF FinalizedCreateRecord, L1Invariant, EthBatchPcs
<1>16. CASE FinalizedDone
  <2>1. FinalizationsKept(ethStart, ethEnd)
    BY <1>16 DEF FinalizedDone, L1Invariant, FinalizationsKept
  <2> QED  BY <1>1, <1>6, <1>7, <1>16, <2>1
           DEF FinalizedDone, storeVars, L1Invariant, EthBatchPcs
<1>17. CASE OutputsDone \/ \E log \in ethTodo : OutputProposed(log)
  <2>1. /\ ethPc = "outputs" /\ ethPc' \in {"outputs", "cursor"}
        /\ UNCHANGED << ethStart, ethEnd, lastIndexedBlock >>
    BY <1>17 DEF OutputsDone, OutputProposed, storeVars
  <2> QED  BY <1>1, <1>6, <1>7, <2>1 DEF L1Invariant, EthBatchPcs
<1>18. CASE EthAdvance
  <2>1. /\ ethPc = "cursor" /\ ethPc' = "select" /\ ethStart' = ethEnd + 1
        /\ lastIndexedBlock'["ethereum"] = ethEnd
    BY <1>2, <1>18
    DEF EthAdvance, UpdateLastIndexedBlock, StoreTypeOK, IndexedChains
  <2>2. /\ ethStart <= ethEnd /\ ethEnd <= l1Head
        /\ L1Kept(L1DefaultStartBlock, ethStart - 1) /\ L1Kept(ethStart, ethEnd)
    BY <2>1 DEF L1Invariant, EthBatchPcs, L1Kept
  <2>3. L1Kept(L1DefaultStartBlock, ethEnd)
    <3>1. \A n \in L1DefaultStartBlock .. ethEnd :
            n \in L1DefaultStartBlock .. (ethStart - 1) \/ n \in ethStart .. ethEnd
      BY <1>2
    <3> QED  BY <2>2, <3>1
             DEF L1Kept, DepositsKept, ProofsKept, FinalizationsKept
  <2>4. /\ L1Kept(L1DefaultStartBlock, lastIndexedBlock["ethereum"])'
        /\ L1Kept(L1DefaultStartBlock, ethStart - 1)'
    <3>1. /\ DepositsKept(L1DefaultStartBlock, ethEnd)
          /\ ProofsKept(L1DefaultStartBlock, ethEnd)
          /\ FinalizationsKept(L1DefaultStartBlock, ethEnd)
      BY <2>3 DEF L1Kept
    <3>2. ethStart' - 1 = ethEnd /\ lastIndexedBlock'["ethereum"] = ethEnd
      BY <1>2, <2>1
    <3>3. UNCHANGED << depositLogs, status >>
      BY <1>1, <1>18 DEF EthAdvance, chainVars
    <3>4. \A w : /\ HasProvenRecord(w)' = HasProvenRecord(w)
                 /\ HasFinalizedRecord(w)' = HasFinalizedRecord(w)
      BY <1>18 DEF EthAdvance, HasProvenRecord, HasFinalizedRecord
    <3> QED  BY <1>1, <3>1, <3>2, <3>3, <3>4
             DEF L1Kept, DepositsKept, ProofsKept, FinalizationsKept
  <2>5. lastIndexedBlock'["ethereum"] <= l1Head' /\ ethStart' <= l1Head' + 1
    BY <1>1, <1>2, <2>1, <2>2
  <2> QED  BY <2>1, <2>4, <2>5 DEF L1Invariant, EthBatchPcs
<1> QED
  BY <1>8, <1>9, <1>10, <1>11, <1>12, <1>13, <1>14, <1>15, <1>16, <1>17, <1>18
     DEF EthereumLoop, EthStep

-----------------------------------------------------------------------------
(***************************************************************************)
(* The same for the loop of LightLink.                                     *)
(***************************************************************************)
LEMMA L2Frame ==
  ASSUME TypeInv, TypeInv', L2Invariant, StoreGrows, ChainGrows,
         UNCHANGED llVars,
         lastIndexedBlock'["lightlink"] = lastIndexedBlock["lightlink"]
  PROVE  L2Invariant'
<1> USE LightLinkIndexerAssumption
<1>1. /\ ChainTypeOK /\ l2Head \in Nat /\ l2Head' \in Nat /\ l2Head <= l2Head'
      /\ llStart \in Nat /\ llEnd \in Nat
      /\ lastIndexedBlock["lightlink"] \in Nat
  BY DEF TypeInv, TypeOK, ChainTypeOK, LlTypeOK, StoreTypeOK, IndexedChains,
         ChainGrows
<1>2. UNCHANGED << llPc, llStart, llEnd >>
  BY DEF llVars
<1>3. lastIndexedBlock'["lightlink"] <= l2Head'
  <2> DEFINE last == lastIndexedBlock["lightlink"]
  <2>1. last \in Nat /\ last <= l2Head /\ last' = last
    BY <1>1 DEF L2Invariant
  <2> HIDE DEF last
  <2>2. last' <= l2Head'
    BY <1>1, <2>1
  <2> QED  BY <2>2 DEF last
<1>4. WithdrawalsKept(L2DefaultStartBlock, lastIndexedBlock["lightlink"])'
  BY <1>1, KeptStays DEF L2Invariant
<1>5. ASSUME llPc \in {"select"} \cup LlBatchPcs
      PROVE  /\ llStart = L2DefaultStartBlock \/ llStart <= l2Head' + 1
             /\ WithdrawalsKept(L2DefaultStartBlock, llStart - 1)'
  <2>1. CASE llStart = L2DefaultStartBlock
    BY <1>1, <1>2, <2>1 DEF WithdrawalsKept
  <2>2. CASE llStart <= l2Head + 1
    <3>1. llStart - 1 \in Int /\ llStart - 1 <= l2Head
      BY <1>1, <2>2
    <3>2. WithdrawalsKept(L2DefaultStartBlock, llStart - 1)'
      BY <1>1, <1>2, <1>5, <3>1, KeptStays DEF L2Invariant
    <3>3. llStart <= l2Head' + 1
      BY <1>1, <2>2, BoundGrows
    <3> QED  BY <3>2, <3>3
  <2> QED  BY <1>5, <2>1, <2>2 DEF L2Invariant
<1>6. ASSUME llPc \in LlBatchPcs
      PROVE  /\ llStart <= llEnd /\ llEnd <= l2Head'
             /\ WithdrawalsKept(llStart, llEnd) => WithdrawalsKept(llStart, llEnd)'
  <2>1. llStart <= llEnd /\ llEnd <= l2Head
    BY <1>6 DEF L2Invariant
  <2> QED  BY <1>1, <1>2, <2>1, KeptStays
<1> QED  BY <1>2, <1>3, <1>4, <1>5, <1>6 DEF L2Invariant, LlBatchPcs

\* A fault or an end leaves the part about recorded blocks.
LEMMA L2Down ==
  ASSUME TypeInv, L2Invariant, StoreGrows, UNCHANGED chainVars,
         UNCHANGED lastIndexedBlock,
         llPc' \in {"down", "failed", "start"}
  PROVE  L2Invariant'
<1>1. /\ ChainTypeOK /\ ChainGrows /\ l2Head' = l2Head
      /\ lastIndexedBlock["lightlink"] \in Nat
  BY UnchangedChainGrows
  DEF TypeInv, TypeOK, StoreTypeOK, IndexedChains, chainVars
<1>2. WithdrawalsKept(L2DefaultStartBlock, lastIndexedBlock["lightlink"])'
  BY <1>1, KeptStays, LightLinkIndexerAssumption DEF L2Invariant
<1> QED  BY <1>1, <1>2 DEF L2Invariant, LlBatchPcs

\* From which the next process starts.
LEMMA L2Start ==
  ASSUME TypeInv, L2Invariant, UNCHANGED chainVars,
         NEW n \in {0, lastIndexedBlock["lightlink"]}, LlStart(n)
  PROVE  L2Invariant'
<1> USE LightLinkIndexerAssumption
<1>1. /\ ChainTypeOK /\ ChainGrows /\ l2Head' = l2Head /\ l2Head \in Nat
      /\ lastIndexedBlock["lightlink"] \in Nat /\ StoreGrows
      /\ lastIndexedBlock' = lastIndexedBlock
  BY UnchangedChainGrows, UnchangedStoreGrows
  DEF TypeInv, TypeOK, ChainTypeOK, StoreTypeOK, IndexedChains, chainVars,
      LlStart, storeVars
<1>2. WithdrawalsKept(L2DefaultStartBlock, lastIndexedBlock["lightlink"])'
  BY <1>1, KeptStays DEF L2Invariant
<1>3. CASE n > 0
  <2>1. llStart' = lastIndexedBlock'["lightlink"] + 1
    BY <1>1, <1>3 DEF LlStart, ResumeBlock
  <2>2. llStart' - 1 = lastIndexedBlock'["lightlink"]
    BY <1>1, <2>1
  <2>3. WithdrawalsKept(L2DefaultStartBlock, llStart - 1)'
    BY <1>2, <2>2 DEF WithdrawalsKept
  <2>4. llStart' <= l2Head' + 1
    BY <1>1, <2>1 DEF L2Invariant
  <2> QED  BY <1>1, <1>2, <2>3, <2>4 DEF L2Invariant, LlStart, LlBatchPcs
<1>4. CASE ~(n > 0)
  <2>1. llStart' = L2DefaultStartBlock
    BY <1>4 DEF LlStart, ResumeBlock
  <2>2. WithdrawalsKept(L2DefaultStartBlock, llStart - 1)'
    BY <2>1 DEF WithdrawalsKept
  <2> QED  BY <1>1, <1>2, <2>1, <2>2 DEF L2Invariant, LlStart, LlBatchPcs
<1> QED  BY <1>3, <1>4

\* The steps of the loop of LightLink.
LEMMA L2Step ==
  ASSUME TypeInv, TypeInv', L2Invariant, LightLinkLoop
  PROVE  L2Invariant'
<1> USE LightLinkIndexerAssumption
<1>1. UNCHANGED chainVars /\ l2Head' = l2Head /\ withdrawalLogs' = withdrawalLogs
  BY DEF LightLinkLoop, chainVars
<1>2. /\ ChainTypeOK /\ StoreTypeOK /\ l2Head \in Nat
      /\ llStart \in Nat /\ llEnd \in Nat
      /\ lastIndexedBlock["lightlink"] \in Nat
  BY DEF TypeInv, TypeOK, ChainTypeOK, LlTypeOK, StoreTypeOK, IndexedChains
<1>3. StoreGrows /\ ChainGrows
  BY <1>1, <1>2, LightLinkLoopGrows, UnchangedChainGrows DEF LightLinkLoop
<1>4. ASSUME NEW a \in Nat, NEW b \in Int, b <= l2Head, WithdrawalsKept(a, b)
      PROVE  WithdrawalsKept(a, b)'
  BY <1>2, <1>3, <1>4, KeptStays
<1>5. ASSUME llPc \in {"select"} \cup LlBatchPcs, llStart' = llStart,
             lastIndexedBlock' = lastIndexedBlock
      PROVE  /\ lastIndexedBlock'["lightlink"] <= l2Head'
             /\ WithdrawalsKept(L2DefaultStartBlock, lastIndexedBlock["lightlink"])'
             /\ llStart' = L2DefaultStartBlock \/ llStart' <= l2Head' + 1
             /\ WithdrawalsKept(L2DefaultStartBlock, llStart - 1)'
  <2>1. lastIndexedBlock["lightlink"] <= l2Head
    BY DEF L2Invariant
  <2>2. WithdrawalsKept(L2DefaultStartBlock, lastIndexedBlock["lightlink"])'
    BY <1>2, <1>4, <1>5, <2>1 DEF L2Invariant
  <2>3. llStart = L2DefaultStartBlock \/ llStart <= l2Head + 1
    BY <1>5 DEF L2Invariant
  <2>4. WithdrawalsKept(L2DefaultStartBlock, llStart - 1)'
    <3>1. CASE llStart = L2DefaultStartBlock
      BY <1>5, <3>1 DEF WithdrawalsKept
    <3>2. CASE llStart <= l2Head + 1
      <4>1. llStart - 1 \in Int /\ llStart - 1 <= l2Head
        BY <1>2, <3>2
      <4>2. WithdrawalsKept(L2DefaultStartBlock, llStart - 1)
        BY <1>5 DEF L2Invariant
      <4> QED  BY <1>4, <1>5, <4>1, <4>2
    <3> QED  BY <2>3, <3>1, <3>2
  <2> QED  BY <1>1, <1>5, <2>1, <2>2, <2>3, <2>4
<1>6. CASE LlStart(lastIndexedBlock["lightlink"])
  BY <1>1, <1>6, L2Start
<1>7. CASE LlSelectBatch
  <2>1. llEnd' <= l2Head /\ llStart <= llEnd'
    BY <1>2, <1>7, BatchEndBound DEF LlSelectBatch
  <2> QED  BY <1>1, <1>5, <1>7, <2>1
           DEF LlSelectBatch, storeVars, L2Invariant, LlBatchPcs
<1>8. CASE IndexL2Withdrawals
  <2>1. llStart <= llEnd /\ llEnd <= l2Head
    BY <1>8 DEF IndexL2Withdrawals, L2Invariant, LlBatchPcs
  <2>2. WithdrawalsKept(llStart, llEnd)'
    <3> SUFFICES ASSUME NEW l \in withdrawalLogs', l.block \in llStart' .. llEnd'
                 PROVE  status'[l.withdrawal] # NoDocument
      BY DEF WithdrawalsKept
    <3>1. l \in Filter(withdrawalLogs, llStart, llEnd) /\ l.withdrawal \in Transactions
      BY <1>1, <1>2, <1>8
      DEF IndexL2Withdrawals, Filter, ChainTypeOK, Transactions, chainVars
    <3> QED  BY <1>8, <3>1
             DEF IndexL2Withdrawals, BatchCreateTransactions,
                 WithdrawalsInBatch, NoDocument
  <2> QED  BY <1>1, <1>5, <1>8, <2>1, <2>2
           DEF IndexL2Withdrawals, L2Invariant, LlBatchPcs
<1>9. CASE RelayedDone \/ \E log \in llTodo : RelayedMessage(log)
  <2>1. /\ llPc = "relayed" /\ llPc' \in {"relayed", "cursor"}
        /\ UNCHANGED << llStart, llEnd, lastIndexedBlock >>
    BY <1>9 DEF RelayedDone, RelayedMessage, storeVars
  <2>2. llStart <= llEnd /\ llEnd <= l2Head /\ WithdrawalsKept(llStart, llEnd)
    BY <2>1 DEF L2Invariant, LlBatchPcs
  <2>3. WithdrawalsKept(llStart, llEnd)'
    BY <1>2, <1>4, <2>1, <2>2
  <2> QED  BY <1>1, <1>5, <2>1, <2>2, <2>3 DEF L2Invariant, LlBatchPcs
<1>10. CASE LlAdvance
  <2>1. /\ llPc = "cursor" /\ llPc' = "select" /\ llStart' = llEnd + 1
        /\ lastIndexedBlock'["lightlink"] = llEnd /\ status' = status
    BY <1>2, <1>10
    DEF LlAdvance, UpdateLastIndexedBlock, StoreTypeOK, IndexedChains
  <2>2. /\ llStart <= llEnd /\ llEnd <= l2Head
        /\ WithdrawalsKept(L2DefaultStartBlock, llStart - 1)
        /\ WithdrawalsKept(llStart, llEnd)
    BY <2>1 DEF L2Invariant, LlBatchPcs
  <2>3. WithdrawalsKept(L2DefaultStartBlock, llEnd)
    <3>1. \A n \in L2DefaultStartBlock .. llEnd :
            n \in L2DefaultStartBlock .. (llStart - 1) \/ n \in llStart .. llEnd
      BY <1>2
    <3> QED  BY <2>2, <3>1 DEF WithdrawalsKept
  <2>4. llStart' - 1 = llEnd
    BY <1>2, <2>1
  <2>5. /\ WithdrawalsKept(L2DefaultStartBlock, lastIndexedBlock["lightlink"])'
        /\ WithdrawalsKept(L2DefaultStartBlock, llStart - 1)'
    BY <1>1, <2>1, <2>3, <2>4 DEF WithdrawalsKept
  <2>6. lastIndexedBlock'["lightlink"] <= l2Head' /\ llStart' <= l2Head' + 1
    BY <1>1, <1>2, <2>1, <2>2
  <2> QED  BY <2>1, <2>5, <2>6 DEF L2Invariant, LlBatchPcs
<1> QED
  BY <1>6, <1>7, <1>8, <1>9, <1>10 DEF LightLinkLoop, LlStep

-----------------------------------------------------------------------------
\* Nothing is recorded at the start.
LEMMA InitComplete ==
  ASSUME Init  PROVE CompleteInv
<1>1. TypeInv
  BY InitTypeInv
<1>2. L1Invariant
  BY DEF Init, ChainInit, StoreInit, EthInit, L1Invariant, L1Kept,
         DepositsKept, ProofsKept, FinalizationsKept, IndexedChains,
         EthBatchPcs
<1>3. L2Invariant
  BY DEF Init, ChainInit, StoreInit, LlInit, L2Invariant, WithdrawalsKept,
         IndexedChains, LlBatchPcs
<1> QED  BY <1>1, <1>2, <1>3 DEF CompleteInv

\* Every step keeps the invariant.
LEMMA NextComplete ==
  ASSUME CompleteInv, [Next]_vars
  PROVE  CompleteInv'
<1>1. TypeInv /\ TypeInv' /\ L1Invariant /\ L2Invariant
  BY NextTypeInv DEF CompleteInv
<1>2. ChainTypeOK /\ StoreTypeOK
  BY <1>1 DEF TypeInv, TypeOK
<1>3. CASE UNCHANGED vars
  <2>1. StoreGrows /\ ChainGrows
    BY <1>2, <1>3, UnchangedStoreGrows, UnchangedChainGrows DEF vars
  <2>2. UNCHANGED << ethVars, llVars, lastIndexedBlock >>
    BY <1>3 DEF vars, storeVars
  <2> QED  BY <1>1, <2>1, <2>2, L1Frame, L2Frame DEF CompleteInv
<1>4. CASE Environment
  <2>1. StoreGrows /\ ChainGrows
    BY <1>1, <1>4, UnchangedStoreGrows, ChainStep
    DEF Environment, TypeInv, TypeOK
  <2>2. UNCHANGED << ethVars, llVars, lastIndexedBlock >>
    BY <1>4 DEF Environment, storeVars
  <2> QED  BY <1>1, <2>1, <2>2, L1Frame, L2Frame DEF CompleteInv
<1>5. CASE EthereumLoop
  <2>1. StoreGrows /\ ChainGrows
    BY <1>2, <1>5, EthereumLoopGrows, UnchangedChainGrows DEF EthereumLoop
  <2>2. lastIndexedBlock'["lightlink"] = lastIndexedBlock["lightlink"]
    BY <1>2, <1>5
    DEF EthereumLoop, EthStep, EthStart, EthSelectBatch, IndexL1Deposits,
        ProvenSetStatus, ProvenReadPortal, ProvenCreateRecord,
        FinalizedSetStatus, FinalizedCreateRecord, OutputProposed, ProvenDone,
        FinalizedDone, OutputsDone, EthAdvance, UpdateLastIndexedBlock,
        storeVars, StoreTypeOK, IndexedChains
  <2>3. UNCHANGED llVars
    BY <1>5 DEF EthereumLoop
  <2> QED  BY <1>1, <1>5, <2>1, <2>2, <2>3, L1Step, L2Frame DEF CompleteInv
<1>6. CASE LightLinkLoop
  <2>1. StoreGrows /\ ChainGrows
    BY <1>2, <1>6, LightLinkLoopGrows, UnchangedChainGrows DEF LightLinkLoop
  <2>2. lastIndexedBlock'["ethereum"] = lastIndexedBlock["ethereum"]
    BY <1>2, <1>6
    DEF LightLinkLoop, LlStep, LlStart, LlSelectBatch, IndexL2Withdrawals,
        RelayedMessage, RelayedDone, LlAdvance, UpdateLastIndexedBlock,
        storeVars, StoreTypeOK, IndexedChains
  <2>3. UNCHANGED ethVars
    BY <1>6 DEF LightLinkLoop
  <2> QED  BY <1>1, <1>6, <2>1, <2>2, <2>3, L2Step, L1Frame DEF CompleteInv
<1>7. CASE Checkers(CheckerStep)
  <2>1. StoreGrows /\ ChainGrows
    BY <1>2, <1>7, CheckersGrow, UnchangedChainGrows DEF Checkers
  <2>2. UNCHANGED << ethVars, llVars >>
    BY <1>7 DEF Checkers
  <2>3. UNCHANGED lastIndexedBlock
    BY <1>7
    DEF Checkers, CheckerStep, ProvenCheckerStep, ProvenCheckerList,
        ProvenCheckerFind, ProvenCheckerUpdate, FinalizedCheckerStep,
        FinalizedCheckerList, FinalizedCheckerFind, FinalizedCheckerUpdate,
        ReadyCheckerStep, ReadyCheckerList, ReadyCheckerLookup, ReadyCheckerUpdate, storeVars
  <2> QED  BY <1>1, <2>1, <2>2, <2>3, L1Frame, L2Frame DEF CompleteInv
<1>8. CASE \/ LoopFault \/ ReadFault \/ Exit \/ Stop \/ Restart
           \/ \E c \in CheckerNames : CheckerFault(c)
  <2>1. StoreGrows
    BY <1>2, <1>8, FaultGrows
  <2>2. UNCHANGED chainVars /\ UNCHANGED lastIndexedBlock
    BY <1>8
    DEF LoopFault, EthFail, LlFail, IndexL1DepositsFails, OutputProposedFails,
        IndexL2WithdrawalsFails, ReadFault, EthStart, LlStart, CheckerFault,
        CheckerFail, Exit, Stop, EndProcess, Restart, storeVars
  <2>3. ChainGrows
    BY <1>2, <2>2, UnchangedChainGrows
  <2>4. \/ UNCHANGED ethVars \/ EthStart(0)
        \/ ethPc' \in {"down", "failed", "start"}
    BY <1>8
    DEF LoopFault, EthFail, IndexL1DepositsFails, OutputProposedFails, ReadFault, CheckerFault,
        Exit, Stop, EndProcess, Restart
  <2>5. \/ UNCHANGED llVars \/ LlStart(0)
        \/ llPc' \in {"down", "failed", "start"}
    BY <1>8
    DEF LoopFault, LlFail, IndexL2WithdrawalsFails, ReadFault, CheckerFault,
        Exit, Stop, EndProcess, Restart
  <2>6. L1Invariant'
    BY <1>1, <2>1, <2>2, <2>3, <2>4, L1Frame, L1Start, L1Down
  <2>7. L2Invariant'
    BY <1>1, <2>1, <2>2, <2>3, <2>5, L2Frame, L2Start, L2Down
  <2> QED  BY <1>1, <2>6, <2>7 DEF CompleteInv
<1> QED
  BY <1>3, <1>4, <1>5, <1>6, <1>7, <1>8, WaitingChangesNothing DEF Next

\* Nothing indexed is lost: whatever part of a batch a process had written when
\* it ended, and from whatever block the next one started, the database holds
\* a document or a record of every log in the blocks up to the last indexed one.
THEOREM IndexedBlocksAreComplete == Spec => []IndexedBlocksComplete
<1>1. Init => CompleteInv
  BY InitComplete
<1>2. CompleteInv /\ [Next]_vars => CompleteInv'
  BY NextComplete
<1>3. CompleteInv => IndexedBlocksComplete
  BY DEF CompleteInv, L1Invariant, L2Invariant, L1Kept, DepositsKept,
         ProofsKept, FinalizationsKept, WithdrawalsKept, IndexedBlocksComplete,
         Indexed
<1> QED  BY <1>1, <1>2, <1>3, PTL DEF Spec

-----------------------------------------------------------------------------
(***************************************************************************)
(* The record of the last indexed block moves forward only.  This rests on *)
(* the reads of the record: each loop starts behind what it recorded, and  *)
(* stays there.  When a read may fail it is false (indexer_ethereum.go:25).*)
(***************************************************************************)
StartsBehindRecord ==
  /\ ethPc \in {"select"} \cup EthBatchPcs =>
       lastIndexedBlock["ethereum"] <= ethStart
  /\ llPc \in {"select"} \cup LlBatchPcs =>
       lastIndexedBlock["lightlink"] <= llStart

MonotoneInv == CompleteInv /\ StartsBehindRecord

MovesForward ==
  \A c \in IndexedChains : lastIndexedBlock'[c] >= lastIndexedBlock[c]

\* A recorded block is a block number.
LEMMA RecordTyped ==
  ASSUME TypeInv
  PROVE  /\ lastIndexedBlock["ethereum"] \in Nat
         /\ lastIndexedBlock["lightlink"] \in Nat
         /\ lastIndexedBlock \in [IndexedChains -> Nat]
         /\ ethStart \in Nat /\ ethEnd \in Nat /\ llStart \in Nat /\ llEnd \in Nat
BY DEF TypeInv, TypeOK, StoreTypeOK, EthTypeOK, LlTypeOK, IndexedChains

\* The steps that write neither the record nor the start of a batch.
LEMMA RecordAlone ==
  ASSUME MonotoneInv, UNCHANGED lastIndexedBlock,
         \/ UNCHANGED << ethPc, ethStart >>
         \/ ethPc' \in {"down", "failed", "start"}
         \/ ethPc \in {"select"} \cup EthBatchPcs /\ UNCHANGED ethStart,
         \/ UNCHANGED << llPc, llStart >>
         \/ llPc' \in {"down", "failed", "start"}
         \/ llPc \in {"select"} \cup LlBatchPcs /\ UNCHANGED llStart
  PROVE  StartsBehindRecord' /\ MovesForward
<1>1. MovesForward
  <2>1. ASSUME NEW c \in IndexedChains  PROVE lastIndexedBlock[c] \in Nat
    BY RecordTyped DEF MonotoneInv, CompleteInv
  <2> QED  BY <2>1 DEF MovesForward
<1>2. StartsBehindRecord'
  BY DEF MonotoneInv, StartsBehindRecord, EthBatchPcs, LlBatchPcs
<1> QED  BY <1>1, <1>2

\* A loop records no end that is before the one recorded.
LEMMA EthereumRecord ==
  ASSUME MonotoneInv, EthereumLoop
  PROVE  StartsBehindRecord' /\ MovesForward
<1>1. UNCHANGED << llPc, llStart >>
  BY DEF EthereumLoop, llVars
<1>2. TypeInv
  BY DEF MonotoneInv, CompleteInv
<1>3. CASE EthStart(lastIndexedBlock["ethereum"])
  <2>1. ethStart' = IF lastIndexedBlock["ethereum"] > 0
                      THEN lastIndexedBlock["ethereum"] + 1
                      ELSE L1DefaultStartBlock
    BY <1>3 DEF EthStart, ResumeBlock
  <2>2. lastIndexedBlock["ethereum"] <= ethStart'
    BY <1>2, <2>1, RecordTyped, EthereumIndexerAssumption
  <2>3. UNCHANGED lastIndexedBlock
    BY <1>3 DEF EthStart, storeVars
  <2>4. MovesForward
    BY <1>2, <2>3, RecordTyped DEF MovesForward
  <2> QED  BY <1>1, <2>2, <2>3, <2>4 DEF MonotoneInv, StartsBehindRecord
<1>4. CASE EthAdvance
  <2>1. /\ lastIndexedBlock' = [lastIndexedBlock EXCEPT !["ethereum"] = ethEnd]
        /\ ethStart' = ethEnd + 1 /\ ethPc = "cursor"
    BY <1>4 DEF EthAdvance, UpdateLastIndexedBlock
  <2>2. lastIndexedBlock["ethereum"] <= ethStart /\ ethStart <= ethEnd
    BY <2>1
    DEF MonotoneInv, CompleteInv, L1Invariant, StartsBehindRecord, EthBatchPcs
  <2>3. /\ lastIndexedBlock'["ethereum"] = ethEnd
        /\ lastIndexedBlock'["lightlink"] = lastIndexedBlock["lightlink"]
    BY <1>2, <2>1, RecordTyped DEF IndexedChains
  <2>4. MovesForward
    BY <1>2, <2>2, <2>3, RecordTyped DEF MovesForward, IndexedChains
  <2>5. lastIndexedBlock'["ethereum"] <= ethStart'
    BY <1>2, <2>1, <2>3, RecordTyped
  <2> QED  BY <1>1, <2>3, <2>4, <2>5 DEF MonotoneInv, StartsBehindRecord
<1>5. CASE ~EthStart(lastIndexedBlock["ethereum"]) /\ ~EthAdvance
  <2>1. /\ UNCHANGED << ethStart, lastIndexedBlock >>
        /\ ethPc \in {"select"} \cup EthBatchPcs
    BY <1>5
    DEF EthereumLoop, EthStep, EthSelectBatch, IndexL1Deposits,
        ProvenSetStatus, ProvenReadPortal, ProvenCreateRecord,
        FinalizedSetStatus, FinalizedCreateRecord, OutputProposed, ProvenDone,
        FinalizedDone, OutputsDone, storeVars, EthBatchPcs
  <2> QED  BY <1>1, <2>1, RecordAlone
<1> QED  BY <1>3, <1>4, <1>5

\* The same for the second loop.
LEMMA LightLinkRecord ==
  ASSUME MonotoneInv, LightLinkLoop
  PROVE  StartsBehindRecord' /\ MovesForward
<1>1. UNCHANGED << ethPc, ethStart >>
  BY DEF LightLinkLoop, ethVars
<1>2. TypeInv
  BY DEF MonotoneInv, CompleteInv
<1>3. CASE LlStart(lastIndexedBlock["lightlink"])
  <2>1. llStart' = IF lastIndexedBlock["lightlink"] > 0
                     THEN lastIndexedBlock["lightlink"] + 1
                     ELSE L2DefaultStartBlock
    BY <1>3 DEF LlStart, ResumeBlock
  <2>2. lastIndexedBlock["lightlink"] <= llStart'
    BY <1>2, <2>1, RecordTyped, LightLinkIndexerAssumption
  <2>3. UNCHANGED lastIndexedBlock
    BY <1>3 DEF LlStart, storeVars
  <2>4. MovesForward
    BY <1>2, <2>3, RecordTyped DEF MovesForward
  <2> QED  BY <1>1, <2>2, <2>3, <2>4 DEF MonotoneInv, StartsBehindRecord
<1>4. CASE LlAdvance
  <2>1. /\ lastIndexedBlock' = [lastIndexedBlock EXCEPT !["lightlink"] = llEnd]
        /\ llStart' = llEnd + 1 /\ llPc = "cursor"
    BY <1>4 DEF LlAdvance, UpdateLastIndexedBlock
  <2>2. lastIndexedBlock["lightlink"] <= llStart /\ llStart <= llEnd
    BY <2>1
    DEF MonotoneInv, CompleteInv, L2Invariant, StartsBehindRecord, LlBatchPcs
  <2>3. /\ lastIndexedBlock'["lightlink"] = llEnd
        /\ lastIndexedBlock'["ethereum"] = lastIndexedBlock["ethereum"]
    BY <1>2, <2>1, RecordTyped DEF IndexedChains
  <2>4. MovesForward
    BY <1>2, <2>2, <2>3, RecordTyped DEF MovesForward, IndexedChains
  <2>5. lastIndexedBlock'["lightlink"] <= llStart'
    BY <1>2, <2>1, <2>3, RecordTyped
  <2> QED  BY <1>1, <2>3, <2>4, <2>5 DEF MonotoneInv, StartsBehindRecord
<1>5. CASE ~LlStart(lastIndexedBlock["lightlink"]) /\ ~LlAdvance
  <2>1. /\ UNCHANGED << llStart, lastIndexedBlock >>
        /\ llPc \in {"select"} \cup LlBatchPcs
    BY <1>5
    DEF LightLinkLoop, LlStep, LlSelectBatch, IndexL2Withdrawals,
        RelayedMessage, RelayedDone, storeVars, LlBatchPcs
  <2> QED  BY <1>1, <2>1, RecordAlone
<1> QED  BY <1>3, <1>4, <1>5

\* Every step keeps the loops behind their records.
LEMMA NextMonotone ==
  ASSUME ~ReadFaults, MonotoneInv, [Next]_vars
  PROVE  MonotoneInv' /\ MovesForward
<1> DEFINE Goal == StartsBehindRecord' /\ MovesForward
<1>1. CompleteInv'
  BY NextComplete DEF MonotoneInv
<1>2. ASSUME UNCHANGED vars \/ Environment  PROVE Goal
  BY <1>2, RecordAlone DEF vars, Environment, storeVars, ethVars, llVars
<1>3. ASSUME EthereumLoop \/ LightLinkLoop  PROVE Goal
  BY <1>3, EthereumRecord, LightLinkRecord
<1>4. ASSUME Checkers(CheckerStep)  PROVE Goal
  <2>1. UNCHANGED lastIndexedBlock
    BY <1>4
    DEF Checkers, CheckerStep, ProvenCheckerStep, ProvenCheckerList,
        ProvenCheckerFind, ProvenCheckerUpdate, FinalizedCheckerStep,
        FinalizedCheckerList, FinalizedCheckerFind, FinalizedCheckerUpdate,
        ReadyCheckerStep, ReadyCheckerList, ReadyCheckerLookup, ReadyCheckerUpdate, storeVars
  <2> QED  BY <1>4, <2>1, RecordAlone DEF Checkers, ethVars, llVars
<1>5. ASSUME \/ LoopFault \/ Exit \/ Stop \/ Restart
             \/ \E c \in CheckerNames : CheckerFault(c)
      PROVE  Goal
  <2>1. UNCHANGED lastIndexedBlock
    BY <1>5
    DEF LoopFault, EthFail, LlFail, IndexL1DepositsFails, OutputProposedFails,
        IndexL2WithdrawalsFails, CheckerFault, CheckerFail, Exit, Stop,
        EndProcess, Restart, storeVars
  <2>2. UNCHANGED << ethPc, ethStart >> \/ ethPc' \in {"down", "failed", "start"}
    BY <1>5
    DEF LoopFault, EthFail, IndexL1DepositsFails, OutputProposedFails, CheckerFault, Exit, Stop,
        EndProcess, Restart, ethVars
  <2>3. UNCHANGED << llPc, llStart >> \/ llPc' \in {"down", "failed", "start"}
    BY <1>5
    DEF LoopFault, LlFail, IndexL2WithdrawalsFails, CheckerFault, Exit, Stop,
        EndProcess, Restart, llVars
  <2> QED  BY <2>1, <2>2, <2>3, RecordAlone
<1>6. ~ReadFault
  BY DEF ReadFault
<1>7. Goal
  BY <1>2, <1>3, <1>4, <1>5, <1>6, WaitingChangesNothing DEF Next
<1> QED  BY <1>1, <1>7 DEF MonotoneInv

\* The record of the last indexed block never moves back, however often the
\* process ends in the middle of a batch, as long as the record can be read
\* when a process starts.
THEOREM LastIndexedBlockMovesForward ==
  ASSUME ~ReadFaults  PROVE Spec => LastIndexedBlockMonotone
<1>1. Init => MonotoneInv
  BY InitComplete
  DEF Init, EthInit, LlInit, MonotoneInv, StartsBehindRecord, EthBatchPcs,
      LlBatchPcs
<1>2. MonotoneInv /\ [Next]_vars => MonotoneInv'
  BY NextMonotone
<1>3. MonotoneInv /\ [Next]_vars =>
        [\A c \in IndexedChains :
           lastIndexedBlock'[c] >= lastIndexedBlock[c]]_vars
  BY NextMonotone DEF MovesForward
<1> QED  BY <1>1, <1>2, <1>3, PTL DEF Spec, LastIndexedBlockMonotone
=============================================================================
