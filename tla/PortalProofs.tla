----------------------------- MODULE PortalProofs -----------------------------
(***************************************************************************)
(* What the database holds against the present state of the contracts: the *)
(* times of the proven records, which the code reads from the portal's     *)
(* current state while it goes through older logs.                         *)
(***************************************************************************)
EXTENDS CompletenessProofs

-----------------------------------------------------------------------------
(***************************************************************************)
(* The inductive invariant.  A record is stale when its withdrawal was     *)
(* proven again after the portal was asked.  That proof is in a block      *)
(* which was not mined yet, so it is after the end of the batch of then,   *)
(* and the loop has not gone past it since: it is not before the current   *)
(* batch, and within it, it is among the logs still to be done.            *)
(***************************************************************************)
Stale(r) == r.time # provenWithdrawals[r.withdrawal]

ProofFrom(w, block) ==
  \E l \in provenLogs : l.withdrawal = w /\ l.block >= block

StartBounds ==
  /\ \/ lastIndexedBlock["ethereum"] = 0
     \/ L1DefaultStartBlock <= lastIndexedBlock["ethereum"]
  /\ ethPc \in {"select"} \cup EthBatchPcs => L1DefaultStartBlock <= ethStart
  /\ transactionsProven # {} => L1DefaultStartBlock <= l1Head

\* A proof that makes record r stale is still to be reached.
StaleAhead(r) ==
  /\ ProofFrom(r.withdrawal, lastIndexedBlock["ethereum"] + 1)
  /\ ProofFrom(r.withdrawal, L1DefaultStartBlock)
  /\ ethPc \in {"select", "deposits"} => ProofFrom(r.withdrawal, ethStart)
  /\ ethPc \in {"proven", "portal", "record"} =>
       \/ ProofFrom(r.withdrawal, ethEnd + 1)
       \/ \E l \in ethTodo : l.withdrawal = r.withdrawal
  /\ ethPc \in {"finalized", "finalizedRecord", "outputs", "cursor"} =>
       ProofFrom(r.withdrawal, ethEnd + 1)

\* The time that was read for the record to be written next.
ReadAhead ==
  ethPc = "record" =>
    \A l \in ethTodo :
      IsNextLog(l, ethTodo) =>
        \/ ethProof = provenWithdrawals[l.withdrawal]
        \/ /\ ProofFrom(l.withdrawal, ethEnd + 1)
           /\ ProofFrom(l.withdrawal, lastIndexedBlock["ethereum"] + 1)

RecordsAhead == \A r \in transactionsProven : Stale(r) => StaleAhead(r)

PortalInv == CompleteInv /\ StartBounds /\ RecordsAhead /\ ReadAhead

-----------------------------------------------------------------------------
\* The types and bounds that the steps below need.
LEMMA PortalFacts ==
  ASSUME CompleteInv
  PROVE  /\ l1Head \in Nat /\ ethStart \in Nat /\ ethEnd \in Nat
         /\ lastIndexedBlock["ethereum"] \in Nat
         /\ lastIndexedBlock["ethereum"] <= l1Head
         /\ ethPc \in {"select"} \cup EthBatchPcs =>
              ethStart = L1DefaultStartBlock \/ ethStart <= l1Head + 1
         /\ ethPc \in EthBatchPcs => ethStart <= ethEnd /\ ethEnd <= l1Head
         /\ \A l \in provenLogs :
              /\ l.block \in Nat /\ l.block <= l1Head
              /\ l.withdrawal \in Withdrawals
         /\ \A r \in transactionsProven : r.withdrawal \in Withdrawals
         /\ ethPc \in {"proven", "portal", "record"} => ethTodo \subseteq provenLogs
         /\ L1DefaultStartBlock \in Nat
BY EthereumIndexerAssumption
DEF CompleteInv, TypeInv, TypeOK, ChainTypeOK, EthTypeOK, StoreTypeOK,
    IndexedChains, L1Invariant, EthTodoOK

\* The places of the loop in a batch.
LEMMA BatchStages ==
  {"deposits", "proven", "portal", "record", "finalized", "finalizedRecord",
   "outputs", "cursor"} = EthBatchPcs
BY DEF EthBatchPcs

\* The portal's time of a withdrawal changes only with a proof in a new block.
LEMMA PortalStep ==
  ASSUME ChainTypeOK, ChainNext, NEW w \in Withdrawals
  PROVE  \/ provenWithdrawals'[w] = provenWithdrawals[w]
         \/ \E l \in provenLogs' : l.withdrawal = w /\ l.block = l1Head + 1
<1>1. ASSUME NEW v \in Withdrawals, ProveWithdrawal(v)
      PROVE  \/ provenWithdrawals'[w] = provenWithdrawals[w]
             \/ \E l \in provenLogs' : l.withdrawal = w /\ l.block = l1Head + 1
  <2> DEFINE log == [withdrawal |-> v, block |-> l1Head + 1, time |-> clock]
  <2>1. log \in provenLogs' /\ log.withdrawal = v /\ log.block = l1Head + 1
    BY <1>1 DEF ProveWithdrawal
  <2>2. provenWithdrawals' = [provenWithdrawals EXCEPT ![v] = clock]
    BY <1>1 DEF ProveWithdrawal
  <2>3. w # v => provenWithdrawals'[w] = provenWithdrawals[w]
    BY <2>2 DEF ChainTypeOK
  <2> HIDE DEF log
  <2> QED  BY <2>1, <2>3
<1> QED
  BY <1>1
  DEF ChainNext, EmptyL1Block, EmptyL2Block, InitiateWithdrawal,
      FinalizeWithdrawal, MakeDeposit, RelayDeposit, ProposeOutput, Rollback,
      Tick, MineL1, MineL2

\* A proof that is in a new block is ahead of everything the loop has done.
LEMMA EnvironmentAhead ==
  ASSUME PortalInv, Environment
  PROVE  StartBounds' /\ RecordsAhead' /\ ReadAhead'
<1>1. ChainTypeOK /\ ChainNext /\ ChainGrows /\ ChainTypeOK'
  BY ChainStep DEF Environment, PortalInv, CompleteInv, TypeInv, TypeOK
<1>2. /\ UNCHANGED << ethPc, ethStart, ethEnd, ethTodo, ethProof >>
      /\ UNCHANGED << transactionsProven, lastIndexedBlock >>
  BY DEF Environment, ethVars, storeVars
<1>3. l1Head <= l1Head' /\ l1Head' \in Nat /\ provenLogs \subseteq provenLogs'
  BY <1>1 DEF ChainGrows, NewAbove, ChainTypeOK
<1>4. \A w, b : ProofFrom(w, b) => ProofFrom(w, b)'
  BY <1>3 DEF ProofFrom
<1>5. ASSUME NEW w \in Withdrawals, provenWithdrawals'[w] # provenWithdrawals[w],
             NEW b \in Nat, b <= l1Head + 1
      PROVE  ProofFrom(w, b)'
  BY <1>1, <1>5, PortalStep DEF ProofFrom
<1>6. StartBounds'
  BY <1>2, <1>3, PortalFacts DEF PortalInv, StartBounds
<1>7. RecordsAhead'
  <2> SUFFICES ASSUME NEW r \in transactionsProven, Stale(r)'
               PROVE  StaleAhead(r)'
    BY <1>2 DEF RecordsAhead
  <2>1. CASE Stale(r)
    BY <1>2, <1>4, <2>1 DEF PortalInv, RecordsAhead, StaleAhead
  <2>2. CASE ~Stale(r)
    <3>1. /\ r.withdrawal \in Withdrawals
          /\ provenWithdrawals'[r.withdrawal] # provenWithdrawals[r.withdrawal]
      BY <2>2, PortalFacts DEF PortalInv, Stale
    <3>2. L1DefaultStartBlock <= l1Head
      BY DEF PortalInv, StartBounds
    <3>3. ProofFrom(r.withdrawal, lastIndexedBlock["ethereum"] + 1)'
      <4>1. lastIndexedBlock["ethereum"] + 1 \in Nat /\ lastIndexedBlock["ethereum"] + 1 <= l1Head + 1
        BY PortalFacts DEF PortalInv
      <4>2. ProofFrom(r.withdrawal, lastIndexedBlock["ethereum"] + 1)'
        BY <1>2, <1>5, <3>1, <4>1
      <4> QED  BY <4>2
    <3>4. ProofFrom(r.withdrawal, L1DefaultStartBlock)'
      BY <1>5, <3>1, <3>2, PortalFacts DEF PortalInv
    <3>5. ethPc \in {"select", "deposits"} => ProofFrom(r.withdrawal, ethStart)'
      <4>1. ethPc \in {"select", "deposits"} => ethStart <= l1Head + 1
        BY <3>2, PortalFacts, BatchStages DEF PortalInv
      <4> QED  BY <1>2, <1>5, <3>1, <4>1, PortalFacts DEF PortalInv
    <3>6. ethPc \in EthBatchPcs => ProofFrom(r.withdrawal, ethEnd + 1)'
      <4>1. ethEnd + 1 \in Nat /\ (ethPc \in EthBatchPcs => ethEnd + 1 <= l1Head + 1)
        BY PortalFacts DEF PortalInv
      <4> QED  BY <1>2, <1>5, <3>1, <4>1
    <3> QED  BY <1>2, <3>3, <3>4, <3>5, <3>6, BatchStages DEF StaleAhead
  <2> QED  BY <2>1, <2>2
<1>8. ReadAhead'
  <2> SUFFICES ASSUME ethPc = "record", NEW l \in ethTodo, IsNextLog(l, ethTodo)
               PROVE  (\/ ethProof = provenWithdrawals[l.withdrawal]
                       \/ /\ ProofFrom(l.withdrawal, ethEnd + 1)
                          /\ ProofFrom(l.withdrawal, lastIndexedBlock["ethereum"] + 1))'
    BY <1>2 DEF ReadAhead, IsNextLog
  <2>1. /\ l.withdrawal \in Withdrawals
        /\ ethEnd + 1 \in Nat /\ ethEnd + 1 <= l1Head + 1
        /\ lastIndexedBlock["ethereum"] + 1 \in Nat
        /\ lastIndexedBlock["ethereum"] + 1 <= l1Head + 1
    BY PortalFacts, BatchStages DEF PortalInv
  <2>2. CASE provenWithdrawals'[l.withdrawal] = provenWithdrawals[l.withdrawal]
    BY <1>2, <1>4, <2>2 DEF PortalInv, ReadAhead
  <2>3. CASE provenWithdrawals'[l.withdrawal] # provenWithdrawals[l.withdrawal]
    BY <1>2, <1>5, <2>1, <2>3
  <2> QED  BY <2>2, <2>3
<1> QED  BY <1>6, <1>7, <1>8

\* A step of another goroutine changes nothing that the invariant speaks of.
LEMMA AheadFrame ==
  ASSUME PortalInv, UNCHANGED << chainVars, ethVars, transactionsProven >>,
         lastIndexedBlock'["ethereum"] = lastIndexedBlock["ethereum"]
  PROVE  StartBounds' /\ RecordsAhead' /\ ReadAhead'
<1>1. /\ UNCHANGED << ethPc, ethStart, ethEnd, ethTodo, ethProof >>
      /\ UNCHANGED << transactionsProven, provenLogs, provenWithdrawals, l1Head >>
  BY DEF ethVars, chainVars
<1>2. StartBounds'
  BY <1>1 DEF PortalInv, StartBounds
<1>3. \A w, b : ProofFrom(w, b)' = ProofFrom(w, b)
  BY <1>1 DEF ProofFrom
<1>4. RecordsAhead'
  BY <1>1, <1>3 DEF PortalInv, RecordsAhead, Stale, StaleAhead, ProofFrom
<1>5. ReadAhead'
  BY <1>1, <1>3 DEF PortalInv, ReadAhead, IsNextLog, ProofFrom
<1> QED  BY <1>2, <1>4, <1>5

\* The loop ends, or the process, or it starts.
LEMMA AheadDown ==
  ASSUME PortalInv,
         UNCHANGED << chainVars, transactionsProven, lastIndexedBlock >>,
         ethPc' \in {"down", "failed", "start"}
  PROVE  StartBounds' /\ RecordsAhead' /\ ReadAhead'
<1>1. UNCHANGED << transactionsProven, provenLogs, provenWithdrawals, l1Head, lastIndexedBlock >>
  BY DEF chainVars
<1>2. StartBounds' /\ ReadAhead'
  BY <1>1, BatchStages DEF PortalInv, StartBounds, ReadAhead, EthBatchPcs
<1>3. RecordsAhead'
  BY <1>1 DEF PortalInv, RecordsAhead, Stale, StaleAhead, ProofFrom
<1> QED  BY <1>2, <1>3

\* The loop starts at the default block or after the last indexed one.
LEMMA AheadStart ==
  ASSUME PortalInv, UNCHANGED chainVars,
         NEW n \in {0, lastIndexedBlock["ethereum"]}, EthStart(n)
  PROVE  StartBounds' /\ RecordsAhead' /\ ReadAhead'
<1>1. /\ UNCHANGED << transactionsProven, provenLogs, provenWithdrawals, l1Head, lastIndexedBlock >>
      /\ ethPc' = "select"
  BY DEF chainVars, EthStart, storeVars
<1>2. \/ ethStart' = L1DefaultStartBlock
      \/ /\ ethStart' = lastIndexedBlock["ethereum"] + 1
         /\ lastIndexedBlock["ethereum"] > 0
  BY PortalFacts DEF EthStart, ResumeBlock, PortalInv
<1>3. StartBounds' /\ ReadAhead'
  BY <1>1, <1>2, PortalFacts DEF PortalInv, StartBounds, ReadAhead
<1>4. RecordsAhead'
  BY <1>1, <1>2 DEF PortalInv, RecordsAhead, Stale, StaleAhead, ProofFrom
<1> QED  BY <1>3, <1>4
\* A step of the Ethereum loop.  The record it writes holds the time it read;
\* were the withdrawal proven since, the proof is after the batch.
LEMMA EthereumLoopAhead ==
  ASSUME PortalInv, EthereumLoop
  PROVE  StartBounds' /\ RecordsAhead' /\ ReadAhead'
<1> DEFINE Goal == StartBounds' /\ RecordsAhead' /\ ReadAhead'
<1>1. UNCHANGED << provenLogs, provenWithdrawals, l1Head, chainVars >>
  BY DEF EthereumLoop, chainVars
<1>2. \A w, b : ProofFrom(w, b)' = ProofFrom(w, b)
  BY <1>1 DEF ProofFrom
<1>3. StartBounds /\ RecordsAhead /\ ReadAhead
  BY DEF PortalInv
<1>4. ASSUME EthStart(lastIndexedBlock["ethereum"])  PROVE Goal
  BY <1>1, <1>4, AheadStart
<1>5. ASSUME EthSelectBatch  PROVE Goal
  BY <1>1, <1>3, <1>5
  DEF EthSelectBatch, StartBounds, RecordsAhead, ReadAhead, Stale, StaleAhead,
      ProofFrom, storeVars, EthBatchPcs
<1>6. ASSUME IndexL1Deposits  PROVE Goal
  <2>1. /\ UNCHANGED << transactionsProven, lastIndexedBlock, ethStart, ethEnd >>
        /\ ethPc = "deposits" /\ ethPc' = "proven"
        /\ ethTodo' = Filter(provenLogs, ethStart, ethEnd)
    BY <1>6 DEF IndexL1Deposits
  <2>2. StartBounds' /\ ReadAhead'
    BY <1>1, <1>3, <2>1 DEF StartBounds, ReadAhead, EthBatchPcs
  <2>3. ASSUME NEW r \in transactionsProven, Stale(r)
        PROVE  \/ ProofFrom(r.withdrawal, ethEnd + 1)
               \/ \E l \in ethTodo' : l.withdrawal = r.withdrawal
    <3>1. PICK l \in provenLogs : l.withdrawal = r.withdrawal /\ l.block >= ethStart
      BY <1>3, <2>1, <2>3 DEF RecordsAhead, StaleAhead, ProofFrom
    <3>2. l.block \in Nat /\ ethStart \in Nat /\ ethEnd \in Nat
      BY PortalFacts DEF PortalInv
    <3>3. CASE l.block <= ethEnd
      BY <2>1, <3>1, <3>2, <3>3 DEF Filter
    <3>4. CASE l.block >= ethEnd + 1
      BY <3>1, <3>4 DEF ProofFrom
    <3> QED  BY <3>2, <3>3, <3>4
  <2>4. RecordsAhead'
    BY <1>1, <1>2, <1>3, <2>1, <2>3 DEF RecordsAhead, Stale, StaleAhead
  <2> QED  BY <2>2, <2>4
<1>7. ASSUME NEW log \in ethTodo, ProvenSetStatus(log)  PROVE Goal
  BY <1>1, <1>3, <1>7
  DEF ProvenSetStatus, StartBounds, RecordsAhead, ReadAhead, Stale, StaleAhead,
      ProofFrom, EthBatchPcs
<1>8. ASSUME NEW log \in ethTodo, ProvenReadPortal(log)  PROVE Goal
  <2>1. StartBounds' /\ RecordsAhead'
    BY <1>1, <1>3, <1>8
    DEF ProvenReadPortal, StartBounds, RecordsAhead, Stale, StaleAhead,
        ProofFrom, EthBatchPcs, storeVars
  <2>2. ReadAhead'
    <3> SUFFICES ASSUME NEW l \in ethTodo', IsNextLog(l, ethTodo')
                 PROVE  ethProof' = provenWithdrawals'[l.withdrawal]
      BY DEF ReadAhead
    <3>1. l = log
      BY <1>8, NextLogUnique, PortalFacts
      DEF ProvenReadPortal, PortalInv, CompleteInv, TypeInv, TypeOK
    <3> QED  BY <1>1, <1>8, <3>1 DEF ProvenReadPortal
  <2> QED  BY <2>1, <2>2
<1>9. ASSUME NEW log \in ethTodo, ProvenCreateRecord(log)  PROVE Goal
  <2> DEFINE w == log.withdrawal
             new == [withdrawal |-> w, time |-> ethProof]
  <2>1. /\ transactionsProven' = {r \in transactionsProven : r.withdrawal # w} \cup {new}
        /\ ethPc = "record" /\ ethPc' = "proven" /\ ethTodo' = ethTodo \ {log}
        /\ UNCHANGED << ethStart, ethEnd, lastIndexedBlock >>
        /\ IsNextLog(log, ethTodo)
    BY <1>9 DEF ProvenCreateRecord, CreateTransactionProven
  <2>2. new.withdrawal = w /\ new.time = ethProof
    OBVIOUS
  <2>3. \/ ethProof = provenWithdrawals[w]
        \/ /\ ProofFrom(w, ethEnd + 1)
           /\ ProofFrom(w, lastIndexedBlock["ethereum"] + 1)
    BY <1>3, <2>1 DEF ReadAhead
  <2>4. /\ l1Head \in Nat /\ ethStart \in Nat /\ ethEnd \in Nat
        /\ ethStart <= ethEnd /\ ethEnd <= l1Head
        /\ L1DefaultStartBlock \in Nat
        /\ \A l \in provenLogs : l.block \in Nat
        /\ lastIndexedBlock["ethereum"] \in Nat
    BY <2>1, PortalFacts, BatchStages DEF PortalInv
  <2>5. L1DefaultStartBlock <= ethStart
    BY <1>3, <2>1, BatchStages DEF StartBounds
  <2>6. StartBounds'
    BY <1>1, <1>3, <2>1, <2>4, <2>5, BatchStages DEF StartBounds
  <2>7. ASSUME NEW r, r.withdrawal = w, ProofFrom(w, ethEnd + 1),
               ProofFrom(w, lastIndexedBlock["ethereum"] + 1)
        PROVE  StaleAhead(r)'
    <3>1. PICK l \in provenLogs : l.withdrawal = w /\ l.block >= ethEnd + 1
      BY <2>7 DEF ProofFrom
    <3>2. ProofFrom(w, L1DefaultStartBlock)
      BY <2>4, <2>5, <3>1 DEF ProofFrom
    <3> QED  BY <1>1, <1>2, <2>1, <2>7, <3>2 DEF StaleAhead
  <2>8. ASSUME NEW r \in transactionsProven, r.withdrawal # w, Stale(r)
        PROVE  StaleAhead(r)'
    <3>1. StaleAhead(r)
      BY <1>3, <2>8 DEF RecordsAhead
    <3> QED  BY <1>1, <1>2, <2>1, <2>8, <3>1 DEF StaleAhead
  <2>9. RecordsAhead'
    <3> SUFFICES ASSUME NEW r \in transactionsProven', Stale(r)'
                 PROVE  StaleAhead(r)'
      BY DEF RecordsAhead
    <3>1. Stale(r)
      BY <1>1 DEF Stale
    <3>2. CASE r = new
      <4>1. ethProof # provenWithdrawals[w]
        BY <2>2, <3>1, <3>2 DEF Stale
      <4>2. r.withdrawal = w
        BY <2>2, <3>2
      <4>3. /\ ProofFrom(w, ethEnd + 1)
            /\ ProofFrom(w, lastIndexedBlock["ethereum"] + 1)
        BY <2>3, <4>1
      <4> QED  BY <2>7, <4>2, <4>3
    <3>3. CASE r # new
      BY <2>1, <2>8, <3>1, <3>3
    <3> QED  BY <3>2, <3>3
  <2>10. ReadAhead'
    BY <2>1 DEF ReadAhead
  <2> QED  BY <2>6, <2>9, <2>10
<1>10. ASSUME ProvenDone  PROVE Goal
  BY <1>1, <1>3, <1>10
  DEF ProvenDone, StartBounds, RecordsAhead, ReadAhead, Stale, StaleAhead,
      ProofFrom, EthBatchPcs, storeVars
<1>11. ASSUME NEW log \in ethTodo,
              FinalizedSetStatus(log) \/ FinalizedCreateRecord(log) \/ OutputProposed(log)
       PROVE  Goal
  BY <1>1, <1>3, <1>11
  DEF FinalizedSetStatus, FinalizedCreateRecord, OutputProposed, StartBounds,
      RecordsAhead, ReadAhead, Stale, StaleAhead, ProofFrom, EthBatchPcs
<1>12. ASSUME FinalizedDone \/ OutputsDone  PROVE Goal
  BY <1>1, <1>3, <1>12
  DEF FinalizedDone, OutputsDone, StartBounds, RecordsAhead, ReadAhead, Stale,
      StaleAhead, ProofFrom, EthBatchPcs, storeVars
<1>13. ASSUME EthAdvance  PROVE Goal
  <2>1. /\ ethPc = "cursor" /\ ethPc' = "select"
        /\ ethStart' = ethEnd + 1
        /\ UNCHANGED << transactionsProven, ethEnd >>
        /\ lastIndexedBlock' = [lastIndexedBlock EXCEPT !["ethereum"] = ethEnd]
    BY <1>13 DEF EthAdvance, UpdateLastIndexedBlock
  <2>2. lastIndexedBlock'["ethereum"] = ethEnd
    BY <2>1
    DEF PortalInv, CompleteInv, TypeInv, TypeOK, StoreTypeOK, IndexedChains
  <2>3. /\ ethStart \in Nat /\ ethEnd \in Nat /\ ethStart <= ethEnd
        /\ L1DefaultStartBlock \in Nat /\ L1DefaultStartBlock <= ethStart
        /\ \A l \in provenLogs : l.block \in Nat
    BY <1>3, <2>1, PortalFacts, BatchStages DEF PortalInv, StartBounds
  <2>4. StartBounds' /\ ReadAhead'
    BY <1>1, <1>3, <2>1, <2>2, <2>3 DEF StartBounds, ReadAhead
  <2>5. ASSUME NEW r \in transactionsProven, Stale(r)
        PROVE  /\ ProofFrom(r.withdrawal, ethEnd + 1)
               /\ ProofFrom(r.withdrawal, L1DefaultStartBlock)
    <3>1. ProofFrom(r.withdrawal, ethEnd + 1)
      BY <1>3, <2>1, <2>5 DEF RecordsAhead, StaleAhead
    <3> QED  BY <2>3, <3>1 DEF ProofFrom
  <2>6. RecordsAhead'
    BY <1>1, <1>2, <2>1, <2>2, <2>5 DEF RecordsAhead, Stale, StaleAhead
  <2> QED  BY <2>4, <2>6
<1> QED
  BY <1>4, <1>5, <1>6, <1>7, <1>8, <1>9, <1>10, <1>11, <1>12, <1>13
  DEF EthereumLoop, EthStep

\* Every step keeps the invariant.
LEMMA NextPortalInv ==
  ASSUME PortalInv, [Next]_vars
  PROVE  PortalInv'
<1> DEFINE Goal == StartBounds' /\ RecordsAhead' /\ ReadAhead'
<1>1. CompleteInv'
  BY NextComplete DEF PortalInv
<1>2. CASE UNCHANGED vars
  BY <1>1, <1>2, AheadFrame DEF vars, storeVars, PortalInv
<1>3. CASE Environment \/ EthereumLoop
  BY <1>1, <1>3, EnvironmentAhead, EthereumLoopAhead DEF PortalInv
<1>4. ASSUME LightLinkLoop \/ Checkers(CheckerStep)
             \/ \E c \in CheckerNames : CheckerFault(c)
      PROVE  PortalInv'
  <2>1. UNCHANGED << chainVars, ethVars >>
    BY <1>4 DEF LightLinkLoop, Checkers, CheckerFault
  <2>2. /\ UNCHANGED transactionsProven
        /\ lastIndexedBlock'["ethereum"] = lastIndexedBlock["ethereum"]
    <3>1. CASE LightLinkLoop
      BY <3>1
      DEF PortalInv, CompleteInv, TypeInv, TypeOK, StoreTypeOK, IndexedChains,
          LightLinkLoop, LlStep, LlStart, LlSelectBatch, IndexL2Withdrawals,
          RelayedMessage, RelayedDone, LlAdvance, UpdateLastIndexedBlock,
          storeVars
    <3>2. CASE Checkers(CheckerStep)
      BY <3>2
      DEF Checkers, CheckerStep, ProvenCheckerStep, ProvenCheckerList,
          ProvenCheckerFind, ProvenCheckerUpdate, FinalizedCheckerStep,
          FinalizedCheckerList, FinalizedCheckerFind, FinalizedCheckerUpdate,
          ReadyCheckerStep, ReadyCheckerList, ReadyCheckerLookup, ReadyCheckerUpdate, storeVars
    <3>3. CASE \E c \in CheckerNames : CheckerFault(c)
      BY <3>3 DEF CheckerFault, CheckerFail, storeVars
    <3> QED  BY <1>4, <3>1, <3>2, <3>3
  <2> QED  BY <1>1, <2>1, <2>2, AheadFrame DEF PortalInv
<1>5. ASSUME LoopFault \/ ReadFault \/ Exit \/ Stop \/ Restart
      PROVE  PortalInv'
  <2>1. UNCHANGED << chainVars, transactionsProven, lastIndexedBlock >>
    BY <1>5
    DEF LoopFault, EthFail, LlFail, IndexL1DepositsFails, OutputProposedFails,
        IndexL2WithdrawalsFails, ReadFault, EthStart, LlStart, Exit, Stop,
        EndProcess, Restart, storeVars
  <2>2. \/ UNCHANGED ethVars \/ EthStart(0)
        \/ ethPc' \in {"down", "failed", "start"}
    BY <1>5
    DEF LoopFault, EthFail, IndexL1DepositsFails, OutputProposedFails, ReadFault, Exit, Stop,
        EndProcess, Restart
  <2> QED  BY <1>1, <2>1, <2>2, AheadFrame, AheadStart, AheadDown DEF PortalInv
<1> QED
  BY <1>1, <1>2, <1>3, <1>4, <1>5, WaitingChangesNothing DEF Next

\* The time of each proven record is the portal's, unless a later proof of the
\* withdrawal is in a block that is still to be indexed: the code reads the
\* present time while it goes through old logs, and may go through them again
\* (indexer_ethereum.go:223-239).
THEOREM ProofTimesAreCurrent == Spec => []ProofTimeCurrent
<1>1. Init => PortalInv
  BY InitComplete
  DEF Init, StoreInit, EthInit, PortalInv, StartBounds, RecordsAhead,
      ReadAhead, IndexedChains, EthBatchPcs
<1>2. PortalInv /\ [Next]_vars => PortalInv'
  BY NextPortalInv
<1>3. PortalInv => ProofTimeCurrent
  BY PortalFacts
  DEF PortalInv, RecordsAhead, Stale, StaleAhead, ProofFrom, ProofTimeCurrent
<1> QED  BY <1>1, <1>2, <1>3, PTL DEF Spec
=============================================================================
