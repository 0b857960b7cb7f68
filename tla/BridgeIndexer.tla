---------------------------- MODULE BridgeIndexer ----------------------------
(***************************************************************************)
(* The indexer process beside the two chains: both indexing loops, the     *)
(* three status checkers, the database they share, and what stops and      *)
(* restarts the process.  When one loop returns, Run returns and main      *)
(* ends the process, so every other goroutine ends wherever it is; what    *)
(* the database holds is all that the next process starts from.            *)
(***************************************************************************)
EXTENDS EthereumIndexer, LightLinkIndexer, StatusCheckers

CONSTANTS
  MaxFaults,      \* bound on the errors, crashes and shutdowns of a behaviour
  ReadFaults,     \* may reading the last indexed block fail?
  CheckerFaults   \* may a status checker meet a database error?

ASSUME BridgeIndexerAssumption ==
  /\ MaxFaults \in Nat
  /\ ReadFaults \in BOOLEAN
  /\ CheckerFaults \in BOOLEAN

VARIABLE faults   \* how many errors, crashes and shutdowns there have been

vars == << chainVars, storeVars, ethVars, llVars, checkerVars, faults >>

TypeOK ==
  /\ ChainTypeOK
  /\ StoreTypeOK
  /\ EthTypeOK
  /\ LlTypeOK
  /\ CheckersTypeOK
  /\ faults \in 0 .. MaxFaults

Init ==
  /\ ChainInit
  /\ StoreInit
  /\ EthInit
  /\ LlInit
  /\ CheckersInit
  /\ faults = 0

-----------------------------------------------------------------------------
Environment ==
  /\ ChainNext
  /\ UNCHANGED << storeVars, ethVars, llVars, checkerVars, faults >>

EthereumLoop ==
  /\ EthStep
  /\ UNCHANGED << chainVars, llVars, checkerVars, faults >>

LightLinkLoop ==
  /\ LlStep
  /\ UNCHANGED << chainVars, ethVars, checkerVars, faults >>

Waiting ==
  /\ \/ EthWait /\ UNCHANGED llVars
     \/ LlWait /\ UNCHANGED ethVars
  /\ UNCHANGED << chainVars, checkerVars, faults >>

\* The checkers run from the first statements of indexEthereum on until the
\* process ends, also after indexEthereum has returned.
CheckersLaunched == ethPc \notin {"down", "start"}

Checkers(step) ==
  /\ CheckersLaunched
  /\ step
  /\ UNCHANGED << chainVars, ethVars, llVars, faults >>

-----------------------------------------------------------------------------
Fault == faults < MaxFaults /\ faults' = faults + 1

\* An error of one of the loops, which makes it return.
LoopFault ==
  /\ Fault
  /\ \/ /\ \/ EthFail
           \/ \E txs \in SUBSET DepositsInBatch : IndexL1DepositsFails(txs)
           \/ \E log \in ethTodo, txs \in SUBSET Withdrawals :
                OutputProposedFails(log, txs)
        /\ UNCHANGED llVars
     \/ /\ \/ LlFail
           \/ \E txs \in SUBSET WithdrawalsInBatch :
                IndexL2WithdrawalsFails(txs)
        /\ UNCHANGED ethVars
  /\ UNCHANGED << chainVars, checkerVars >>

\* An error of GetLastIndexedBlock is not reported: the loop starts over.
ReadFault ==
  /\ ReadFaults
  /\ Fault
  /\ \/ EthStart(0) /\ UNCHANGED llVars
     \/ LlStart(0) /\ UNCHANGED ethVars
  /\ UNCHANGED << chainVars, checkerVars >>

CheckerFault(c) ==
  /\ CheckerFaults
  /\ Fault
  /\ CheckersLaunched
  /\ CheckerFail(c)
  /\ UNCHANGED << chainVars, ethVars, llVars >>

-----------------------------------------------------------------------------
Up == ethPc # "down"

EndProcess ==
  /\ Up
  /\ ethPc' = "down" /\ EthIdle
  /\ llPc' = "down" /\ LlIdle
  /\ CheckersIdle
  /\ UNCHANGED << chainVars, storeVars >>

\* Run returns after the first of the loops, with its error, and main returns.
Exit ==
  /\ ethPc = "failed" \/ llPc = "failed"
  /\ EndProcess
  /\ UNCHANGED faults

\* The process is killed, or a signal makes one of the loops return while the
\* other goroutines are anywhere.
Stop == Fault /\ EndProcess

Restart ==
  /\ ~Up
  /\ ethPc' = "start" /\ llPc' = "start"
  /\ UNCHANGED << chainVars, storeVars, ethStart, ethEnd, ethTodo, ethProof,
                  llStart, llEnd, llTodo, checkerVars, faults >>

Next ==
  \/ Environment
  \/ EthereumLoop
  \/ LightLinkLoop
  \/ Waiting
  \/ Checkers(CheckerStep)
  \/ LoopFault
  \/ ReadFault
  \/ \E c \in CheckerNames : CheckerFault(c)
  \/ Exit
  \/ Stop
  \/ Restart

Spec == Init /\ [][Next]_vars

(***************************************************************************)
(* The goroutines are scheduled, main returns once Run has, and somebody   *)
(* restarts the process.  Nothing is assumed of the chains.                *)
(***************************************************************************)
Fairness ==
  /\ WF_vars(EthereumLoop)
  /\ WF_vars(LightLinkLoop)
  /\ WF_vars(Checkers(ProvenCheckerStep))
  /\ WF_vars(Checkers(FinalizedCheckerStep))
  /\ WF_vars(Checkers(ReadyCheckerStep))
  /\ WF_vars(Exit)
  /\ WF_vars(Restart)

FairSpec == Spec /\ Fairness

-----------------------------------------------------------------------------
(***************************************************************************)
(* Correctness of the database against the chains.                         *)
(***************************************************************************)

\* No status is ahead of the chains: every status that a document carries is
\* one that some log, and for READY_FOR_RELAY the clock, entitles it to.  All
\* writers of the field are concerned: the loops, which write on replayed and
\* on reordered logs, and the checkers, which write from stale lists.
StatusJustified ==
  /\ \A w \in Withdrawals :
       /\ status[w] # NoDocument => Initiated(w)
       /\ status[w] = "READY_TO_PROVE" => OutputCovers(w)
       /\ status[w] = "IN_CHALLENGE_PERIOD" => Proven(w)
       /\ status[w] = "READY_FOR_RELAY" =>
            \E l \in provenLogs :
              l.withdrawal = w /\ clock > l.time + FinalizationSeconds
       /\ status[w] = "RELAYED" => Finalized(w)
  /\ \A d \in Deposits :
       /\ status[d] # NoDocument => Deposited(d)
       /\ status[d] = "RELAYED" => RelayedOnL2(d)

\* What the database must hold once a block counts as indexed.
Indexed(log, chain, default) == log.block \in default .. lastIndexedBlock[chain]

\* Nothing indexed is lost: of every log in the blocks up to the recorded last
\* indexed block, the database holds the document or the record, wherever a
\* process was stopped and whatever part of a batch it had written before.
IndexedBlocksComplete ==
  /\ \A l \in depositLogs :
       Indexed(l, "ethereum", L1DefaultStartBlock) =>
         status[l.deposit] # NoDocument
  /\ \A l \in provenLogs :
       Indexed(l, "ethereum", L1DefaultStartBlock) =>
         HasProvenRecord(l.withdrawal)
  /\ \A l \in finalizedLogs :
       Indexed(l, "ethereum", L1DefaultStartBlock) =>
         HasFinalizedRecord(l.withdrawal)
  /\ \A l \in withdrawalLogs :
       Indexed(l, "lightlink", L2DefaultStartBlock) =>
         status[l.withdrawal] # NoDocument

\* The time of a proven record is that of the withdrawal's last proof, unless
\* a later proof is in a block that is still to be indexed.  The code reads it
\* from the portal's current state while it goes through older logs.
ProofTimeCurrent ==
  \A r \in transactionsProven :
    \/ r.time = provenWithdrawals[r.withdrawal]
    \/ \E l \in provenLogs :
         l.withdrawal = r.withdrawal /\ l.block > lastIndexedBlock["ethereum"]

\* As long as nothing fails, no block is indexed twice: a document that exists
\* is never set back to the status it was created with.
StatusResetOnlyAfterFault ==
  [][\A t \in Transactions :
       /\ faults = 0
       /\ status[t] # NoDocument
       /\ status'[t] \in {"STATE_ROOT_NOT_PUBLISHED",
                          "UNCONFIRMED_L1_TO_L2_MESSAGE"}
       => status'[t] = status[t]]_vars

\* The numbered list of README.md:26-32, as ranks.
FlowRank(s) ==
  CASE s = NoDocument -> 0
    [] s = "STATE_ROOT_NOT_PUBLISHED" -> 1
    [] s = "READY_TO_PROVE" -> 2
    [] s = "IN_CHALLENGE_PERIOD" -> 3
    [] s = "READY_FOR_RELAY" -> 4
    [] s = "RELAYED" -> 5

ProvenAgain(w) ==
  \E k, l \in provenLogs : k # l /\ k.withdrawal = w /\ l.withdrawal = w

\* As long as nothing fails, the loops follow the flow of README.md:26-32: a
\* withdrawal is set back only by a checker that had listed it, to
\* IN_CHALLENGE_PERIOD or READY_FOR_RELAY, or because it was proven again.  The
\* loop writes IN_CHALLENGE_PERIOD for every proof without looking at the
\* document; that it does not undo RELAYED is due to the order of the logs, of
\* the stages of a batch and of the batches.
LoopsFollowFlow ==
  [][\A w \in Withdrawals :
       faults = 0 /\ FlowRank(status'[w]) < FlowRank(status[w]) =>
         \/ /\ status'[w] = "IN_CHALLENGE_PERIOD"
            /\ \/ w \in provenHit \ provenHit'
               \/ status[w] = "READY_FOR_RELAY" /\ ProvenAgain(w)
         \/ /\ status'[w] = "READY_FOR_RELAY"
            /\ \E r \in readyList \ readyList' : r.withdrawal = w]_vars

\* The record of the last indexed block never moves back, so that no block is
\* indexed again once its batch was recorded (last_indexed_block.go:3-5).
LastIndexedBlockMonotone ==
  [][\A c \in IndexedChains :
       lastIndexedBlock'[c] >= lastIndexedBlock[c]]_vars

-----------------------------------------------------------------------------
(***************************************************************************)
(* The promise of StatusMirror.                                            *)
(***************************************************************************)

\* A proof of withdrawal w is older than the challenge period.
ChallengeOver(w) ==
  \E l \in provenLogs :
    l.withdrawal = w /\ clock > l.time + FinalizationSeconds

\* What the chains justify of a transaction by now; it is never taken back.
Evidence ==
  ({w \in Withdrawals : Initiated(w)} \X {"STATE_ROOT_NOT_PUBLISHED"})
    \cup ({w \in Withdrawals : OutputCovers(w)} \X {"READY_TO_PROVE"})
    \cup ({w \in Withdrawals : Proven(w)} \X {"IN_CHALLENGE_PERIOD"})
    \cup ({w \in Withdrawals : ChallengeOver(w)} \X {"READY_FOR_RELAY"})
    \cup ({w \in Withdrawals : Finalized(w)} \X {"RELAYED"})
    \cup ({d \in Deposits : Deposited(d)} \X {"UNCONFIRMED_L1_TO_L2_MESSAGE"})
    \cup ({d \in Deposits : RelayedOnL2(d)} \X {"RELAYED"})

Mirror == INSTANCE StatusMirror WITH
  evidence <- Evidence,
  proven <- {r.withdrawal : r \in transactionsProven},
  finalized <- transactionsFinalized

\* The loops, the checkers, their stale lists, faults and restarts do not show:
\* each step writes what the evidence allows, only creates a document with its
\* first status, and never takes a document or a record away.
ImplementsStatusMirror == Mirror!MirrorSpec

-----------------------------------------------------------------------------
(***************************************************************************)
(* Progress.                                                               *)
(***************************************************************************)

\* What the chains say of withdrawal w, in the words of types.go.
ChainStatus(w) ==
  CASE Finalized(w) -> "RELAYED"
    [] ~Finalized(w) /\ Proven(w) /\
         clock > provenWithdrawals[w] + FinalizationSeconds ->
           "READY_FOR_RELAY"
    [] ~Finalized(w) /\ Proven(w) /\
         clock <= provenWithdrawals[w] + FinalizationSeconds ->
           "IN_CHALLENGE_PERIOD"
    [] ~Proven(w) /\ OutputCovers(w) -> "READY_TO_PROVE"
    [] ~OutputCovers(w) /\ Initiated(w) -> "STATE_ROOT_NOT_PUBLISHED"
    [] OTHER -> NoDocument

\* The database catches up: once the chains stay as they are, so does the
\* status of each withdrawal, and it is the one the chains give it.  This is
\* where the races between the loops and the checkers, with their unconditional
\* writes, must cancel out, and where interrupted batches must be made up for.
EventuallyMirrorsChain ==
  \A w \in Withdrawals :
    \A s \in WithdrawalStatuses :
      <>[](ChainStatus(w) = s) => <>[](status[w] = s)

\* A deposit that was relayed on L2 ends as RELAYED (README.md:5 and :34-37,
\* indexer_lightlink.go:202).
RelayedDepositsShown ==
  \A d \in Deposits : <>[]RelayedOnL2(d) => <>[](status[d] = "RELAYED")

-----------------------------------------------------------------------------
(***************************************************************************)
(* What the comments and the README say of the statuses, beyond what the   *)
(* code does.                                                              *)
(***************************************************************************)

\* A withdrawal goes through its statuses in the order of README.md:26-32 and
\* never back.
StatusFollowsFlow ==
  [][\A w \in Withdrawals : FlowRank(status'[w]) >= FlowRank(status[w])]_vars

\* A withdrawal that is READY_TO_PROVE and has a proven record is set to
\* IN_CHALLENGE_PERIOD by the next round of the checker (the comment at
\* indexer_ethereum.go:328-329).
ProvenRecordsApplied ==
  \A w \in Withdrawals :
    (status[w] = "READY_TO_PROVE" /\ HasProvenRecord(w))
      ~> (status[w] # "READY_TO_PROVE")
=============================================================================
