---------------------------- MODULE StatusCheckers ----------------------------
(***************************************************************************)
(* The three goroutines that indexEthereum launches beside its loop.  Each *)
(* reads a list of documents, then goes through the list and writes the    *)
(* status of one document after another.  A document may have changed      *)
(* since it was listed: nothing is checked again before the write.         *)
(* A round that lists nothing is left out, and so is the sleep after it.   *)
(***************************************************************************)
EXTENDS TransactionStore

CheckerNames == {"proven", "finalized", "ready"}

VARIABLES
  provenList,     \* withdrawals CheckWithdrawalProvenStatus has still to do
  provenHit,      \* the one whose record it has found and not yet acted on
  finalizedList,  \* the same for CheckWithdrawalFinalizedStatus
  finalizedHit,
  readyMatched,   \* withdrawals whose record the query for them has to find
  readyList,      \* proven records CheckWithdrawalReadyToFinalize listed
  stopped         \* checkers that returned because of an error

checkerVars == << provenList, provenHit, finalizedList, finalizedHit,
                  readyMatched, readyList, stopped >>

CheckersTypeOK ==
  /\ provenList \subseteq Withdrawals
  /\ provenHit \subseteq Withdrawals
  /\ finalizedList \subseteq Withdrawals
  /\ finalizedHit \subseteq Withdrawals
  /\ readyMatched \subseteq Withdrawals
  /\ readyList \subseteq [withdrawal : Withdrawals, time : 1 .. clock]
  /\ stopped \subseteq CheckerNames

CheckersInit ==
  /\ provenList = {} /\ provenHit = {}
  /\ finalizedList = {} /\ finalizedHit = {}
  /\ readyMatched = {} /\ readyList = {}
  /\ stopped = {}

-----------------------------------------------------------------------------
(***************************************************************************)
(* CheckWithdrawalProvenStatus.                                            *)
(***************************************************************************)
ProvenCheckerList ==
  /\ "proven" \notin stopped
  /\ provenList = {} /\ provenHit = {}
  /\ GetTransactionsByStatus("READY_TO_PROVE") # {}
  /\ provenList' = GetTransactionsByStatus("READY_TO_PROVE")
  /\ UNCHANGED << provenHit, finalizedList, finalizedHit, readyMatched,
                  readyList, stopped, storeVars >>

ProvenCheckerFind(w) ==
  /\ w \in provenList /\ provenHit = {}
  /\ provenList' = provenList \ {w}
  /\ provenHit' = IF HasProvenRecord(w) THEN {w} ELSE {}
  /\ UNCHANGED << finalizedList, finalizedHit, readyMatched, readyList, stopped,
                  storeVars >>

ProvenCheckerUpdate(w) ==
  /\ w \in provenHit
  /\ UpdateTransactionStatusByWithdrawalHash(w, "IN_CHALLENGE_PERIOD")
  /\ provenHit' = {}
  /\ UNCHANGED << provenList, finalizedList, finalizedHit, readyMatched,
                  readyList, stopped, transactionsProven,
                  transactionsFinalized, lastIndexedBlock >>

ProvenCheckerStep ==
  \/ ProvenCheckerList
  \/ \E w \in provenList : ProvenCheckerFind(w)
  \/ \E w \in provenHit : ProvenCheckerUpdate(w)

-----------------------------------------------------------------------------
(***************************************************************************)
(* CheckWithdrawalFinalizedStatus.                                         *)
(***************************************************************************)
FinalizedCheckerList ==
  /\ "finalized" \notin stopped
  /\ finalizedList = {} /\ finalizedHit = {}
  /\ GetTransactionsByStatus("READY_FOR_RELAY") # {}
  /\ finalizedList' = GetTransactionsByStatus("READY_FOR_RELAY")
  /\ UNCHANGED << provenList, provenHit, finalizedHit, readyMatched,
                  readyList, stopped, storeVars >>

FinalizedCheckerFind(w) ==
  /\ w \in finalizedList /\ finalizedHit = {}
  /\ finalizedList' = finalizedList \ {w}
  /\ finalizedHit' = IF HasFinalizedRecord(w) THEN {w} ELSE {}
  /\ UNCHANGED << provenList, provenHit, readyMatched, readyList, stopped,
                  storeVars >>

FinalizedCheckerUpdate(w) ==
  /\ w \in finalizedHit
  /\ UpdateTransactionStatusByWithdrawalHash(w, "RELAYED")
  /\ finalizedHit' = {}
  /\ UNCHANGED << provenList, provenHit, finalizedList, readyMatched,
                  readyList, stopped, transactionsProven,
                  transactionsFinalized, lastIndexedBlock >>

FinalizedCheckerStep ==
  \/ FinalizedCheckerList
  \/ \E w \in finalizedList : FinalizedCheckerFind(w)
  \/ \E w \in finalizedHit : FinalizedCheckerUpdate(w)

-----------------------------------------------------------------------------
(***************************************************************************)
(* CheckWithdrawalReadyToFinalize.  Its query first matches the            *)
(* withdrawals by status and then looks the record of each up; the time of *)
(* a listed record is the one the record had at that moment.               *)
(***************************************************************************)
ReadyCheckerList ==
  /\ "ready" \notin stopped
  /\ readyMatched = {} /\ readyList = {}
  /\ GetTransactionsByStatus("IN_CHALLENGE_PERIOD") # {}
  /\ readyMatched' = GetTransactionsByStatus("IN_CHALLENGE_PERIOD")
  /\ UNCHANGED << provenList, provenHit, finalizedList, finalizedHit,
                  readyList, stopped, storeVars >>

ReadyCheckerLookup(w) ==
  /\ w \in readyMatched
  /\ readyMatched' = readyMatched \ {w}
  /\ readyList' = readyList \cup LookupProven(w)
  /\ UNCHANGED << provenList, provenHit, finalizedList, finalizedHit, stopped,
                  storeVars >>

\* Mutants: one second early, and without the configured seconds.
ChallengePeriodAlmostOver(r) == clock >= r.time + FinalizationSeconds

ProofInThePast(r) == clock > r.time

ChallengePeriodOver(r) == clock > r.time + FinalizationSeconds

ReadyCheckerUpdate(r) ==
  /\ r \in readyList /\ readyMatched = {}
  /\ IF ChallengePeriodOver(r)
       THEN UpdateTransactionStatusByWithdrawalHash(r.withdrawal,
                                                    "READY_FOR_RELAY")
       ELSE status' = status
  /\ readyList' = readyList \ {r}
  /\ UNCHANGED << provenList, provenHit, finalizedList, finalizedHit,
                  readyMatched, stopped, transactionsProven,
                  transactionsFinalized, lastIndexedBlock >>

ReadyCheckerStep ==
  \/ ReadyCheckerList
  \/ \E w \in readyMatched : ReadyCheckerLookup(w)
  \/ \E r \in readyList : ReadyCheckerUpdate(r)

-----------------------------------------------------------------------------
(***************************************************************************)
(* A database error makes a checker return; the error is dropped with its  *)
(* goroutine, and nothing launches it again before the next restart.       *)
(***************************************************************************)
CheckerFail(c) ==
  /\ c \notin stopped
  /\ stopped' = stopped \cup {c}
  /\ provenList' = IF c = "proven" THEN {} ELSE provenList
  /\ provenHit' = IF c = "proven" THEN {} ELSE provenHit
  /\ finalizedList' = IF c = "finalized" THEN {} ELSE finalizedList
  /\ finalizedHit' = IF c = "finalized" THEN {} ELSE finalizedHit
  /\ readyMatched' = IF c = "ready" THEN {} ELSE readyMatched
  /\ readyList' = IF c = "ready" THEN {} ELSE readyList
  /\ UNCHANGED storeVars

CheckersIdle ==
  /\ provenList' = {} /\ provenHit' = {}
  /\ finalizedList' = {} /\ finalizedHit' = {}
  /\ readyMatched' = {} /\ readyList' = {}
  /\ stopped' = {}

CheckerStep == ProvenCheckerStep \/ FinalizedCheckerStep \/ ReadyCheckerStep
=============================================================================
