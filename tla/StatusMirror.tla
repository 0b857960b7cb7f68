----------------------------- MODULE StatusMirror -----------------------------
(***************************************************************************)
(* What the indexer promises to whoever reads its database, without loops, *)
(* batches, lists, faults or restarts.  The chains give evidence for the   *)
(* statuses of a transaction; the database follows.  A document appears    *)
(* with the first status of its kind, may be set back to it, and otherwise *)
(* only takes a status there is evidence for; nothing is ever removed.     *)
(***************************************************************************)
EXTENDS Integers

CONSTANTS Withdrawals, Deposits

Transactions == Withdrawals \cup Deposits

NoDocument == "NO_DOCUMENT"

FirstStatus(t) ==
  IF t \in Withdrawals
    THEN "STATE_ROOT_NOT_PUBLISHED"
    ELSE "UNCONFIRMED_L1_TO_L2_MESSAGE"

StatusesOf(t) ==
  IF t \in Withdrawals
    THEN {"STATE_ROOT_NOT_PUBLISHED", "READY_TO_PROVE",
          "IN_CHALLENGE_PERIOD", "READY_FOR_RELAY", "RELAYED"}
    ELSE {"UNCONFIRMED_L1_TO_L2_MESSAGE", "RELAYED"}

VARIABLES
  evidence,   \* pairs of a transaction and a status the chains justify
  status,     \* the status of each document, or NoDocument
  proven,     \* withdrawals that have a proven record
  finalized   \* withdrawals that have a finalized record

mirrorVars == << evidence, status, proven, finalized >>

PossibleEvidence ==
  {e \in Transactions \X UNION {StatusesOf(t) : t \in Transactions} :
     e[2] \in StatusesOf(e[1])}

MirrorInit ==
  /\ evidence = {}
  /\ status = [t \in Transactions |-> NoDocument]
  /\ proven = {} /\ finalized = {}

\* The chains go on: what was justified stays so.
ChainsGoOn ==
  /\ evidence \subseteq evidence'
  /\ UNCHANGED << status, proven, finalized >>

\* One write to the documents txs.
WriteStatus(txs, s) ==
  /\ \A t \in txs : << t, s >> \in evidence
  /\ \A t \in txs : s = FirstStatus(t) \/ status[t] # NoDocument
  /\ s = "READY_FOR_RELAY" => txs \subseteq proven
  /\ status' = [t \in Transactions |-> IF t \in txs THEN s ELSE status[t]]
  /\ UNCHANGED << evidence, proven, finalized >>

RecordProven(w) ==
  /\ << w, "IN_CHALLENGE_PERIOD" >> \in evidence
  /\ proven' = proven \cup {w}
  /\ UNCHANGED << evidence, status, finalized >>

RecordFinalized(w) ==
  /\ << w, "RELAYED" >> \in evidence
  /\ finalized' = finalized \cup {w}
  /\ UNCHANGED << evidence, status, proven >>

MirrorNext ==
  \/ ChainsGoOn
  \/ \E txs \in SUBSET Transactions :
       \E s \in UNION {StatusesOf(t) : t \in txs} : WriteStatus(txs, s)
  \/ \E w \in Withdrawals : RecordProven(w) \/ RecordFinalized(w)

MirrorSpec == MirrorInit /\ [][MirrorNext]_mirrorVars
=============================================================================
