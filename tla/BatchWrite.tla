------------------------------ MODULE BatchWrite ------------------------------
(***************************************************************************)
(* What indexL1Deposits and indexL2Withdrawals promise about a range of    *)
(* blocks, without calls, retries or iteration: one write that leaves a    *)
(* document for each bridge transaction of the range, the one of the last  *)
(* message that the transaction sent; or a failure or no end at all, with  *)
(* any part of the same documents, after which the range is done again.    *)
(***************************************************************************)
CONSTANT NoDocument

VARIABLES
  lastMessage,  \* of each bridge transaction of the range, what identifies
                \* its document: it does not change
  documents,    \* of each transaction, the hashes in its document
  answer        \* what the call has returned, "none" before

batchVars == << lastMessage, documents, answer >>

BatchInit ==
  /\ documents = [t \in DOMAIN lastMessage |-> NoDocument]
  /\ answer = "none"

WriteDocuments ==
  /\ answer = "none" /\ answer' = "nil"
  /\ documents' = lastMessage
  /\ UNCHANGED lastMessage

WritePart ==
  /\ answer = "none" /\ answer' \in {"none", "error"}
  /\ \E part \in SUBSET DOMAIN lastMessage :
       documents' = [t \in DOMAIN lastMessage |->
                       IF t \in part THEN lastMessage[t] ELSE documents[t]]
  /\ UNCHANGED lastMessage

DoAgain ==
  /\ answer = "error" /\ answer' = "none"
  /\ UNCHANGED << lastMessage, documents >>

BatchNext == WriteDocuments \/ WritePart \/ DoAgain

BatchSpec == BatchInit /\ [][BatchNext]_batchVars
=============================================================================
