---------------------------- MODULE BatchCollector ----------------------------
(***************************************************************************)
(* indexL1Deposits and indexL2Withdrawals call by call: the two Filter     *)
(* calls, for each bridge event the receipt of its transaction, parsed to  *)
(* the message it sent, the time of its block and, on L2, the hash of the  *)
(* withdrawal; then one bulk write.  The clients of the ethereum and the   *)
(* lightlink package try most calls five times.  In BridgeIndexer each of  *)
(* the two functions is one read and one write.                            *)
(*                                                                         *)
(* A receipt is the sequence of its logs; of a message, SentMessage gives  *)
(* all fields but the value, SentMessageExtension1 the value: its hash is  *)
(* the pair of the messages that the two came from.                        *)
(***************************************************************************)
EXTENDS Integers, Sequences, FiniteSets, SequencesExt

CONSTANTS
  Txs,          \* hashes of bridge transactions of the range
  Messages,     \* what they can send
  Unrelated,    \* what other contracts' logs carry
  Sent,         \* functions from Txs: the messages of each, in order
  NoHash,       \* the zero hash
  NoDocument,
  Unreadable,   \* sets of pairs of a transaction and a parsing that fails
  MaxFailures,  \* bound on the calls that fail of themselves in one go
  MaxEvents     \* bound on the events of one kind

ASSUME CollectorAssumption ==
  /\ MaxFailures \in Nat /\ MaxEvents \in Nat
  /\ Unreadable \subseteq SUBSET (Txs \X {"message", "withdrawal"})
  /\ \A sends \in Sent : sends \in [Txs -> Seq(Messages) \ {<< >>}]

Sides == {"L1", "L2"}

VARIABLES
  side,       \* L1 for indexL1Deposits, L2 for indexL2Withdrawals
  receipts,   \* of each transaction of the range: its logs, in order
  events,     \* FALSE: logs of ETHBridgeInitiated, TRUE: of the ERC20 event;
              \* for each, the hash of its transaction
  unreadable, \* parsings that fail: a log of the receipt cannot be unpacked,
              \* or what is in it cannot be hashed
  pc,         \* the call that is next; "hung" when it is never answered
  erc20,      \* which of the two loops
  position,   \* the log that the loop is at
  attempt,    \* how often the client has tried the call
  batch,      \* deposits or withdrawals: the documents so far
  documents,  \* in the database
  answer,     \* "none", or what the function returned
  retriedFailures,  \* calls that failed of themselves, those tried again
  singleFailures    \* and those that are not

worldVars == << side, receipts, events, unreadable >>
collectorVars == << worldVars, pc, erc20, position, attempt, batch, documents,
                    answer, retriedFailures, singleFailures >>

RetriedCalls == {"filter", "l1Receipt", "l2Receipt", "block",
                 "withdrawalReceipt"}
SingleCalls == {"blockTimestamp", "write"}

-----------------------------------------------------------------------------
(***************************************************************************)
(* Parsing of receipts.                                                    *)
(***************************************************************************)
ReceiptLog(emitter, topic, message) ==
  [emitter |-> emitter, topic |-> topic, message |-> message]

Messengers == {"L1CrossDomainMessenger", "L2CrossDomainMessenger"}

\* Mutant: stops at the first log of the topic.
FirstOf(logs, emitters, topic) ==
  LET i == SelectInSeq(logs, LAMBDA l : /\ l.emitter \in emitters
                                        /\ l.topic = topic)
  IN IF i = 0 THEN NoHash ELSE logs[i].message

\* The message of the last log of a topic from one of some contracts, or
\* NoHash.
LastOf(logs, emitters, topic) ==
  LET i == SelectLastInSeq(logs, LAMBDA l : /\ l.emitter \in emitters
                                            /\ l.topic = topic)
  IN IF i = 0 THEN NoHash ELSE logs[i].message

MessageHash(logs) ==
  << LastOf(logs, Messengers, "SentMessage"),
     LastOf(logs, Messengers, "SentMessageExtension1") >>

WithdrawalHash(logs) ==
  LastOf(logs, {"L2ToL1MessagePasser"}, "MessagePassed")

-----------------------------------------------------------------------------
(***************************************************************************)
(* The retry loops of the clients.                                         *)
(***************************************************************************)
\* Mutant: one attempt less.
FourAttempts == 4

maxRetries == 5

CurrentTx == events[erc20][position]

\* The node of the other chain does not know the transaction.
KnownToNode ==
  /\ pc = "l1Receipt" => side = "L1"
  /\ pc = "l2Receipt" => side = "L2"

\* After the last attempt on Ethereum, txToCrossChainMessageV1 asks LightLink;
\* otherwise the error is returned all the way.
GiveUp ==
  IF pc = "l1Receipt"
    THEN pc' = "l2Receipt" /\ UNCHANGED answer
    ELSE pc' = "returned" /\ answer' = "error"

\* Mutant: there is no last attempt.
RetryAlways ==
  /\ attempt' = attempt
  /\ UNCHANGED << pc, answer >>

TryAgainOrGiveUp ==
  IF attempt < maxRetries - 1
    THEN attempt' = attempt + 1 /\ UNCHANGED << pc, answer >>
    ELSE attempt' = 0 /\ GiveUp

NotFound ==
  /\ pc \in RetriedCalls /\ ~KnownToNode
  /\ TryAgainOrGiveUp
  /\ UNCHANGED << worldVars, erc20, position, batch, documents,
                  retriedFailures, singleFailures >>

CallFails ==
  /\ pc \in RetriedCalls /\ KnownToNode
  /\ retriedFailures < MaxFailures
  /\ retriedFailures' = retriedFailures + 1
  /\ TryAgainOrGiveUp
  /\ UNCHANGED << worldVars, erc20, position, batch, documents,
                  singleFailures >>

\* The calls are made with context.Background() and without a timeout: a node
\* or a database that does not answer holds the goroutine for ever, and other
\* attempts are not made.
CallHangs ==
  /\ pc \in RetriedCalls
  /\ pc' = "hung"
  /\ UNCHANGED << worldVars, erc20, position, attempt, batch, documents, answer,
                  retriedFailures, singleFailures >>

\* GetBlockTimestamp is a plain HTTP request, without a second try, and the one
\* call that has a timeout.
TimestampFails ==
  /\ pc = "blockTimestamp"
  /\ singleFailures' = singleFailures + 1
  /\ pc' = "returned" /\ answer' = "error"
  /\ UNCHANGED << worldVars, erc20, position, attempt, batch, documents,
                  retriedFailures >>

-----------------------------------------------------------------------------
(***************************************************************************)
(* The calls when they succeed.                                            *)
(***************************************************************************)
Proceed(nextCall) ==
  /\ pc' = nextCall
  /\ attempt' = 0
  /\ UNCHANGED << worldVars, documents, answer, retriedFailures,
                  singleFailures >>

\* Next: on to the log at position p of the loop, the other loop, the write.
GoTo(p) ==
  IF p <= Len(events[erc20])
    THEN position' = p /\ UNCHANGED erc20 /\ Proceed("l1Receipt")
    ELSE /\ position' = 0 /\ erc20' = TRUE
         /\ Proceed(IF erc20 THEN "write" ELSE "filter")

FilterAnswers ==
  /\ pc = "filter"
  /\ GoTo(1)
  /\ UNCHANGED batch

\* What is parsed out of the receipt that is asked for.
Readable ==
  << CurrentTx, IF pc = "withdrawalReceipt" THEN "withdrawal" ELSE "message" >>
    \notin unreadable

\* The receipt is there, and parsing or hashing it returns an error: there is
\* no second try.
ParsingFails ==
  /\ pc \in {"l1Receipt", "l2Receipt", "withdrawalReceipt"} /\ KnownToNode
  /\ ~Readable
  /\ pc' = "returned" /\ answer' = "error"
  /\ UNCHANGED << worldVars, erc20, position, attempt, batch, documents,
                  retriedFailures, singleFailures >>

ReceiptAnswers ==
  /\ pc \in {"l1Receipt", "l2Receipt"} /\ KnownToNode
  /\ Readable
  /\ batch' = Append(batch, [tx |-> CurrentTx,
                             messageHash |-> MessageHash(receipts[CurrentTx]),
                             withdrawalHash |-> NoHash])
  /\ Proceed(IF side = "L1" THEN "block" ELSE "blockTimestamp")
  /\ UNCHANGED << erc20, position >>

BlockAnswers ==
  /\ pc = "block"
  /\ GoTo(position + 1)
  /\ UNCHANGED batch

TimestampAnswers ==
  /\ pc = "blockTimestamp"
  /\ Proceed("withdrawalReceipt")
  /\ UNCHANGED << erc20, position, batch >>

WithdrawalReceiptAnswers ==
  /\ pc = "withdrawalReceipt"
  /\ Readable
  /\ batch' = [batch EXCEPT ![Len(batch)].withdrawalHash =
                 WithdrawalHash(receipts[CurrentTx])]
  /\ GoTo(position + 1)

-----------------------------------------------------------------------------
(***************************************************************************)
(* BatchCreateTransactions: an unordered bulk write of upserts, of which   *)
(* any may have been done when it fails.                                   *)
(***************************************************************************)
Upsert(upserted) ==
  documents' = [t \in DOMAIN documents |->
    IF \E i \in upserted : batch[i].tx = t
      THEN LET i == CHOOSE i \in upserted :
                      /\ batch[i].tx = t
                      /\ \A j \in upserted : batch[j].tx = t => j <= i
           IN << batch[i].messageHash, batch[i].withdrawalHash >>
      ELSE documents[t]]

WriteReturns(upserted, result) ==
  /\ pc = "write"
  /\ Upsert(upserted)
  /\ pc' = "returned" /\ answer' = result
  /\ UNCHANGED << worldVars, erc20, position, attempt, batch,
                  retriedFailures >>

WriteSucceeds ==
  /\ WriteReturns(DOMAIN batch, "nil")
  /\ UNCHANGED singleFailures

\* Mutant: write errors are logged and not returned.
WriteErrorLogged ==
  /\ batch # << >>
  /\ \E upserted \in SUBSET DOMAIN batch : WriteReturns(upserted, "nil")
  /\ singleFailures' = singleFailures + 1

\* With nothing to write there is no call that can fail.
WriteFails ==
  /\ batch # << >>
  /\ \E upserted \in SUBSET DOMAIN batch : WriteReturns(upserted, "error")
  /\ singleFailures' = singleFailures + 1

\* The database does not answer: it may have done any part of the write.
WriteHangs ==
  /\ pc = "write" /\ batch # << >>
  /\ \E upserted \in SUBSET DOMAIN batch : Upsert(upserted)
  /\ pc' = "hung"
  /\ UNCHANGED << worldVars, erc20, position, attempt, batch, answer,
                  retriedFailures, singleFailures >>

\* The error ends the process, and one that hangs is killed; when it is
\* started again, the loop comes back to the range, which lastIndexedBlock has
\* not passed.
StartAgain ==
  /\ answer = "error" \/ pc = "hung"
  /\ pc' = "filter" /\ erc20' = FALSE /\ position' = 0 /\ attempt' = 0
  /\ batch' = << >> /\ answer' = "none"
  /\ retriedFailures' = 0 /\ singleFailures' = 0
  /\ UNCHANGED << worldVars, documents >>

-----------------------------------------------------------------------------
(***************************************************************************)
(* The transactions of a range: each sends one message or more, from one   *)
(* side, each message has an event of the bridge, and afterwards other     *)
(* contracts emit what looks like SentMessage, and the messenger a log     *)
(* that is none.                                                           *)
(***************************************************************************)
LogsOf(s, m) ==
  IF s = "L1"
    THEN << ReceiptLog("L1CrossDomainMessenger", "SentMessage", m),
            ReceiptLog("L1CrossDomainMessenger", "SentMessageExtension1", m) >>
    ELSE << ReceiptLog("L2ToL1MessagePasser", "MessagePassed", m),
            ReceiptLog("L2CrossDomainMessenger", "SentMessage", m),
            ReceiptLog("L2CrossDomainMessenger", "SentMessageExtension1", m) >>

LogsPerMessage(s) == IF s = "L1" THEN 2 ELSE 3

OtherLogs ==
  << ReceiptLog("elsewhere", "SentMessage", Unrelated),
     ReceiptLog("elsewhere", "MessagePassed", Unrelated),
     ReceiptLog("L2CrossDomainMessenger", "RelayedMessage", Unrelated) >>

\* The logs of one message after those of the other, and the other logs.
ReceiptOf(s, sent) ==
  LET k == LogsPerMessage(s)
  IN [j \in 1 .. k * Len(sent) + 3 |->
        IF j <= k * Len(sent)
          THEN LogsOf(s, sent[((j - 1) \div k) + 1])[((j - 1) % k) + 1]
          ELSE OtherLogs[j - k * Len(sent)]]

CountOf(list, t) == Cardinality({p \in DOMAIN list : list[p] = t})

\* The events of the messages that carry tokens, or of those that do not, in
\* the order of the transactions in the chain.
EventsOf(order, sends, carries, tokens) ==
  {list \in BoundedSeq(Txs, MaxEvents) :
     /\ \A t \in Txs : CountOf(list, t) =
          Cardinality({i \in DOMAIN sends[t] : carries[sends[t][i]] = tokens})
     /\ \A p, q \in DOMAIN list : p < q =>
          \E a, b \in DOMAIN order :
            a <= b /\ order[a] = list[p] /\ order[b] = list[q]}

CollectorInit ==
  /\ side \in Sides
  /\ \E order \in SetToSeqs(Txs), sends \in Sent,
        carries \in [Messages -> BOOLEAN] :
       /\ receipts = [t \in Txs |-> ReceiptOf(side, sends[t])]
       /\ \E ofEther \in EventsOf(order, sends, carries, FALSE),
             ofTokens \in EventsOf(order, sends, carries, TRUE) :
            events = [tokens \in BOOLEAN |->
                        IF tokens THEN ofTokens ELSE ofEther]
  /\ unreadable \in Unreadable
  /\ pc = "filter" /\ erc20 = FALSE /\ position = 0 /\ attempt = 0
  /\ batch = << >>
  /\ documents = [t \in Txs |-> NoDocument]
  /\ answer = "none"
  /\ retriedFailures = 0 /\ singleFailures = 0

CallAnswers ==
  \/ FilterAnswers \/ ReceiptAnswers \/ BlockAnswers
  \/ TimestampAnswers \/ WithdrawalReceiptAnswers \/ WriteSucceeds

Call ==
  \/ CallAnswers \/ ParsingFails
  \/ NotFound \/ CallFails \/ TimestampFails \/ WriteFails

CollectorNext == Call \/ CallHangs \/ WriteHangs \/ StartAgain

-----------------------------------------------------------------------------
CollectorTypeOK ==
  /\ side \in Sides
  /\ unreadable \in Unreadable
  /\ pc \in RetriedCalls \cup SingleCalls \cup {"returned", "hung"}
  /\ position \in 0 .. Len(events[erc20])
  /\ attempt \in 0 .. 4
  /\ \A i \in DOMAIN batch :
       /\ batch[i].tx \in Txs
       /\ batch[i].messageHash \in Messages \X Messages
       /\ batch[i].withdrawalHash \in Messages \cup {NoHash}
  /\ answer \in {"none", "nil", "error"}
  /\ retriedFailures \in 0 .. MaxFailures
  /\ singleFailures \in 0 .. 1

\* Up to four failures of the nodes, wherever they fall, do not end the
\* process: only five failures, one of a call that is made once (the
\* timestamp of an L2 block, the bulk write), or a receipt that cannot be
\* parsed make the function fail.
TransientFailuresSurvived ==
  answer = "error" =>
    \/ retriedFailures >= 5
    \/ singleFailures = 1
    \/ position > 0 /\ CurrentTx \in {u[1] : u \in unreadable}

\* Once begun the function gets to its end, whichever calls fail, and although
\* an L2 transaction is asked for on Ethereum first; or it waits for ever for
\* one call, which has no timeout and is never answered.
CollectionReturns == pc # "filter" ~> answer # "none" \/ pc = "hung"

\* The message that a transaction sent last, and the hashes of its document.
LastSent(logs) ==
  logs[SelectLastInSeq(logs, LAMBDA l : l.topic = "SentMessageExtension1")]
    .message

SentLast(t) ==
  LET m == LastSent(receipts[t])
  IN << << m, m >>, IF side = "L2" THEN m ELSE NoHash >>

\* Of the receipt of each bridge transaction of a range, the code parses the
\* hashes of one message, the last one that the transaction sent (the loops
\* over the logs do not stop at the first), whatever else is in the receipt;
\* and each of the transactions has an event.
HashesOf(logs) ==
  << MessageHash(logs), IF side = "L2" THEN WithdrawalHash(logs) ELSE NoHash >>

ReceiptsGiveLastMessage ==
  /\ events \in [BOOLEAN -> Seq(Txs)]
  /\ \A t \in Txs :
       /\ \E tokens \in BOOLEAN : t \in Range(events[tokens])
       /\ HashesOf(receipts[t]) = SentLast(t)
       /\ SentLast(t) \in (Messages \X Messages) \X (Messages \cup {NoHash})

\* However calls fail and the range is begun again, the database only ever
\* gets documents of the range whose hashes all belong to the one message
\* that the transaction sent last; and all of them before it is passed.
Promise == INSTANCE BatchWrite WITH
  lastMessage <- [t \in Txs |-> SentLast(t)]

WritesTheBatch == Promise!BatchSpec
=============================================================================
