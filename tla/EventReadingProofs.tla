-------------------------- MODULE EventReadingProofs --------------------------
(***************************************************************************)
(* Theorems about reading events: an iterator implements LogReading, a     *)
(* receipt gives the hashes of the message that was sent last, and a       *)
(* collection implements BatchWrite and fails only when a call used up its *)
(* attempts or a receipt cannot be parsed.                                 *)
(***************************************************************************)
EXTENDS MCEventReading, FiniteSetTheorems, WellFoundedInduction, TLAPS

-----------------------------------------------------------------------------
(***************************************************************************)
(* The iterator.                                                           *)
(***************************************************************************)
FlagsOK == quit \in BOOLEAN /\ done \in BOOLEAN /\ fail \in BOOLEAN

LogsOK ==
  /\ event \in Events
  /\ found \in Seq(WantedLogs(event)) /\ Len(found) <= MaxLogs
  /\ delivered \in Seq(WantedLogs(event))
  /\ sent \in 0 .. Len(found)
  /\ taken \in 0 .. sent /\ sent - taken <= LogCapacity

PlacesOK ==
  /\ producer \in {"none", "sending", "ended"}
  /\ call \in {"none", "next", "close"}
  /\ more \in {"unknown", "yes", "no"}

\* What has left the channel was delivered, but for the log that failed.
DeliveredIsTaken ==
  /\ fail => taken > 0
  /\ Len(delivered) = IF fail THEN taken - 1 ELSE taken

NothingBeforeFilter ==
  producer = "none" =>
    /\ found = << >> /\ ~quit /\ ~done /\ ~fail
    /\ call = "none" /\ more = "unknown"

\* The goroutine ends when it has sent all logs, or was told to quit; the
\* iterator is done after that, and answers "no" when nothing is left.
EndsInOrder ==
  /\ producer = "ended" => sent = Len(found) \/ quit
  /\ done => producer = "ended"
  /\ more = "no" /\ ~fail => done /\ taken = sent

IteratorInv ==
  /\ FlagsOK /\ LogsOK /\ PlacesOK
  /\ DeliveredIsTaken
  /\ NothingBeforeFilter
  /\ EndsInOrder

\* The invariant holds before Filter is called.
LEMMA IteratorInitInv == IteratorInit => IteratorInv
<1> SUFFICES ASSUME IteratorInit  PROVE IteratorInv
  OBVIOUS
<1>1. FlagsOK
  BY Zenon DEF IteratorInit, FlagsOK
<1>2. << >> \in Seq(WantedLogs(event))
  OBVIOUS
<1>3. LogsOK /\ DeliveredIsTaken
  BY <1>2, EventIteratorAssumption DEF IteratorInit, LogsOK, DeliveredIsTaken
<1>4. PlacesOK /\ NothingBeforeFilter /\ EndsInOrder
  BY DEF IteratorInit, PlacesOK, NothingBeforeFilter, EndsInOrder
<1> QED  BY <1>1, <1>3, <1>4 DEF IteratorInv

\* The three flags stay Boolean (kept apart from the arithmetic).
LEMMA FlagsStay ==
  FlagsOK /\ [IteratorNext]_iteratorVars => FlagsOK'
BY Zenon
DEF FlagsOK, IteratorNext, iteratorVars, Filter, Producer, Send, ProducerEnds,
    CallNext, CallClose, ReturningCall, NextAfterFailure, NextTakesLog,
    NextSeesEnd, NextEnds, CloseReturns, NextReturns

\* Every step of the goroutine and of the reader keeps it.
LEMMA IteratorNextInv ==
  IteratorInv /\ [IteratorNext]_iteratorVars => IteratorInv'
<1> SUFFICES ASSUME FlagsOK, LogsOK, PlacesOK, DeliveredIsTaken,
                    NothingBeforeFilter, EndsInOrder,
                    [IteratorNext]_iteratorVars
             PROVE  (LogsOK /\ PlacesOK /\ DeliveredIsTaken
                       /\ NothingBeforeFilter /\ EndsInOrder)'
  BY FlagsStay DEF IteratorInv
<1> USE EventIteratorAssumption DEF LogsOK, PlacesOK, DeliveredIsTaken, NothingBeforeFilter, EndsInOrder
<1>1. CASE Filter
  <2>1. found' \in Seq(WantedLogs(event)) /\ Len(found') <= MaxLogs
    BY <1>1 DEF Filter, BoundedSeq, SeqOf
  <2> QED  BY <1>1, <2>1 DEF Filter
<1>2. CASE Producer
  BY <1>2 DEF Producer, Send, ProducerEnds
<1>3. CASE CallNext \/ CallClose
  BY <1>3 DEF CallNext, CallClose
<1>4. CASE NextTakesLog
  <2>1. found[taken + 1] \in WantedLogs(event)
    BY <1>4 DEF NextTakesLog
  <2>2. Append(delivered, found[taken + 1]) \in Seq(WantedLogs(event))
    BY <2>1
  <2>3. /\ taken' = taken + 1 /\ taken < sent /\ ~fail /\ call' = "none"
        /\ UNCHANGED << event, found, sent, producer, quit, done >>
        /\ \/ /\ ~fail' /\ more' = "yes"
              /\ delivered' = Append(delivered, found[taken + 1])
           \/ fail' /\ more' = "no" /\ delivered' = delivered
    BY <1>4 DEF NextTakesLog, NextReturns
  <2>4. LogsOK'
    BY <2>2, <2>3
  <2>5. DeliveredIsTaken'
    BY <2>3
  <2>6. PlacesOK' /\ NothingBeforeFilter' /\ EndsInOrder'
    BY <2>3
  <2> QED  BY <2>4, <2>5, <2>6
<1>5. CASE NextAfterFailure \/ NextSeesEnd \/ NextEnds \/ CloseReturns
  BY <1>5
  DEF NextAfterFailure, NextSeesEnd, NextEnds, CloseReturns, NextReturns
<1>6. CASE UNCHANGED iteratorVars
  BY <1>6 DEF iteratorVars
<1> QED
  BY <1>1, <1>2, <1>3, <1>4, <1>5, <1>6 DEF IteratorNext, ReturningCall

\* The log that Next takes is one of the event: it unpacks if it decodes.
LEMMA WantedUnpacks ==
  ASSUME NEW log \in WantedLogs(event)
  PROVE  Unpacks(event, log) <=> log.decodes
BY DEF WantedLogs, Matches, Unpacks

\* Every step is one of LogReading or does not show.
LEMMA IteratorShows ==
  ASSUME IteratorInv, [IteratorNext]_iteratorVars
  PROVE  [Reading!Next]_(Reading!readingVars)
<1> USE EventIteratorAssumption DEF IteratorInv, LogsOK, PlacesOK, DeliveredIsTaken, NothingBeforeFilter, EndsInOrder
<1>1. CASE Filter
  BY <1>1 DEF Filter, ReadingState, Reading!Next, Reading!Open
<1>2. CASE Producer \/ CallNext \/ UNCHANGED iteratorVars
  <2>1. UNCHANGED << found, delivered, ReadingState, quit >>
    BY <1>2
    DEF Producer, Send, ProducerEnds, CallNext, iteratorVars, ReadingState
  <2> QED  BY <2>1 DEF Reading!readingVars
<1>3. CASE CallClose
  BY <1>3 DEF CallClose, ReadingState, Reading!Next, Reading!Close
<1>4. CASE NextTakesLog
  <2> DEFINE log == found[taken + 1]
  <2>1. log \in WantedLogs(event) /\ taken + 1 \in DOMAIN found
    BY <1>4 DEF NextTakesLog
  <2>2. ReadingState = "open" /\ Len(delivered) = taken
    BY <1>4 DEF NextTakesLog, ReadingState
  <2>3. Reading!IsNext(log)
    BY <2>1, <2>2 DEF Reading!IsNext
  <2>4. CASE log.decodes
    <3>1. /\ ReadingState' = "open"
          /\ delivered' = Append(delivered, log)
          /\ UNCHANGED << found, quit >>
      BY <1>4, <2>1, <2>4, WantedUnpacks
      DEF NextTakesLog, NextReturns, ReadingState
    <3>2. Reading!Deliver(log)
      BY <2>2, <2>3, <2>4, <3>1 DEF Reading!Deliver
    <3> QED  BY <2>1, <3>2 DEF Reading!Next
  <2>5. CASE ~log.decodes
    <3>1. /\ ReadingState' = "failed"
          /\ UNCHANGED << found, delivered, quit >>
      BY <1>4, <2>1, <2>5, WantedUnpacks
      DEF NextTakesLog, NextReturns, ReadingState
    <3>2. Reading!Fail(log)
      BY <2>2, <2>3, <2>5, <3>1 DEF Reading!Fail
    <3> QED  BY <2>1, <3>2 DEF Reading!Next
  <2> QED  BY <2>4, <2>5
<1>5. CASE NextAfterFailure \/ NextSeesEnd \/ CloseReturns
  <2>1. UNCHANGED << found, delivered, ReadingState, quit >>
    BY <1>5
    DEF NextAfterFailure, NextSeesEnd, CloseReturns, NextReturns, ReadingState
  <2> QED  BY <2>1 DEF Reading!readingVars
<1>6. CASE NextEnds
  <2>1. Len(delivered) = Len(found) \/ quit
    BY <1>6 DEF NextEnds
  <2>2. ReadingState' = "ended" /\ UNCHANGED << found, delivered, quit >>
    BY <1>6 DEF NextEnds, NextReturns, ReadingState
  <2>3. ReadingState \in {"open", "ended"}
    BY <1>6 DEF NextEnds, ReadingState
  <2> QED
    BY <2>1, <2>2, <2>3 DEF Reading!Next, Reading!End, Reading!readingVars
<1> QED
  BY <1>1, <1>2, <1>3, <1>4, <1>5, <1>6 DEF IteratorNext, ReturningCall

\* A use of one of the three is a step of it or none.
LEMMA UseSteps ==
  [Next]_vars => /\ [IteratorNext]_iteratorVars
                 /\ [WatchNext]_watchVars
                 /\ [CollectorNext]_collectorVars
BY DEF Next, vars, iteratorVars, watchVars, collectorVars, worldVars

\* The reader of an iterator gets every log of the query, once and in order,
\* and is told that there are no more only after the last one, after an error
\* or after Close (L1StandardBridge.go:1553), for every event of the bindings,
\* any number of logs and any capacity of the channel.
THEOREM IteratorReadsEveryLog == Spec => ReadsEveryLog
<1>1. Init => IteratorInv
  BY IteratorInitInv DEF Init
<1>2. Init => Reading!Init
  BY DEF Init, IteratorInit, Reading!Init, ReadingState
<1>3. IteratorInv /\ [Next]_vars => IteratorInv'
  BY UseSteps, IteratorNextInv
<1>4. IteratorInv /\ [Next]_vars => [Reading!Next]_(Reading!readingVars)
  BY UseSteps, IteratorShows
<1> QED
  BY <1>1, <1>2, <1>3, <1>4, PTL DEF Spec, ReadsEveryLog, Reading!Spec

\* The invariant implies the type invariant.
LEMMA IteratorInvTyped == IteratorInv => IteratorTypeOK
<1> SUFFICES ASSUME IteratorInv  PROVE IteratorTypeOK
  OBVIOUS
<1>1. Len(delivered) <= MaxLogs
  BY EventIteratorAssumption DEF IteratorInv, LogsOK, DeliveredIsTaken
<1> QED  BY <1>1, Zenon
         DEF IteratorInv, FlagsOK, LogsOK, PlacesOK, IteratorTypeOK

-----------------------------------------------------------------------------
(***************************************************************************)
(* The subscription.                                                       *)
(***************************************************************************)
WatchCounts ==
  /\ pushed \in Seq(BOOLEAN) /\ Len(pushed) <= MaxPushed
  /\ received \in 0 .. Len(pushed)
  /\ sunk \in 0 .. received
  /\ watcher \in {"running", "unpackError", "nodeError", "quit"}
  /\ holding => watcher # "unpackError"
  /\ received - sunk = (IF holding THEN 1 ELSE 0)
                          + (IF watcher = "unpackError" THEN 1 ELSE 0)

WatchFlags == nodeFailed \in BOOLEAN /\ unsubscribing \in BOOLEAN

WatchInv == holding \in BOOLEAN /\ WatchCounts

\* The flags that no count depends on.
LEMMA WatchFlagsStay ==
  WatchFlags /\ [WatchNext]_watchVars => WatchFlags'
BY Zenon
DEF WatchFlags, WatchNext, watchVars, NodePushes, NodeFails, WatcherReceives,
    SinkTakes, WatcherQuits, WatcherSeesNodeError, CallUnsubscribe,
    UnsubscribeReturns

\* The invariant holds when Watch returns.
LEMMA WatchInitInv == WatchInit => WatchInv
<1> SUFFICES ASSUME WatchInit  PROVE WatchInv
  OBVIOUS
<1>1. holding \in BOOLEAN
  BY Zenon DEF WatchInit
<1>2. WatchCounts
  BY EventSubscriptionAssumption DEF WatchInit, WatchCounts
<1> QED  BY <1>1, <1>2 DEF WatchInv

\* Every step of the node, the goroutine and the caller keeps it.
LEMMA WatchNextInv == WatchInv /\ [WatchNext]_watchVars => WatchInv'
<1> SUFFICES ASSUME WatchInv, [WatchNext]_watchVars  PROVE WatchInv'
  OBVIOUS
<1> USE DEF WatchInv, WatchCounts
<1>1. ASSUME NEW unpacks \in BOOLEAN, NodePushes(unpacks)  PROVE WatchInv'
  <2>1. pushed' \in Seq(BOOLEAN) /\ Len(pushed') = Len(pushed) + 1
    BY <1>1 DEF NodePushes
  <2>2. WatchCounts'
    BY <1>1, <2>1, EventSubscriptionAssumption DEF NodePushes
  <2>3. holding' \in BOOLEAN
    BY <1>1 DEF NodePushes
  <2> QED  BY <2>2, <2>3
<1>2. CASE WatcherReceives
  BY <1>2 DEF WatcherReceives
<1>3. CASE SinkTakes
  <2>1. holding' \in BOOLEAN
    BY <1>3, Zenon DEF SinkTakes
  <2>2. WatchCounts'
    BY <1>3 DEF SinkTakes
  <2> QED  BY <2>1, <2>2
<1>4. CASE WatcherQuits \/ WatcherSeesNodeError
  BY <1>4 DEF WatcherQuits, WatcherSeesNodeError
<1>5. CASE NodeFails \/ CallUnsubscribe \/ UnsubscribeReturns
           \/ UNCHANGED watchVars
  BY <1>5 DEF NodeFails, CallUnsubscribe, UnsubscribeReturns, watchVars
<1> QED  BY <1>1, <1>2, <1>3, <1>4, <1>5 DEF WatchNext

-----------------------------------------------------------------------------
(***************************************************************************)
(* The collection.                                                         *)
(***************************************************************************)
\* While a call that the node can answer is tried again, each attempt so far
\* was a failure that counts.  LightLink is asked for a transaction of Ethereum
\* only after five of them.
AttemptsFailed ==
  /\ attempt \in 0 .. 4
  /\ pc \in RetriedCalls /\ KnownToNode => attempt <= retriedFailures
  /\ pc = "l2Receipt" /\ side = "L1" => retriedFailures >= 5

\* Receipts are asked for where the loop is at an event.
AtEvent ==
  /\ position \in Nat
  /\ pc \in {"l1Receipt", "l2Receipt", "block", "blockTimestamp",
            "withdrawalReceipt"} => position > 0

\* The first call that fails for good ends the collection.
FailsOnce ==
  /\ answer = "none" <=> pc # "returned"
  /\ answer = "none" => singleFailures = 0

CollectorInv ==
  /\ side \in Sides
  /\ retriedFailures \in Nat
  /\ AttemptsFailed
  /\ AtEvent
  /\ FailsOnce
  /\ TransientFailuresSurvived

\* Every call, answered or failed, keeps it.
LEMMA CollectorNextInv ==
  CollectorInv /\ [CollectorNext]_collectorVars => CollectorInv'
<1> SUFFICES ASSUME CollectorInv, [CollectorNext]_collectorVars
             PROVE  CollectorInv'
  OBVIOUS
<1> USE DEF CollectorInv, AttemptsFailed, AtEvent, FailsOnce, TransientFailuresSurvived, RetriedCalls, KnownToNode, Sides, CurrentTx, worldVars
<1>1. CASE FilterAnswers \/ BlockAnswers
  BY <1>1 DEF FilterAnswers, BlockAnswers, GoTo, Proceed
<1>2. CASE ReceiptAnswers
  BY <1>2 DEF ReceiptAnswers, Proceed
<1>3. CASE TimestampAnswers \/ WithdrawalReceiptAnswers
  BY <1>3 DEF TimestampAnswers, WithdrawalReceiptAnswers, GoTo, Proceed
<1>4. CASE WriteSucceeds \/ WriteFails
  BY <1>4 DEF WriteSucceeds, WriteFails, WriteReturns
<1>5. CASE NotFound
  BY <1>5 DEF NotFound, TryAgainOrGiveUp, GiveUp, maxRetries
<1>6. CASE CallFails
  BY <1>6 DEF CallFails, TryAgainOrGiveUp, GiveUp, maxRetries
<1>7. CASE TimestampFails
  BY <1>7 DEF TimestampFails
<1>8. CASE StartAgain
  BY <1>8 DEF StartAgain
<1>9. CASE ParsingFails
  <2>1. \E u \in unreadable : u[1] = CurrentTx
    BY <1>9 DEF ParsingFails, Readable
  <2>2. /\ position > 0 /\ CurrentTx \in {u[1] : u \in unreadable}
        /\ UNCHANGED << unreadable, events, erc20, position >>
    BY <1>9, <2>1 DEF ParsingFails
  <2> QED  BY <1>9, <2>2 DEF ParsingFails
<1>10. CASE CallHangs \/ WriteHangs \/ UNCHANGED collectorVars
  BY <1>10 DEF CallHangs, WriteHangs, collectorVars
<1> QED
  BY <1>1, <1>2, <1>3, <1>4, <1>5, <1>6, <1>7, <1>8, <1>9, <1>10
  DEF CollectorNext, Call, CallAnswers

\* However many transactions a range has and wherever the calls fail, the
\* function only returns an error, which ends the process, after five failures
\* of the nodes or one of a call that is made once, or at a receipt that cannot
\* be parsed.
THEOREM FourFailuresSurvived == Spec => []TransientFailuresSurvived
<1>1. Init => CollectorInv
  BY DEF Init, CollectorInit, CollectorInv, AttemptsFailed, AtEvent,
         FailsOnce, TransientFailuresSurvived, RetriedCalls, KnownToNode
<1>2. CollectorInv /\ [Next]_vars => CollectorInv'
  BY UseSteps, CollectorNextInv
<1>3. CollectorInv => TransientFailuresSurvived
  BY DEF CollectorInv
<1> QED  BY <1>1, <1>2, <1>3, PTL DEF Spec

-----------------------------------------------------------------------------
(***************************************************************************)
(* What a collection writes.  Rows of the batch are right, but for the     *)
(* last one while its withdrawal hash is still to come; and each event     *)
(* that the loops are through with has a row.                              *)
(***************************************************************************)
Rows == [tx : Txs, messageHash : Messages \X Messages,
         withdrawalHash : Messages \cup {NoHash}]

Hashes(row) == << row.messageHash, row.withdrawalHash >>

RowRight(row) == Hashes(row) = SentLast(row.tx)

RowOpen == pc \in {"blockTimestamp", "withdrawalReceipt"}

BatchRight ==
  /\ batch \in Seq(Rows)
  /\ \A i \in DOMAIN batch :
       RowRight(batch[i]) \/ (RowOpen /\ i = Len(batch))
  /\ RowOpen =>
       /\ side = "L2" /\ batch # << >>
       /\ batch[Len(batch)].tx = CurrentTx
       /\ batch[Len(batch)].messageHash = MessageHash(receipts[CurrentTx])

HasRow(rows, t) == \E i \in DOMAIN rows : rows[i].tx = t

\* The first n events of a loop have their rows.
Collected(rows, tokens, n) ==
  \A p \in 1 .. n : HasRow(rows, events[tokens][p])

AllCollected(rows, tokens) == Collected(rows, tokens, Len(events[tokens]))

LoopsRight ==
  /\ erc20 \in BOOLEAN
  /\ erc20 = TRUE => AllCollected(batch, FALSE)
  /\ position \in 0 .. Len(events[erc20])
  /\ pc = "filter" => position = 0
  /\ pc \in {"l1Receipt", "l2Receipt"} =>
       position > 0 /\ Collected(batch, erc20, position - 1)
  /\ pc \in {"block", "blockTimestamp", "withdrawalReceipt"} =>
       position > 0 /\ Collected(batch, erc20, position)
  /\ pc = "block" => side = "L1"
  /\ pc = "write" => erc20 = TRUE /\ AllCollected(batch, TRUE)

\* The function has returned, or never will.
Stopped == pc \in {"returned", "hung"}

RangeInv ==
  /\ side \in Sides
  /\ ReceiptsGiveLastMessage
  /\ documents = [t \in Txs |-> documents[t]]
  /\ answer = "none" <=> pc # "returned"
  /\ ~Stopped => BatchRight /\ LoopsRight

\* Where a range is at its start, and with nothing in the batch.
LEMMA EmptyBatchRight ==
  ASSUME pc = "filter", erc20 = FALSE, position = 0, batch = << >>,
         events \in [BOOLEAN -> Seq(Txs)]
  PROVE  BatchRight /\ LoopsRight
<1>1. BatchRight
  BY DEF BatchRight, RowOpen
<1>2. events[FALSE] \in Seq(Txs)
  OBVIOUS
<1>3. erc20 \in BOOLEAN
  BY Zenon
<1>4. position \in 0 .. Len(events[erc20])
  BY <1>2
<1>5. ~(erc20 = TRUE)
  BY Zenon
<1> QED  BY <1>1, <1>3, <1>4, <1>5 DEF LoopsRight

\* The invariant holds at the start of a range.
LEMMA InitRangeInv == CollectorInit /\ ReceiptsGiveLastMessage => RangeInv
<1> SUFFICES ASSUME CollectorInit, ReceiptsGiveLastMessage  PROVE RangeInv
  OBVIOUS
<1>1. BatchRight /\ LoopsRight
  BY EmptyBatchRight DEF CollectorInit, ReceiptsGiveLastMessage
<1> QED  BY <1>1 DEF RangeInv, CollectorInit

\* What the range is never changes.
LEMMA RangeStays ==
  ASSUME ReceiptsGiveLastMessage, UNCHANGED worldVars
  PROVE  /\ ReceiptsGiveLastMessage'
         /\ \A t \in Txs : SentLast(t)' = SentLast(t)
<1>1. /\ receipts' = receipts /\ side' = side /\ events' = events
  BY DEF worldVars
<1>2. ASSUME NEW t \in Txs
      PROVE  /\ SentLast(t)' = SentLast(t)
             /\ HashesOf(receipts[t])' = HashesOf(receipts[t])
  BY <1>1, Zenon DEF SentLast, HashesOf
<1> QED  BY <1>1, <1>2, Zenon DEF ReceiptsGiveLastMessage

\* A loop over any sequence can be before its first event.
LEMMA StartIsPlace == ASSUME NEW s \in Seq(Txs)  PROVE 0 \in 0 .. Len(s)
OBVIOUS

\* The loop goes on to the next event, to the other loop or to the write.
LEMMA GoToRight ==
  ASSUME LoopsRight, events \in [BOOLEAN -> Seq(Txs)], GoTo(position + 1),
         Collected(batch', erc20, position),
         erc20 = TRUE => AllCollected(batch', FALSE)
  PROVE  LoopsRight'
<1> DEFINE logs == events[erc20]
<1>1. erc20 \in BOOLEAN /\ events' = events
  BY DEF LoopsRight, GoTo, Proceed, worldVars
<1>2. logs \in Seq(Txs)
  BY <1>1
<1>3. CASE position + 1 <= Len(logs)
  <2>1. /\ pc' = "l1Receipt" /\ position' = position + 1
        /\ UNCHANGED << erc20, events >>
    BY <1>3 DEF GoTo, Proceed, worldVars
  <2>2. position' \in 0 .. Len(logs) /\ position' > 0 /\ position' - 1 = position
    BY <1>2, <1>3, <2>1 DEF LoopsRight
  <2> QED  BY <1>1, <2>1, <2>2 DEF LoopsRight, AllCollected, Collected
<1>4. CASE ~(position + 1 <= Len(logs))
  <2>1. position' = 0 /\ erc20' = TRUE /\ events' = events
    BY <1>4 DEF GoTo, Proceed, worldVars
  <2>2. position = Len(logs)
    BY <1>2, <1>4 DEF LoopsRight
  <2>3. AllCollected(batch', erc20)
    BY <2>2 DEF AllCollected
  <2>4. AllCollected(batch, FALSE)'
    <3>1. AllCollected(batch', FALSE)
      BY <1>1, <2>3
    <3> QED  BY <2>1, <3>1 DEF AllCollected, Collected
  <2>5. 0 \in 0 .. Len(events[TRUE])
    <3>1. events[TRUE] \in Seq(Txs)
      BY Zenon
    <3> QED  BY <3>1, StartIsPlace, Zenon
  <2>6. CASE erc20 = TRUE
    <3>1. pc' = "write"
      BY <1>4, <2>6, Zenon DEF GoTo, Proceed
    <3>2. AllCollected(batch, TRUE)'
      BY <2>1, <2>3, <2>6 DEF AllCollected, Collected
    <3> QED  BY <2>1, <2>4, <2>5, <3>1, <3>2 DEF LoopsRight
  <2>7. CASE erc20 = FALSE
    <3>1. pc' = "filter"
      BY <1>4, <2>7, Zenon DEF GoTo, Proceed
    <3> QED  BY <2>1, <2>4, <2>5, <3>1 DEF LoopsRight
  <2> QED  BY <1>1, <2>6, <2>7
<1> QED  BY <1>3, <1>4

\* Rows that were right and stay, stay right.
LEMMA RightRowsStay ==
  ASSUME UNCHANGED worldVars, NEW i, batch'[i] = batch[i], RowRight(batch[i])
  PROVE  RowRight(batch[i])'
BY Zenon DEF RowRight, Hashes, SentLast, worldVars

\* A Filter call or the header of a block adds no row.
LEMMA LoopGoesOn ==
  ASSUME RangeInv, FilterAnswers \/ BlockAnswers  PROVE RangeInv'
<1> USE DEF RangeInv
<1>1. /\ pc \in {"filter", "block"} /\ batch' = batch
      /\ BatchRight /\ LoopsRight
  BY DEF FilterAnswers, BlockAnswers, Stopped
<1>2. GoTo(position + 1)
  <2>1. CASE FilterAnswers
    <3>1. position = 0
      BY <1>1, <2>1 DEF FilterAnswers, LoopsRight
    <3>2. position + 1 = 1
      BY <3>1
    <3>3. GoTo(1)
      BY <2>1 DEF FilterAnswers
    <3> QED  BY <3>2, <3>3
  <2> QED  BY <2>1 DEF BlockAnswers
<1>3. UNCHANGED << worldVars, documents, answer >>
  BY <1>2 DEF GoTo, Proceed
<1>4. pc' \in {"l1Receipt", "filter", "write"}
  BY <1>2 DEF GoTo, Proceed
<1>5. LoopsRight'
  <2>1. Collected(batch', erc20, position)
    BY <1>1 DEF Collected, LoopsRight
  <2> QED  BY <1>1, <1>2, <2>1, GoToRight
           DEF ReceiptsGiveLastMessage, LoopsRight
<1>6. BatchRight'
  <2>1. ~RowOpen /\ ~RowOpen'
    BY <1>1, <1>4 DEF RowOpen
  <2>2. \A i \in DOMAIN batch : RowRight(batch[i])'
    BY <1>1, <1>3, <2>1, RightRowsStay DEF BatchRight
  <2> QED  BY <1>1, <2>1, <2>2 DEF BatchRight
<1> QED  BY <1>1, <1>3, <1>4, <1>5, <1>6, RangeStays DEF worldVars

\* A batch with at least the rows of another has the events of the other.
LEMMA CollectedStays ==
  ASSUME NEW rows, NEW tokens, NEW n,
         \A i \in DOMAIN batch : i \in DOMAIN rows /\ rows[i].tx = batch[i].tx
  PROVE  /\ Collected(batch, tokens, n) => Collected(rows, tokens, n)
         /\ AllCollected(batch, tokens) => AllCollected(rows, tokens)
BY Zenon DEF Collected, AllCollected, HasRow

\* The loop is at an event of one of the transactions.
LEMMA CurrentTxIsOne ==
  ASSUME LoopsRight, events \in [BOOLEAN -> Seq(Txs)], position > 0
  PROVE  CurrentTx \in Txs
<1>1. events[erc20] \in Seq(Txs)
  BY DEF LoopsRight
<1> QED  BY <1>1 DEF LoopsRight, CurrentTx

\* What is parsed out of a receipt, by the side of the range.
LEMMA HashesTyped ==
  ASSUME ReceiptsGiveLastMessage, NEW t \in Txs
  PROVE  /\ MessageHash(receipts[t]) \in Messages \X Messages
         /\ SentLast(t)[1] = MessageHash(receipts[t])
         /\ side = "L2" => WithdrawalHash(receipts[t]) \in Messages \cup {NoHash}
         /\ side = "L2" => SentLast(t)
              = << MessageHash(receipts[t]), WithdrawalHash(receipts[t]) >>
         /\ side # "L2" => SentLast(t) = << MessageHash(receipts[t]), NoHash >>
<1>1. /\ HashesOf(receipts[t]) = SentLast(t)
      /\ SentLast(t) \in (Messages \X Messages) \X (Messages \cup {NoHash})
  BY DEF ReceiptsGiveLastMessage
<1> QED  BY <1>1 DEF HashesOf

\* A receipt adds the row of its transaction, on L2 an open one.
LEMMA RowIsAdded ==
  ASSUME RangeInv, ReceiptAnswers  PROVE RangeInv'
<1> USE DEF RangeInv
<1> DEFINE row == [tx |-> CurrentTx,
                   messageHash |-> MessageHash(receipts[CurrentTx]),
                   withdrawalHash |-> NoHash]
<1>1. /\ pc \in {"l1Receipt", "l2Receipt"} /\ KnownToNode
      /\ batch' = Append(batch, row)
      /\ pc' = IF side = "L1" THEN "block" ELSE "blockTimestamp"
      /\ UNCHANGED << worldVars, erc20, position, documents, answer >>
      /\ BatchRight /\ LoopsRight
  BY DEF ReceiptAnswers, Proceed, Stopped
<1>2. /\ side' = side /\ events' = events /\ receipts' = receipts
  BY <1>1 DEF worldVars
<1>3. CurrentTx \in Txs /\ CurrentTx' = CurrentTx
  BY <1>1, <1>2, CurrentTxIsOne
  DEF LoopsRight, ReceiptsGiveLastMessage, CurrentTx
<1>4. row \in Rows /\ row.tx = CurrentTx
  BY <1>3, HashesTyped DEF Rows
<1>5. /\ batch \in Seq(Rows) /\ batch' \in Seq(Rows)
      /\ Len(batch') = Len(batch) + 1 /\ batch'[Len(batch')] = row
      /\ \A i \in DOMAIN batch : i \in DOMAIN batch' /\ batch'[i] = batch[i]
      /\ \A i \in DOMAIN batch' : i \in DOMAIN batch \/ i = Len(batch')
  BY <1>1, <1>4 DEF BatchRight
<1>6. LoopsRight'
  <2>1. /\ Collected(batch', erc20, position - 1)
        /\ erc20 = TRUE => AllCollected(batch', FALSE)
    BY <1>1, <1>5, CollectedStays DEF LoopsRight
  <2>2. HasRow(batch', events[erc20][position])
    BY <1>4, <1>5 DEF HasRow, CurrentTx
  <2>3. position \in Nat /\ position > 0
    <3>1. events[erc20] \in Seq(Txs)
      BY <1>1 DEF LoopsRight, ReceiptsGiveLastMessage
    <3> QED  BY <1>1, <3>1 DEF LoopsRight
  <2>4. Collected(batch', erc20, position)
    BY <2>1, <2>2, <2>3 DEF Collected
  <2>5. Collected(batch, erc20, position)' /\ (erc20 = TRUE => AllCollected(batch, FALSE))'
    BY <1>1, <1>2, <2>1, <2>4 DEF Collected, AllCollected
  <2>6. pc' \in {"block", "blockTimestamp"} /\ (pc' = "block" => side' = "L1")
    BY <1>1, <1>2
  <2> QED  BY <1>1, <1>2, <2>3, <2>5, <2>6 DEF LoopsRight
<1>7. BatchRight'
  <2>1. \A i \in DOMAIN batch : RowRight(batch[i])'
    BY <1>1, <1>5, RightRowsStay DEF BatchRight, RowOpen
  <2>2. CASE side = "L1"
    <3>1. ~RowOpen'
      BY <1>1, <2>2 DEF RowOpen
    <3>2. Hashes(row) = SentLast(row.tx)
      BY <1>3, <2>2, HashesTyped DEF Hashes
    <3>3. RowRight(batch[Len(batch)])'
      BY <1>2, <1>5, <3>2, Zenon DEF RowRight, Hashes, SentLast
    <3> QED  BY <1>5, <2>1, <3>1, <3>3 DEF BatchRight
  <2>3. CASE side = "L2"
    <3>1. RowOpen'
      BY <1>1, <2>3 DEF RowOpen
    <3>2. /\ batch' # << >> /\ batch'[Len(batch')].tx = CurrentTx'
          /\ batch'[Len(batch')].messageHash = MessageHash(receipts'[CurrentTx'])
      BY <1>2, <1>3, <1>5
    <3> QED  BY <1>2, <1>5, <2>1, <2>3, <3>1, <3>2 DEF BatchRight
  <2> QED  BY <2>2, <2>3 DEF Sides
<1> QED  BY <1>1, <1>2, <1>6, <1>7, RangeStays

\* The hash that was still to come completes the last row.
LEMMA RowIsCompleted ==
  ASSUME RangeInv, WithdrawalReceiptAnswers  PROVE RangeInv'
<1> USE DEF RangeInv
<1> DEFINE last == Len(batch)
           hash == WithdrawalHash(receipts[CurrentTx])
<1>1. /\ pc = "withdrawalReceipt" /\ GoTo(position + 1)
      /\ batch' = [batch EXCEPT ![last].withdrawalHash = hash]
      /\ BatchRight /\ LoopsRight
  BY DEF WithdrawalReceiptAnswers, Stopped
<1>2. UNCHANGED << worldVars, documents, answer >>
  BY <1>1 DEF GoTo, Proceed
<1>3. pc' \in {"l1Receipt", "filter", "write"}
  BY <1>1 DEF GoTo, Proceed
<1>4. CurrentTx \in Txs
  BY <1>1, CurrentTxIsOne DEF LoopsRight, ReceiptsGiveLastMessage
<1>5. /\ batch \in Seq(Rows) /\ last \in DOMAIN batch /\ batch[last] \in Rows
      /\ batch[last].tx = CurrentTx /\ side = "L2"
      /\ batch[last].messageHash = MessageHash(receipts[CurrentTx])
  BY <1>1 DEF BatchRight, RowOpen
<1>6. hash \in Messages \cup {NoHash}
  BY <1>4, <1>5, HashesTyped
<1>7. [batch[last] EXCEPT !.withdrawalHash = hash] \in Rows
  BY <1>5, <1>6 DEF Rows
<1>8. /\ batch' \in Seq(Rows) /\ DOMAIN batch' = DOMAIN batch
      /\ batch'[last] = [batch[last] EXCEPT !.withdrawalHash = hash]
      /\ \A i \in DOMAIN batch \ {last} : batch'[i] = batch[i]
  BY <1>1, <1>5, <1>7
<1>9. LoopsRight'
  <2>1. batch'[last].tx = batch[last].tx
    BY <1>5, <1>8 DEF Rows
  <2>2. \A i \in DOMAIN batch : i \in DOMAIN batch' /\ batch'[i].tx = batch[i].tx
    BY <1>8, <2>1
  <2>3. /\ Collected(batch', erc20, position)
        /\ erc20 = TRUE => AllCollected(batch', FALSE)
    BY <1>1, <2>2, CollectedStays DEF LoopsRight
  <2> QED  BY <1>1, <2>3, GoToRight DEF ReceiptsGiveLastMessage
<1>10. BatchRight'
  <2>1. ~RowOpen'
    BY <1>3 DEF RowOpen
  <2>2. \A i \in DOMAIN batch \ {last} : RowRight(batch[i])'
    BY <1>1, <1>2, <1>8, RightRowsStay DEF BatchRight
  <2>3. RowRight(batch[last])'
    <3>1. /\ batch'[last].tx = CurrentTx
          /\ Hashes(batch'[last]) = SentLast(CurrentTx)
      BY <1>4, <1>5, <1>8, HashesTyped DEF Hashes, Rows
    <3>2. side' = side /\ receipts' = receipts
      BY <1>2 DEF worldVars
    <3>3. last' = last
      BY <1>8
    <3> QED  BY <3>1, <3>2, <3>3, Zenon DEF RowRight, Hashes, SentLast
  <2> QED  BY <1>8, <2>1, <2>2, <2>3 DEF BatchRight
<1> QED  BY <1>1, <1>2, <1>3, <1>9, <1>10, RangeStays DEF worldVars

\* Calls that change neither the batch nor the place in the loops.
LEMMA PlaceStays ==
  ASSUME RangeInv, ~Stopped,
         UNCHANGED << worldVars, erc20, position, batch >>,
         \/ pc' = pc
         \/ pc = "l1Receipt" /\ pc' = "l2Receipt"
         \/ pc = "blockTimestamp" /\ pc' = "withdrawalReceipt"
  PROVE  BatchRight' /\ LoopsRight'
<1> USE DEF RangeInv
<1>1. /\ events' = events /\ side' = side /\ receipts' = receipts
      /\ erc20' = erc20 /\ position' = position /\ batch' = batch
  BY DEF worldVars
<1>2. BatchRight /\ LoopsRight
  OBVIOUS
<1>3. RowOpen' = RowOpen /\ CurrentTx' = CurrentTx
  BY <1>1 DEF RowOpen, CurrentTx
<1>4. \A i \in DOMAIN batch : RowRight(batch[i]) => RowRight(batch[i])'
  BY <1>1, RightRowsStay
<1>5. BatchRight'
  BY <1>1, <1>2, <1>3, <1>4 DEF BatchRight
<1>6. LoopsRight'
  BY <1>1, <1>2 DEF LoopsRight, Collected, AllCollected
<1> QED  BY <1>5, <1>6

\* Calls that fail or are repeated leave the batch as it is.
LEMMA CallsKeepPlace ==
  ASSUME RangeInv,
         \/ TimestampAnswers \/ NotFound \/ CallFails \/ TimestampFails
         \/ ParsingFails \/ CallHangs \/ UNCHANGED collectorVars
  PROVE  RangeInv'
<1> USE DEF RangeInv
<1>1. UNCHANGED << worldVars, erc20, position, batch, documents >>
  BY DEF TimestampAnswers, NotFound, CallFails, TimestampFails, ParsingFails,
         CallHangs, Proceed, collectorVars
<1>2. CASE Stopped
  BY <1>1, <1>2, RangeStays
  DEF TimestampAnswers, NotFound, CallFails, TimestampFails, ParsingFails,
      CallHangs, Stopped, RetriedCalls, collectorVars, worldVars
<1>3. CASE ~Stopped
  <2>1. \/ pc' = pc /\ answer' = answer
        \/ pc = "l1Receipt" /\ pc' = "l2Receipt" /\ answer' = answer
        \/ pc = "blockTimestamp" /\ pc' = "withdrawalReceipt" /\ answer' = answer
        \/ pc' = "returned" /\ answer' = "error"
        \/ pc' = "hung" /\ answer' = answer
    BY DEF TimestampAnswers, NotFound, CallFails, TimestampFails, ParsingFails,
           CallHangs, TryAgainOrGiveUp, GiveUp, Proceed, collectorVars
  <2> QED  BY <1>1, <1>3, <2>1, PlaceStays, RangeStays DEF Stopped, worldVars
<1> QED  BY <1>2, <1>3

\* A second go at the range begins with an empty batch.
LEMMA RangeBeginsAgain ==
  ASSUME RangeInv, StartAgain  PROVE RangeInv'
<1>1. /\ pc' = "filter" /\ erc20' = FALSE /\ position' = 0 /\ batch' = << >>
      /\ answer' = "none" /\ UNCHANGED << worldVars, documents >>
  BY DEF StartAgain
<1>2. ReceiptsGiveLastMessage' /\ side' \in Sides
  BY <1>1, RangeStays DEF RangeInv, worldVars
<1>3. BatchRight'
  BY <1>1 DEF BatchRight, RowOpen
<1>4. LoopsRight'
  <2>1. erc20' \in BOOLEAN /\ ~(erc20' = TRUE)
    BY <1>1, Zenon
  <2>2. events' \in [BOOLEAN -> Seq(Txs)]
    BY <1>2 DEF ReceiptsGiveLastMessage
  <2>3. events'[erc20'] \in Seq(Txs)
    BY <2>1, <2>2, Zenon
  <2>4. position' \in 0 .. Len(events'[erc20'])
    BY <1>1, <2>3, StartIsPlace, Zenon
  <2> QED  BY <1>1, <2>1, <2>4, Zenon DEF LoopsRight
<1> QED  BY <1>1, <1>2, <1>3, <1>4 DEF RangeInv

\* Nothing is asked of the batch after the write.
LEMMA WriteReturnsRight ==
  ASSUME RangeInv, WriteSucceeds \/ WriteFails \/ WriteHangs  PROVE RangeInv'
<1>1. /\ \/ pc' = "returned" /\ answer' \in {"nil", "error"}
         \/ pc' = "hung" /\ answer' = "none"
      /\ UNCHANGED worldVars
  BY DEF WriteSucceeds, WriteFails, WriteHangs, WriteReturns, RangeInv
<1>2. documents' = [t \in Txs |-> documents'[t]]
  <2>1. DOMAIN documents = Txs
    BY DEF RangeInv
  <2> QED  BY <2>1
           DEF WriteSucceeds, WriteFails, WriteHangs, WriteReturns, Upsert
<1> QED  BY <1>1, <1>2, RangeStays DEF RangeInv, Stopped, worldVars

\* Every step keeps the invariant.
LEMMA NextRangeInv ==
  ASSUME RangeInv, [CollectorNext]_collectorVars  PROVE RangeInv'
BY LoopGoesOn, RowIsAdded, RowIsCompleted, CallsKeepPlace, RangeBeginsAgain,
   WriteReturnsRight DEF CollectorNext, Call, CallAnswers

-----------------------------------------------------------------------------
(***************************************************************************)
(* What the parsing finds in the receipts of a range.                      *)
(***************************************************************************)
\* The last place of a set of places that has one.
LEMMA MaxIsLast ==
  ASSUME NEW S \in SUBSET Nat, NEW m \in S, \A x \in S : x <= m
  PROVE  Max(S) = m
<1>1. \A y \in S : m >= y
  OBVIOUS
<1>2. ASSUME NEW x \in S, \A y \in S : x >= y
      PROVE  x = m
  BY <1>2
<1> QED  BY <1>1, <1>2 DEF Max

\* If no later log matches, the message of a log that does is the one found.
LEMMA LastOfIs ==
  ASSUME NEW logs, NEW emitters, NEW topic,
         Len(logs) \in Nat, NEW i \in 1 .. Len(logs),
         logs[i].emitter \in emitters, logs[i].topic = topic,
         \A j \in 1 .. Len(logs) :
           logs[j].emitter \in emitters /\ logs[j].topic = topic => j <= i
  PROVE  LastOf(logs, emitters, topic) = logs[i].message
<1> DEFINE S == {j \in 1 .. Len(logs) :
                   /\ logs[j].emitter \in emitters
                   /\ logs[j].topic = topic}
<1>1. S \in SUBSET Nat /\ i \in S /\ \A x \in S : x <= i
  OBVIOUS
<1>2. Max(S) = i /\ S # {} /\ i # 0
  BY <1>1, MaxIsLast
<1>3. LastOf(logs, emitters, topic) =
        LET k == IF S # {} THEN Max(S) ELSE 0
        IN IF k = 0 THEN NoHash ELSE logs[k].message
  BY DEF LastOf, SelectLastInSeq
<1> HIDE DEF S
<1> QED  BY <1>2, <1>3

\* The same of LastSent, which does not ask who emitted the log.
LEMMA LastSentIs ==
  ASSUME NEW logs, Len(logs) \in Nat, NEW i \in 1 .. Len(logs),
         logs[i].topic = "SentMessageExtension1",
         \A j \in 1 .. Len(logs) :
           logs[j].topic = "SentMessageExtension1" => j <= i
  PROVE  LastSent(logs) = logs[i].message
<1> DEFINE S == {j \in 1 .. Len(logs) :
                   logs[j].topic = "SentMessageExtension1"}
<1>1. S \in SUBSET Nat /\ i \in S /\ \A x \in S : x <= i
  OBVIOUS
<1>2. Max(S) = i /\ S # {}
  BY <1>1, MaxIsLast
<1>3. LastSent(logs) = logs[IF S # {} THEN Max(S) ELSE 0].message
  BY DEF LastSent, SelectLastInSeq
<1> HIDE DEF S
<1> QED  BY <1>2, <1>3

\* A receipt of L1: pairs of logs, then those of others.
LEMMA ReceiptOnL1 ==
  ASSUME NEW ms \in Seq(Messages) \ {<< >>}
  PROVE  LET logs == ReceiptOf("L1", ms)
             m == ms[Len(ms)]
         IN /\ MessageHash(logs) = << m, m >>
            /\ LastSent(logs) = m
<1> DEFINE logs == ReceiptOf("L1", ms)
           n == Len(ms)
           m == ms[n]
<1>1. n \in Nat /\ n > 0
  OBVIOUS
<1>2. logs = [j \in 1 .. 2 * n + 3 |->
                IF j <= 2 * n
                  THEN LogsOf("L1", ms[((j - 1) \div 2) + 1])[((j - 1) % 2) + 1]
                  ELSE OtherLogs[j - 2 * n]]
  BY DEF ReceiptOf, LogsPerMessage
<1>3. Len(logs) = 2 * n + 3 /\ Len(logs) \in Nat
  BY <1>1, <1>2
<1>4. ASSUME NEW j \in 1 .. n
      PROVE  /\ logs[2 * j - 1] =
                  ReceiptLog("L1CrossDomainMessenger", "SentMessage", ms[j])
             /\ logs[2 * j] = ReceiptLog("L1CrossDomainMessenger",
                                         "SentMessageExtension1", ms[j])
  <2>1. /\ 2 * j \in 1 .. 2 * n + 3 /\ 2 * j <= 2 * n
        /\ 2 * j - 1 \in 1 .. 2 * n + 3 /\ 2 * j - 1 <= 2 * n
    BY <1>1
  <2>2. /\ ((2 * j - 1) \div 2) + 1 = j /\ ((2 * j - 1) % 2) + 1 = 2
        /\ ((2 * j - 1 - 1) \div 2) + 1 = j /\ ((2 * j - 1 - 1) % 2) + 1 = 1
    OBVIOUS
  <2>3. /\ logs[2 * j] = LogsOf("L1", ms[j])[2]
        /\ logs[2 * j - 1] = LogsOf("L1", ms[j])[1]
    BY <1>2, <2>1, <2>2
  <2> QED  BY <2>3 DEF LogsOf
<1>5. /\ logs[2 * n + 1] = OtherLogs[1]
      /\ logs[2 * n + 2] = OtherLogs[2]
      /\ logs[2 * n + 3] = OtherLogs[3]
  BY <1>1, <1>2
<1> HIDE DEF logs
<1>6. /\ 2 * n \in 1 .. Len(logs) /\ 2 * n - 1 \in 1 .. Len(logs)
      /\ logs[2 * n - 1] =
           ReceiptLog("L1CrossDomainMessenger", "SentMessage", m)
      /\ logs[2 * n] =
           ReceiptLog("L1CrossDomainMessenger", "SentMessageExtension1", m)
  <2>1. n \in 1 .. n
    BY <1>1
  <2> QED  BY <1>1, <1>3, <1>4, <2>1
<1> HIDE DEF n, m
<1>7. ASSUME NEW j \in 2 * n + 1 .. Len(logs)
      PROVE  /\ logs[j].emitter \in Messengers =>
                  logs[j].topic = "RelayedMessage"
             /\ logs[j].topic # "SentMessageExtension1"
  <2>1. j = 2 * n + 1 \/ j = 2 * n + 2 \/ j = 2 * n + 3
    BY <1>1, <1>3
  <2>2. logs[j] \in {OtherLogs[1], OtherLogs[2], OtherLogs[3]}
    BY <1>5, <2>1
  <2> QED  BY <2>2 DEF OtherLogs, ReceiptLog, Messengers
<1>8. LastOf(logs, Messengers, "SentMessage") = m
  <2>1. /\ 2 * n - 1 \in 1 .. Len(logs)
        /\ logs[2 * n - 1].emitter \in Messengers
        /\ logs[2 * n - 1].topic = "SentMessage"
    BY <1>6 DEF ReceiptLog, Messengers
  <2>2. logs[2 * n].topic # "SentMessage"
    BY <1>6 DEF ReceiptLog
  <2>3. \A j \in 1 .. Len(logs) :
          logs[j].emitter \in Messengers /\ logs[j].topic = "SentMessage"
            => j <= 2 * n - 1
    BY <1>1, <1>3, <1>7, <2>2
  <2>4. LastOf(logs, Messengers, "SentMessage") =
          logs[2 * n - 1].message
    BY <1>3, <2>1, <2>3, LastOfIs
  <2> QED  BY <1>6, <2>4 DEF ReceiptLog
<1>9. /\ LastOf(logs, Messengers, "SentMessageExtension1") = m
      /\ LastSent(logs) = m
  <2>1. /\ 2 * n \in 1 .. Len(logs)
        /\ logs[2 * n].emitter \in Messengers
        /\ logs[2 * n].topic = "SentMessageExtension1"
    BY <1>6 DEF ReceiptLog, Messengers
  <2>2. \A j \in 1 .. Len(logs) :
          logs[j].topic = "SentMessageExtension1" => j <= 2 * n
    BY <1>1, <1>3, <1>7
  <2>3. LastOf(logs, Messengers, "SentMessageExtension1") = logs[2 * n].message
    BY <1>3, <2>1, <2>2, LastOfIs
  <2>4. LastSent(logs) = logs[2 * n].message
    BY <1>3, <2>1, <2>2, LastSentIs
  <2> QED  BY <1>6, <2>3, <2>4 DEF ReceiptLog
<1> QED  BY <1>8, <1>9 DEF MessageHash, logs, n, m

\* A receipt of L2: three logs for each message, then those of others.
LEMMA ReceiptOnL2 ==
  ASSUME NEW ms \in Seq(Messages) \ {<< >>}
  PROVE  LET logs == ReceiptOf("L2", ms)
             m == ms[Len(ms)]
         IN /\ MessageHash(logs) = << m, m >>
            /\ WithdrawalHash(logs) = m
            /\ LastSent(logs) = m
<1> DEFINE logs == ReceiptOf("L2", ms)
           n == Len(ms)
           m == ms[n]
<1>1. n \in Nat /\ n > 0
  OBVIOUS
<1>2. logs = [j \in 1 .. 3 * n + 3 |->
                IF j <= 3 * n
                  THEN LogsOf("L2", ms[((j - 1) \div 3) + 1])[((j - 1) % 3) + 1]
                  ELSE OtherLogs[j - 3 * n]]
  BY DEF ReceiptOf, LogsPerMessage
<1>3. Len(logs) = 3 * n + 3 /\ Len(logs) \in Nat
  BY <1>1, <1>2
<1>4. ASSUME NEW j \in 1 .. n
      PROVE  /\ logs[3 * j - 2] =
                  ReceiptLog("L2ToL1MessagePasser", "MessagePassed", ms[j])
             /\ logs[3 * j - 1] =
                  ReceiptLog("L2CrossDomainMessenger", "SentMessage", ms[j])
             /\ logs[3 * j] = ReceiptLog("L2CrossDomainMessenger",
                                         "SentMessageExtension1", ms[j])
  <2>1. /\ 3 * j \in 1 .. 3 * n + 3 /\ 3 * j <= 3 * n
        /\ 3 * j - 1 \in 1 .. 3 * n + 3 /\ 3 * j - 1 <= 3 * n
        /\ 3 * j - 2 \in 1 .. 3 * n + 3 /\ 3 * j - 2 <= 3 * n
    BY <1>1
  <2>2. /\ ((3 * j - 1) \div 3) + 1 = j /\ ((3 * j - 1) % 3) + 1 = 3
        /\ ((3 * j - 1 - 1) \div 3) + 1 = j /\ ((3 * j - 1 - 1) % 3) + 1 = 2
        /\ ((3 * j - 2 - 1) \div 3) + 1 = j /\ ((3 * j - 2 - 1) % 3) + 1 = 1
    OBVIOUS
  <2>3. /\ logs[3 * j] = LogsOf("L2", ms[j])[3]
        /\ logs[3 * j - 1] = LogsOf("L2", ms[j])[2]
        /\ logs[3 * j - 2] = LogsOf("L2", ms[j])[1]
    BY <1>2, <2>1, <2>2
  <2> QED  BY <2>3 DEF LogsOf
<1>5. /\ logs[3 * n + 1] = OtherLogs[1]
      /\ logs[3 * n + 2] = OtherLogs[2]
      /\ logs[3 * n + 3] = OtherLogs[3]
  <2>1. ASSUME NEW i \in 1 .. 3
        PROVE  logs[3 * n + i] = OtherLogs[i]
    <3>1. /\ 3 * n + i \in 1 .. 3 * n + 3 /\ ~(3 * n + i <= 3 * n)
          /\ 3 * n + i - 3 * n = i
      BY <1>1
    <3> QED  BY <1>2, <3>1
  <2> QED  BY <2>1
<1> HIDE DEF logs
<1>6. /\ 3 * n \in 1 .. Len(logs) /\ 3 * n - 1 \in 1 .. Len(logs)
      /\ 3 * n - 2 \in 1 .. Len(logs)
      /\ logs[3 * n - 2] =
           ReceiptLog("L2ToL1MessagePasser", "MessagePassed", m)
      /\ logs[3 * n - 1] =
           ReceiptLog("L2CrossDomainMessenger", "SentMessage", m)
      /\ logs[3 * n] =
           ReceiptLog("L2CrossDomainMessenger", "SentMessageExtension1", m)
  <2>1. n \in 1 .. n
    BY <1>1
  <2> QED  BY <1>1, <1>3, <1>4, <2>1
<1> HIDE DEF n, m
<1>7. ASSUME NEW j \in 3 * n + 1 .. Len(logs)
      PROVE  /\ logs[j].emitter \in Messengers =>
                  logs[j].topic = "RelayedMessage"
             /\ logs[j].emitter # "L2ToL1MessagePasser"
             /\ logs[j].topic # "SentMessageExtension1"
  <2>1. j = 3 * n + 1 \/ j = 3 * n + 2 \/ j = 3 * n + 3
    BY <1>1, <1>3
  <2>2. logs[j] \in {OtherLogs[1], OtherLogs[2], OtherLogs[3]}
    BY <1>5, <2>1
  <2> QED  BY <2>2 DEF OtherLogs, ReceiptLog, Messengers
<1>8. LastOf(logs, Messengers, "SentMessage") = m
  <2>1. /\ 3 * n - 1 \in 1 .. Len(logs)
        /\ logs[3 * n - 1].emitter \in Messengers
        /\ logs[3 * n - 1].topic = "SentMessage"
    BY <1>6 DEF ReceiptLog, Messengers
  <2>2. logs[3 * n].topic # "SentMessage"
    BY <1>6 DEF ReceiptLog
  <2>3. \A j \in 1 .. Len(logs) :
          logs[j].emitter \in Messengers /\ logs[j].topic = "SentMessage"
            => j <= 3 * n - 1
    BY <1>1, <1>3, <1>7, <2>2
  <2>4. LastOf(logs, Messengers, "SentMessage") =
          logs[3 * n - 1].message
    BY <1>3, <2>1, <2>3, LastOfIs
  <2> QED  BY <1>6, <2>4 DEF ReceiptLog
<1>9. /\ LastOf(logs, Messengers, "SentMessageExtension1") = m
      /\ LastSent(logs) = m
  <2>1. /\ 3 * n \in 1 .. Len(logs)
        /\ logs[3 * n].emitter \in Messengers
        /\ logs[3 * n].topic = "SentMessageExtension1"
    BY <1>6 DEF ReceiptLog, Messengers
  <2>2. \A j \in 1 .. Len(logs) :
          logs[j].topic = "SentMessageExtension1" => j <= 3 * n
    BY <1>1, <1>3, <1>7
  <2>3. LastOf(logs, Messengers, "SentMessageExtension1") = logs[3 * n].message
    BY <1>3, <2>1, <2>2, LastOfIs
  <2>4. LastSent(logs) = logs[3 * n].message
    BY <1>3, <2>1, <2>2, LastSentIs
  <2> QED  BY <1>6, <2>3, <2>4 DEF ReceiptLog
<1>10. WithdrawalHash(logs) = m
  <2> DEFINE passers == {"L2ToL1MessagePasser"}
  <2>1. /\ 3 * n - 2 \in 1 .. Len(logs)
        /\ logs[3 * n - 2].emitter \in passers
        /\ logs[3 * n - 2].topic = "MessagePassed"
    BY <1>6 DEF ReceiptLog
  <2>2. /\ logs[3 * n].emitter \notin passers
        /\ logs[3 * n - 1].emitter \notin passers
    BY <1>6 DEF ReceiptLog
  <2>3. \A j \in 1 .. Len(logs) :
          logs[j].emitter \in passers /\ logs[j].topic = "MessagePassed"
            => j <= 3 * n - 2
    BY <1>1, <1>3, <1>7, <2>2
  <2> HIDE DEF passers
  <2>4. LastOf(logs, passers, "MessagePassed") = logs[3 * n - 2].message
    BY <1>3, <2>1, <2>3, LastOfIs
  <2> QED  BY <1>6, <2>4 DEF ReceiptLog, WithdrawalHash, passers
<1> QED  BY <1>8, <1>9, <1>10 DEF MessageHash, logs, n, m

\* A transaction that sends a message has an event among those that carry
\* tokens or among those that do not.
LEMMA SenderHasEvent ==
  ASSUME NEW order, NEW sends \in Sent, NEW carries \in [Messages -> BOOLEAN],
         NEW t \in Txs
  PROVE  \E tokens \in BOOLEAN :
           \A list \in EventsOf(order, sends, carries, tokens) : t \in Range(list)
<1>1. sends[t] \in Seq(Messages) /\ sends[t] # << >>
  BY CollectorAssumption
<1>2. 1 \in DOMAIN sends[t] /\ sends[t][1] \in Messages
  BY <1>1
<1> DEFINE tokens == carries[sends[t][1]]
           its == {i \in DOMAIN sends[t] : carries[sends[t][i]] = tokens}
<1>3. tokens \in BOOLEAN
  BY <1>2
<1>4. IsFiniteSet(its) /\ 1 \in its
  <2>1. DOMAIN sends[t] = 1 .. Len(sends[t]) /\ Len(sends[t]) \in Nat
    BY <1>1
  <2>2. IsFiniteSet(1 .. Len(sends[t]))
    BY <2>1, FS_Interval
  <2> QED  BY <1>2, <2>1, <2>2, FS_Subset
<1>5. Cardinality(its) # 0
  <2> HIDE DEF its
  <2> QED  BY <1>4, FS_EmptySet
<1>6. ASSUME NEW list \in EventsOf(order, sends, carries, tokens)
      PROVE  t \in Range(list)
  <2> DEFINE places == {p \in DOMAIN list : list[p] = t}
  <2>1. Cardinality(places) = Cardinality(its)
    BY DEF EventsOf, CountOf
  <2>2. places # {}
    <3> HIDE DEF places, its
    <3> QED  BY <1>5, <2>1, FS_EmptySet
  <2> QED  BY <2>2 DEF Range
<1> HIDE DEF tokens
<1> QED  BY <1>3, <1>6

\* The ranges that the collection starts from.
LEMMA InitGivesLastMessage == CollectorInit => ReceiptsGiveLastMessage
<1> SUFFICES ASSUME CollectorInit  PROVE ReceiptsGiveLastMessage
  OBVIOUS
<1>1. PICK order \in SetToSeqs(Txs), sends \in Sent,
           carries \in [Messages -> BOOLEAN] :
        /\ receipts = [t \in Txs |-> ReceiptOf(side, sends[t])]
        /\ \E ofEther \in EventsOf(order, sends, carries, FALSE),
              ofTokens \in EventsOf(order, sends, carries, TRUE) :
             events = [tokens \in BOOLEAN |->
                         IF tokens THEN ofTokens ELSE ofEther]
  BY Zenon DEF CollectorInit
<1>2. \A tokens \in BOOLEAN :
        events[tokens] \in EventsOf(order, sends, carries, tokens)
  BY <1>1, Zenon
<1>3. events \in [BOOLEAN -> Seq(Txs)]
  <2>1. \A list \in BoundedSeq(Txs, MaxEvents) : list \in Seq(Txs)
    BY CollectorAssumption DEF BoundedSeq, SeqOf
  <2>2. \A tokens \in BOOLEAN : events[tokens] \in Seq(Txs)
    BY <1>2, <2>1, Zenon DEF EventsOf
  <2>3. events = [tokens \in BOOLEAN |-> events[tokens]]
    BY <1>1, Zenon
  <2> QED  BY <2>2, <2>3, Zenon
<1>4. ASSUME NEW t \in Txs
      PROVE  \E tokens \in BOOLEAN : t \in Range(events[tokens])
  BY <1>2, SenderHasEvent, Zenon
<1>5. ASSUME NEW t \in Txs
      PROVE  /\ HashesOf(receipts[t]) = SentLast(t)
             /\ SentLast(t) \in (Messages \X Messages) \X (Messages \cup {NoHash})
  <2> DEFINE ms == sends[t]
             m == ms[Len(ms)]
  <2>1. ms \in Seq(Messages) \ {<< >>} /\ receipts[t] = ReceiptOf(side, ms)
    BY <1>1, CollectorAssumption
  <2>2. m \in Messages
    BY <2>1
  <2> HIDE DEF ms
  <2>3. CASE side = "L1"
    <3>1. MessageHash(receipts[t]) = << m, m >> /\ LastSent(receipts[t]) = m
      BY <2>1, <2>3, ReceiptOnL1
    <3> QED  BY <2>2, <2>3, <3>1 DEF HashesOf, SentLast
  <2>4. CASE side = "L2"
    <3>1. /\ MessageHash(receipts[t]) = << m, m >> /\ LastSent(receipts[t]) = m
          /\ WithdrawalHash(receipts[t]) = m
      BY <2>1, <2>4, ReceiptOnL2
    <3> QED  BY <2>2, <2>4, <3>1 DEF HashesOf, SentLast
  <2> QED  BY <2>3, <2>4 DEF CollectorInit, Sides
<1> QED  BY <1>3, <1>4, <1>5 DEF ReceiptsGiveLastMessage

-----------------------------------------------------------------------------
(***************************************************************************)
(* Every step of the collection is one of BatchWrite or does not show.     *)
(***************************************************************************)
\* A set of places in a batch that is not empty has a last one.
LEMMA LastPlace ==
  ASSUME NEW n \in Nat, NEW places \in SUBSET (1 .. n), places # {}
  PROVE  \E i \in places : \A j \in places : j <= i
<1> DEFINE distances == {n - i : i \in places}
<1>1. distances \subseteq Nat /\ distances # {}
  <2>1. \A i \in places : i \in Nat /\ i <= n
    OBVIOUS
  <2>2. \A i \in places : n - i \in Nat
    BY <2>1
  <2> QED  BY <2>2
<1>2. PICK x \in distances :
        \A y \in distances : << y, x >> \notin OpToRel(<, Nat)
  BY <1>1, NatLessThanWellFounded, WFMin
<1>3. \A y \in distances : ~(y < x)
  BY <1>1, <1>2 DEF OpToRel
<1>4. PICK i \in places : x = n - i
  BY <1>2
<1>5. \A j \in places : j <= i
  <2> SUFFICES ASSUME NEW j \in places  PROVE j <= i
    OBVIOUS
  <2>1. ~(n - j < n - i)
    BY <1>3, <1>4
  <2> QED  BY <2>1
<1> QED  BY <1>4, <1>5

\* The documents that a bulk write has upserted are the right ones.
LEMMA UpsertIsRight ==
  ASSUME RangeInv, pc = "write", NEW upserted \in SUBSET DOMAIN batch,
         Upsert(upserted)
  PROVE  documents' = [t \in Txs |-> IF \E i \in upserted : batch[i].tx = t
                                       THEN SentLast(t) ELSE documents[t]]
<1>1. /\ DOMAIN documents = Txs /\ batch \in Seq(Rows)
      /\ \A i \in DOMAIN batch : RowRight(batch[i])
  BY DEF RangeInv, BatchRight, RowOpen, Stopped
<1>2. ASSUME NEW t \in Txs, \E i \in upserted : batch[i].tx = t
      PROVE  LET i == CHOOSE i \in upserted :
                        /\ batch[i].tx = t
                        /\ \A j \in upserted : batch[j].tx = t => j <= i
             IN << batch[i].messageHash, batch[i].withdrawalHash >> = SentLast(t)
  <2> DEFINE places == {i \in upserted : batch[i].tx = t}
  <2>1. PICK i \in places : \A j \in places : j <= i
    <3>1. Len(batch) \in Nat /\ places \in SUBSET (1 .. Len(batch))
      BY <1>1
    <3>2. places # {}
      BY <1>2
    <3> QED  BY <3>1, <3>2, LastPlace
  <2>2. \E k \in upserted :
           /\ batch[k].tx = t
           /\ \A j \in upserted : batch[j].tx = t => j <= k
    BY <2>1
  <2>3. ASSUME NEW k \in upserted, batch[k].tx = t
        PROVE  << batch[k].messageHash, batch[k].withdrawalHash >> = SentLast(t)
    BY <1>1, <2>3 DEF RowRight, Hashes
  <2> QED  BY <2>2, <2>3
<1> QED  BY <1>1, <1>2, Zenon DEF Upsert

\* No step changes the range.
LEMMA WorldStays == [CollectorNext]_collectorVars => UNCHANGED worldVars
BY DEF CollectorNext, Call, CallAnswers, FilterAnswers, ReceiptAnswers,
       BlockAnswers, TimestampAnswers, WithdrawalReceiptAnswers,
       WriteSucceeds, NotFound, CallFails, TimestampFails, WriteFails,
       ParsingFails, CallHangs, WriteHangs, StartAgain, GoTo, Proceed,
       WriteReturns, collectorVars

\* Every step is one of BatchWrite or does not show.
LEMMA CollectorShows ==
  ASSUME RangeInv, [CollectorNext]_collectorVars
  PROVE  [Promise!BatchNext]_(Promise!batchVars)
<1> DEFINE right == [t \in Txs |-> SentLast(t)]
<1>1. right' = right /\ DOMAIN right = Txs
  <2>1. UNCHANGED worldVars
    BY WorldStays
  <2>2. \A t \in Txs : SentLast(t)' = SentLast(t)
    BY <2>1, RangeStays DEF RangeInv
  <2> QED  BY <2>2, Zenon
<1>2. DOMAIN documents = Txs /\ documents = [t \in Txs |-> documents[t]]
  BY DEF RangeInv
<1>3. CASE UNCHANGED << documents, answer >>
  BY <1>1, <1>3 DEF Promise!batchVars
<1>4. CASE WriteSucceeds
  <2>1. /\ pc = "write" /\ Upsert(DOMAIN batch) /\ answer = "none"
        /\ answer' = "nil"
    BY <1>4 DEF WriteSucceeds, WriteReturns, RangeInv
  <2>2. documents' = [t \in Txs |-> IF \E i \in DOMAIN batch : batch[i].tx = t
                                       THEN SentLast(t) ELSE documents[t]]
    BY <2>1, UpsertIsRight
  <2>3. ASSUME NEW t \in Txs
        PROVE  \E i \in DOMAIN batch : batch[i].tx = t
    <3>1. /\ ReceiptsGiveLastMessage
          /\ \A tokens \in BOOLEAN : AllCollected(batch, tokens)
      BY <2>1, Zenon DEF RangeInv, LoopsRight, Stopped
    <3>2. PICK tokens \in BOOLEAN : t \in Range(events[tokens])
      BY <3>1 DEF ReceiptsGiveLastMessage
    <3>3. events[tokens] \in Seq(Txs)
      BY <3>1, Zenon DEF ReceiptsGiveLastMessage
    <3>4. PICK p \in 1 .. Len(events[tokens]) : events[tokens][p] = t
      BY <3>2, <3>3 DEF Range
    <3>5. AllCollected(batch, tokens)
      BY <3>1, Zenon
    <3> QED  BY <3>4, <3>5, Zenon DEF AllCollected, Collected, HasRow
  <2>4. documents' = right
    BY <2>2, <2>3, Zenon
  <2> QED  BY <1>1, <2>1, <2>4 DEF Promise!BatchNext, Promise!WriteDocuments
<1>5. CASE WriteFails \/ WriteHangs
  <2>1. PICK upserted \in SUBSET DOMAIN batch :
          /\ pc = "write" /\ Upsert(upserted)
          /\ answer' \in {"error", answer}
    BY <1>5 DEF WriteFails, WriteHangs, WriteReturns
  <2>2. /\ pc = "write" /\ Upsert(upserted) /\ answer = "none"
        /\ answer' \in {"none", "error"}
    BY <2>1 DEF RangeInv
  <2> DEFINE part == {t \in Txs : \E i \in upserted : batch[i].tx = t}
  <2>3. documents' = [t \in Txs |-> IF t \in part
                                       THEN right[t] ELSE documents[t]]
    BY <2>2, UpsertIsRight
  <2>4. part \in SUBSET Txs
    OBVIOUS
  <2> HIDE DEF part, right
  <2> QED
    BY <1>1, <2>2, <2>3, <2>4
    DEF Promise!BatchNext, Promise!WritePart, right
<1>6. CASE /\ NotFound \/ CallFails \/ TimestampFails \/ ParsingFails
           /\ ~UNCHANGED << documents, answer >>
  <2>1. answer = "none" /\ answer' = "error" /\ documents' = documents
    BY <1>6
    DEF NotFound, CallFails, TimestampFails, ParsingFails, TryAgainOrGiveUp,
        GiveUp, RangeInv, RetriedCalls
  <2>2. documents' = [t \in Txs |-> IF t \in {} THEN right[t] ELSE documents[t]]
    BY <1>2, <2>1
  <2>3. \E part \in SUBSET Txs :
          documents' = [t \in Txs |-> IF t \in part
                                        THEN right[t] ELSE documents[t]]
    <3> HIDE DEF right
    <3>1. {} \in SUBSET Txs
      OBVIOUS
    <3> QED  BY <2>2, <3>1, Zenon
  <2> QED
    BY <1>1, <2>1, <2>3 DEF Promise!BatchNext, Promise!WritePart
<1>7. CASE StartAgain
  <2>1. answer' = "none" /\ documents' = documents
    BY <1>7 DEF StartAgain
  <2>2. answer \in {"none", "error"}
    BY <1>7 DEF StartAgain, RangeInv
  <2> QED  BY <1>1, <1>3, <2>1, <2>2 DEF Promise!BatchNext, Promise!DoAgain
<1>8. CASE \/ CallHangs \/ FilterAnswers \/ ReceiptAnswers \/ BlockAnswers
           \/ TimestampAnswers \/ WithdrawalReceiptAnswers
           \/ UNCHANGED collectorVars
  BY <1>3, <1>8
  DEF CallHangs, FilterAnswers, ReceiptAnswers, BlockAnswers,
      TimestampAnswers, WithdrawalReceiptAnswers, GoTo, Proceed, collectorVars
<1> QED
  BY <1>3, <1>4, <1>5, <1>6, <1>7, <1>8 DEF CollectorNext, Call, CallAnswers

\* Of the receipt of each transaction of a range, however many messages it
\* sent and on either side, the parsing finds the hashes of the last one, and
\* each transaction has an event; the range does not change while it is read.
THEOREM ParsingGivesLastMessage == Spec => []ReceiptsGiveLastMessage
<1>1. Init => RangeInv
  BY InitRangeInv, InitGivesLastMessage DEF Init
<1>2. RangeInv /\ [Next]_vars => RangeInv'
  BY UseSteps, NextRangeInv
<1>3. RangeInv => ReceiptsGiveLastMessage
  BY DEF RangeInv
<1> QED
  BY <1>1, <1>2, <1>3, PTL DEF Spec

\* With any number of transactions, messages and events: however calls fail and
\* the range is begun again, the database only gets the hashes of the last
\* message of each transaction, and has them all when the function returns nil.
THEOREM CollectionWritesTheBatch == Spec => WritesTheBatch
<1>1. Init => RangeInv
  BY InitRangeInv, InitGivesLastMessage DEF Init
<1>2. Init => Promise!BatchInit
  BY DEF Init, CollectorInit, Promise!BatchInit
<1>3. RangeInv /\ [Next]_vars => RangeInv'
  BY UseSteps, NextRangeInv
<1>4. RangeInv /\ [Next]_vars => [Promise!BatchNext]_(Promise!batchVars)
  BY UseSteps, CollectorShows
<1> QED
  BY <1>1, <1>2, <1>3, <1>4, PTL DEF Spec, WritesTheBatch, Promise!BatchSpec

-----------------------------------------------------------------------------
(***************************************************************************)
(* The types of all three.                                                 *)
(***************************************************************************)
\* What a call that ends the collection leaves alone.
LEMMA EndKeepsPlace ==
  ASSUME [CollectorNext]_collectorVars, Stopped'
  PROVE  UNCHANGED << events, erc20, position, batch >>
BY DEF CollectorNext, Call, CallAnswers, FilterAnswers, ReceiptAnswers,
       BlockAnswers, TimestampAnswers, WithdrawalReceiptAnswers, WriteSucceeds,
       NotFound, CallFails, TimestampFails, WriteFails, ParsingFails,
       CallHangs, WriteHangs, StartAgain, GoTo, Proceed, WriteReturns,
       TryAgainOrGiveUp, GiveUp, Stopped, collectorVars, worldVars

RowTyped(row) ==
  /\ row.tx \in Txs
  /\ row.messageHash \in Messages \X Messages
  /\ row.withdrawalHash \in Messages \cup {NoHash}

CountsTyped ==
  /\ pc \in RetriedCalls \cup SingleCalls \cup {"returned", "hung"}
  /\ answer \in {"none", "nil", "error"}
  /\ retriedFailures \in 0 .. MaxFailures
  /\ singleFailures \in 0 .. 1

\* Answers, calls and failures keep their types.
LEMMA NextCounts ==
  ASSUME CollectorInv, CountsTyped, [CollectorNext]_collectorVars
  PROVE  CountsTyped'
<1> USE CollectorAssumption DEF CountsTyped, RetriedCalls, SingleCalls
<1>1. CASE FilterAnswers \/ BlockAnswers
  BY <1>1 DEF FilterAnswers, BlockAnswers, GoTo, Proceed
<1>2. CASE ReceiptAnswers \/ TimestampAnswers
  BY <1>2 DEF ReceiptAnswers, TimestampAnswers, Proceed
<1>3. CASE WithdrawalReceiptAnswers
  BY <1>3 DEF WithdrawalReceiptAnswers, GoTo, Proceed
<1>4. CASE NotFound \/ CallFails
  BY <1>4 DEF NotFound, CallFails, TryAgainOrGiveUp, GiveUp
<1>5. CASE WriteSucceeds \/ WriteFails \/ TimestampFails
  BY <1>5
  DEF WriteSucceeds, WriteFails, TimestampFails, WriteReturns, CollectorInv,
      FailsOnce
<1>6. CASE \/ ParsingFails \/ CallHangs \/ WriteHangs
           \/ StartAgain \/ UNCHANGED collectorVars
  BY <1>6 DEF ParsingFails, CallHangs, WriteHangs, StartAgain, collectorVars
<1> QED
  BY <1>1, <1>2, <1>3, <1>4, <1>5, <1>6 DEF CollectorNext, Call, CallAnswers

PlaceTyped ==
  /\ position \in 0 .. Len(events[erc20])
  /\ \A i \in DOMAIN batch : RowTyped(batch[i])

\* While the function runs, the invariant says more than the types.
LEMMA RangeIsTyped == RangeInv /\ ~Stopped => PlaceTyped
<1> SUFFICES ASSUME RangeInv, ~Stopped  PROVE PlaceTyped
  OBVIOUS
<1>1. position \in 0 .. Len(events[erc20])
  BY DEF RangeInv, LoopsRight
<1>2. batch \in Seq(Rows)
  BY DEF RangeInv, BatchRight
<1>3. \A i \in DOMAIN batch : batch[i] \in Rows
  BY <1>2
<1>4. \A row \in Rows : RowTyped(row)
  BY DEF Rows, RowTyped
<1> QED  BY <1>1, <1>3, <1>4, Zenon DEF PlaceTyped

ReadingTypes ==
  /\ IteratorInv
  /\ WatchFlags /\ WatchInv
  /\ RangeInv /\ CollectorInv /\ CountsTyped /\ PlaceTyped
  /\ unreadable \in Unreadable
  /\ use \in {"Filter", "Watch", "Collect"}

\* Every variable of the three keeps its type.
THEOREM ReadingTypeCorrect == Spec => []TypeOK
<1>1. Init => ReadingTypes
  <2> SUFFICES ASSUME Init  PROVE ReadingTypes
    OBVIOUS
  <2>1. IteratorInv /\ WatchInv /\ RangeInv
    BY IteratorInitInv, WatchInitInv, InitRangeInv, InitGivesLastMessage
    DEF Init
  <2>2. WatchFlags /\ unreadable \in Unreadable
    BY Zenon DEF Init, WatchInit, WatchFlags, CollectorInit
  <2>3. CollectorInv /\ CountsTyped /\ ~Stopped
    BY CollectorAssumption
    DEF Init, CollectorInit, CollectorInv, CountsTyped, AttemptsFailed,
        AtEvent, FailsOnce, TransientFailuresSurvived, RetriedCalls, KnownToNode,
        Stopped
  <2> QED  BY <2>1, <2>2, <2>3, RangeIsTyped DEF Init, ReadingTypes
<1>2. ReadingTypes /\ [Next]_vars => ReadingTypes'
  <2> SUFFICES ASSUME ReadingTypes, [Next]_vars  PROVE ReadingTypes'
    OBVIOUS
  <2>1. /\ [IteratorNext]_iteratorVars /\ [WatchNext]_watchVars
        /\ [CollectorNext]_collectorVars /\ use' = use
    BY UseSteps DEF Next, vars
  <2>2. IteratorInv' /\ WatchFlags' /\ WatchInv'
    BY <2>1, IteratorNextInv, WatchFlagsStay, WatchNextInv DEF ReadingTypes
  <2>3. RangeInv' /\ CollectorInv' /\ CountsTyped'
    BY <2>1, NextRangeInv, CollectorNextInv, NextCounts DEF ReadingTypes
  <2>6. unreadable' \in Unreadable
    BY <2>1, WorldStays DEF worldVars, ReadingTypes
  <2>4. CASE Stopped'
    <3>1. UNCHANGED << events, erc20, position, batch >>
      BY <2>1, <2>4, EndKeepsPlace
    <3>2. PlaceTyped'
      BY <3>1 DEF ReadingTypes, PlaceTyped, RowTyped
    <3> QED  BY <2>1, <2>2, <2>3, <2>6, <3>2 DEF ReadingTypes
  <2>5. CASE ~Stopped'
    <3>1. position' \in 0 .. Len(events[erc20])'
      BY <2>3, <2>5 DEF RangeInv, LoopsRight
    <3>2. batch' \in Seq(Rows)
      BY <2>3, <2>5 DEF RangeInv, BatchRight
    <3>3. \A i \in DOMAIN batch' : batch'[i] \in Rows
      BY <3>2
    <3>4. \A row \in Rows : RowTyped(row)
      BY DEF Rows, RowTyped
    <3>5. PlaceTyped'
      BY <3>1, <3>3, <3>4, Zenon DEF PlaceTyped, RowTyped
    <3> QED  BY <2>1, <2>2, <2>3, <2>6, <3>5 DEF ReadingTypes
  <2> QED  BY <2>4, <2>5
<1>3. ReadingTypes => TypeOK
  <2> SUFFICES ASSUME ReadingTypes  PROVE TypeOK
    OBVIOUS
  <2>1. IteratorTypeOK
    BY IteratorInvTyped DEF ReadingTypes
  <2>2. WatchTypeOK
    BY Zenon DEF ReadingTypes, WatchFlags, WatchInv, WatchCounts, WatchTypeOK
  <2>3. CollectorTypeOK
    BY Zenon
    DEF ReadingTypes, CollectorInv, AttemptsFailed, CountsTyped, PlaceTyped,
        RowTyped, CollectorTypeOK
  <2> QED  BY <2>1, <2>2, <2>3 DEF ReadingTypes, TypeOK
<1> QED  BY <1>1, <1>2, <1>3, PTL DEF Spec
=============================================================================
