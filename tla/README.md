# Verification of ll-bridge-api

TLA+ specifications of the indexer of this repository, the TLC configurations
that check them on small instances, and proofs that TLAPS checks for every
value of the constants. `PROJECT.json` lists the runs, maps each definition to
the lines it models, and lists the hazards the properties are for.

## 1. Inventory

| Component | Source | State it keeps | Operations | Modelled in |
|---|---|---|---|---|
| Ethereum loop | `indexer/indexer_ethereum.go:18-326` | locals `start`, `end`, an iterator, one portal answer | choose a batch; deposits, proven, finalized, outputs; record the end | `EthereumIndexer`, `Batches` |
| LightLink loop | `indexer/indexer_lightlink.go` | locals `start`, `end`, an iterator | choose a batch; withdrawals, relayed messages; record the end | `LightLinkIndexer`, `Batches` |
| Status checkers | `indexer/indexer_ethereum.go:328-445` | the list a round works through | list, look up, write; three goroutines | `StatusCheckers` |
| Database | `database/*.go`, `database/models` | four collections | upserts, filtered updates, queries | `TransactionStore` |
| Process | `indexer/indexer.go:46-108`, `cmd/main.go` | channels, context, first error | start up, run the loops, end, restart | `Startup`, `RunLoop`, `BridgeIndexer` |
| Bindings | `contracts/*` (generated) | an iterator: channel, subscription, `done`, `fail` | `Filter`, `Next`, `Close`, `Watch` for 38 events | `ContractEvents`, `EventIterator`, `EventSubscription` |
| Chains and contracts | RPC nodes | blocks, logs, the portal's mapping | mine a block with at most one event | `Chains` (external) |
| API | `api/*.go`, `database/transaction.go:17-129`, `database/database.go:112-153` | none | list with counts and pages, get by hash | `TransactionsApi` |
| RPC clients | `ethereum/*.go`, `lightlink/*.go` | none | five attempts two seconds apart, or one attempt | `BatchCollector` |
| Receipt parsing | `indexer/indexer.go:110-201` | none | find the message of a bridge call | `BatchCollector` |
| Indexes | `database/database.go:33-110` | the unique indexes | connect, create | `Startup` |

The components interact through the database alone. The loops take logs from
the chains, write documents and set their `status`; the checkers read
documents and set the same `status` field; the API reads. No operation reads
and writes in one transaction and no write looks at the status it replaces.
Go channels are used only between the two loops and `Run`, and the context
only to tell them to stop.

What is hard about this code:

* **Interleaving.** Five goroutines write one field. The loops of the two
  chains are not synchronised, so an event of one chain is often indexed
  before the event of the other that it refers to.
* **Stale state.** A checker lists documents, makes further calls, and then
  writes. The Ethereum loop asks the portal for its *latest* state while it
  works through older logs.
* **Crashes.** A batch is many writes, and its end is recorded last. A process
  that ends in between replays the batch, over statuses that have moved on.
* **Partial failure.** A bulk write may be done in part; a failed read of the
  record is taken for "nothing indexed yet"; a checker that meets an error ends
  silently while the loops go on.
* **Reads without a snapshot.** A request of the API makes four queries and two
  lookups, each at its own time, and a client asks for one page after the other
  while documents are inserted.
* **Goroutines of the library.** An iterator is fed by a goroutine over a bounded
  channel, beside a channel for its end; which of the two `Next` sees first
  is up to the scheduler.
* **Retries.** Most calls are tried five times, some once, and the receipt of an
  L2 transaction is asked for on the wrong chain first.
* **Boundaries.** Batches include both ends; the challenge period is over
  strictly after its last second; `(page - 1) * pageSize` may overflow.

What makes each part correct: a status is never ahead of what the chains say
(`StatusJustified`); once a batch is recorded, nothing of its blocks is missing
(`IndexedBlocksComplete`); the record only moves forward
(`LastIndexedBlockMonotone`); a proven record has the time of the last proof
(`ProofTimeCurrent`); documents are not reset without a fault
(`StatusResetOnlyAfterFault`), nor set back by the loops (`LoopsFollowFlow`); in the end the database shows what the chains
say (`EventuallyMirrorsChain`); and the process ends when a loop fails
(`ProcessEnds`). An iterator loses no log (`ReadsEveryLog`) and blocks nobody
(`CallsReturn`); a range of blocks is written whole or done again
(`WritesTheBatch`); a client that walks through the pages is shown everything
(`WalkMissesNothing`).

## 2. Modules

```
Chains                 the two chains, external
  TransactionStore     the collections and the operations on them
    EthereumIndexer    (with Batches)   the L1 goroutine
    LightLinkIndexer   (with Batches)   the L2 goroutine
    StatusCheckers     the three checkers
      BridgeIndexer    all of them with faults and restarts; the properties
        (implements StatusMirror)
        MCBridgeIndexer, MCProgress     instances for TLC
        BridgeIndexerProofs             types, StatusJustified
          CompletenessProofs            IndexedBlocksComplete, the record
            StatusProofs                StatusResetOnlyAfterFault, StatusMirror,
                                        LoopsFollowFlow
            PortalProofs                ProofTimeCurrent
StatusMirror           abstract: what the indexer promises of its database
  TransactionsApi      the API over any indexer that keeps that promise
    MCTransactionsApi
    TransactionsApiProofs   types, tabs, pages, walks, ready for relay
LogReading             abstract: a query's logs, in order, each once
BatchWrite             abstract: a range's documents, written whole or again
ContractEvents         the events of the six bindings
  EventIterator        Filter, Next, Close     (implements LogReading)
  EventSubscription    Watch
BatchCollector         one range, call by call (implements BatchWrite)
  MCEventReading       the last three
    EventReadingProofs types, LogReading, receipts, failures, BatchWrite
Startup                the calls before anything is indexed
  RunLoop              Run and main: channels, signal, exit
    RunLoopProofs      types, channels, errors, indexes
BatchArithmetic        Batches in the unsigned words of the code; proofs
```

**Chains.** Heads, logs of each event, the portal's `provenWithdrawals`, and a
clock. None of it is code of this repository; it is modelled from the contract
ABI and from what the indexer relies on. A withdrawal is initiated on L2,
covered by an output proposed on L1, proven, and finalized strictly after the
challenge period. Whether it may be proven again and whether outputs may be
rolled back are constants (`AllowReproof`, `AllowRollback`), since the ABI
permits both.

**TransactionStore.** A transaction document is its status; `NoDocument` stands
for "not inserted". `BatchCreateTransactions` is the upsert that sets every
field (`transaction.go:131-199`), hence also the status of a document that was
there. `SetStatus` is the filtered update that changes nothing and reports
nothing when no document matches. `transactions_proven` has at most one record
per withdrawal (unique key), replaced by an upsert.

**EthereumIndexer / LightLinkIndexer.** `ethPc` is the place in the goroutine:
`start` (read the record), `select` (choose the batch), one value per stage and,
inside the loop over the proven logs, one per call: status, portal, record.
`ethTodo` is what the iterator has not returned yet, in block order. An error
of any call is `EthFail`: the loop returns (`failed`). A bulk write that fails
may have done any part of its upserts (`IndexL1DepositsFails`), and so may an
`UpdateMany` (`OutputProposedFails`). Every batch ends with `EthAdvance`, which records the end and moves `start` behind it.

**StatusCheckers.** Per checker: list, then for each document a lookup and a
write as separate steps. The aggregation of the ready checker is a step for its
`$match` (`readyMatched`) and one for each `$lookup`; `readyList` holds the records
*as they were when looked up*, and the writes begin when the query is done.

**BridgeIndexer.** Interleaves the chains, the loops and the checkers.
`LoopFault`, `ReadFault`, `CheckerFault` and `Stop` are bounded by `MaxFaults`.
`Exit` is what follows the return of a loop: `Run` returns, `main` returns, all
goroutines end. `Restart` starts over from the database.

**StatusMirror.** The promise without loops, lists, faults or restarts: the chains
give evidence for the statuses of a transaction, a document appears with its
first status, may be set back to it, and otherwise takes a status there is
evidence for, READY_FOR_RELAY only with a proven record; records stay.
`Mirror` in `BridgeIndexer` maps logs and clock to evidence and the
collections to themselves.

**TransactionsApi.** `step` is the query a request is at. `StatusMirror` writes
between any two of them. The client either asks for any page or walks from page 1 to the
first page that is not full; `unseen` (a history variable of the client) holds
the documents of its beginning it was not shown. `blockTime` is
chosen once, with ties; `$sort` leaves ties in any order. `Wrap` is the
arithmetic of `int64`, whose range is from `-IntLimit` to `IntLimit - 1`: 2^63
in the code, 16 in the run.

**ContractEvents, EventIterator, EventSubscription.** The generator of the bindings writes the
same iterator, `Filter`, `Watch` and `Parse` for each event. An event is
therefore the triple of contract, name and indexed arguments; the code is
modelled once and instantiated with each of the 38 events, and the lines of
`ContractEvents` in `PROJECT.json` are those of the generated copies. (The
copies were compared: they differ in names, types and in the `Rule` of each indexed
argument only. The lines named are the whole block for the events the program reads,
and the struct and its `Filter` for the others.) The program filters eight of the events and
calls neither `Watch` nor `Close`: those are modelled because the bindings offer them. The goroutine that sends the logs of `FilterLogs` over the channel, and the
`quit` channel of a subscription, are go-ethereum's, modelled from their use.
`NextSeesEnd` and `NextTakesLog` are the two cases of the `select`.

**BatchCollector.** `indexL1Deposits` and `indexL2Withdrawals` with `pc` at the
next call, `attempt` of its client's loop, and `batch` for the slice. A call is
answered, fails, or is never answered (`CallHangs`, `WriteHangs`): the code gives
`context.Background()` to each call and sets no timeout, except in
`GetBlockTimestamp`. A receipt may be one that cannot be parsed or hashed
(`unreadable`), which is an error without a second try (`ParsingFails`). A receipt
is its sequence of logs (`ReceiptOf`): those of one message after those of the other,
then logs of other contracts. A range of events (`EventsOf`) is any list in which a
transaction stands once for each message of the kind, in the order of the chain. In
`BridgeIndexer` each of the two functions is one step, or a failure with a part
of its writes; `BatchWrite` is that step, and the refinement says that the one
step is right: however calls fail or hang and the range is done again, nothing is
ever written but the documents of the range, and `nil` means all of them.

**Startup, RunLoop.** `Calls` are the calls of `main` that can fail, in their order,
with those of `NewIndexer` and `CreateIndexes` in their place; a signal before
`signal.Notify` kills the process. Then the two channels of capacity two, the
`select` that makes two receipts, the signal, `cancel`, and the `os.Exit` of a
server that cannot listen. The loops are reduced to "goes on, fails, or sees
the cancellation".

**BatchArithmetic.** The choice of a batch modulo the size of a word, for
theorems only.

### Abstractions

* `BulkWrite` and `UpdateMany` are one step: each document is written once and
  no operation reads two documents of one collection. Failure in the middle is
  modelled, an interleaving in the middle is not.
* Blocks are final and every RPC call sees the same chain. The code has no
  handling of reorganisations; see the hazards.
* One event per block. Batches span several blocks, so a batch still has
  several events of several kinds.
* The wall clock of the checkers is the time of L1, and the configured
  `FINALIZATION_SECONDS` is the portal's.
* Heights are unbounded naturals here and `uint64` in the code.
* A checker round that lists nothing is left out, as is its sleep; `Waiting` is
  the round of a loop that finds too few blocks.
* In `BridgeIndexer` every log can be unpacked, an error of parsing a receipt is one of
  the faults, a call that fails has used up its attempts, and each call is answered or
  fails. `EventIterator` and `BatchCollector` have what is behind that.
* A MongoDB query reads its collection at one time; a `$lookup` reads the joined
  collection at a time of its own. The lookups are modelled on the page alone: what they join to
  documents of other pages is dropped.
* Filters on addresses and on the transaction hash select by what never changes,
  like the one on the type, which stands for them.
* Evidence only ever makes more writes possible, so `TransactionsApi` starts with
  all of it (`Worlds`).

## 3. Runs

| Run | Instance | What it shows |
|---|---|---|
| `withdrawal` | 1 withdrawal, L1 ≤ 3 blocks, L2 ≤ 2, clock ≤ 3, 1 fault of any kind except an unreadable record | all safety properties over a whole life with an error or a crash anywhere, and that `BridgeIndexer` implements `StatusMirror` |
| `reproof` | 1 withdrawal, L1 ≤ 4, L2 ≤ 1, reproofs, rollbacks, 1 fault, the record may be unreadable | justified and complete all the same; the time of a proof is the portal's; without a fault no loop undoes a status |
| `deposits` | 2 deposits, L1 ≤ 3, L2 ≤ 2, `L1_MIN_BATCH_SIZE` = 1, 1 fault | no deposit is lost or shown as relayed too early |
| `two_withdrawals` | 2 withdrawals, L1 ≤ 3, L2 ≤ 2, batches of up to 3 and 2 blocks, 1 fault | partial bulk writes and a partial `UpdateMany`, lists of two documents |
| `progress` | 1 withdrawal, L1 ≤ 3, L2 ≤ 1, 1 fault, the record may be unreadable | the database catches up with the chains |
| `run_loop` | the start and the two goroutines, a signal or a failure at any time | nothing is indexed without the unique indexes, the process ends, senders never block, the error of the only loop that returned is reported |
| `event_reading` | every event of the bindings, queries of up to 3 logs of which one may not decode, a channel for one; 3 pushed logs; two bridge transactions that send up to two messages, of which one may have a receipt that cannot be parsed, up to 6 failing calls, any call may hang | the iterator loses nothing, iterator and subscription block nobody; what is parsed out of receipts, what a range writes, and which failures end the process or hold it |
| `api` | 3 documents with all orders and ties of their block times, or 2 with all statuses and records; pages of 1, 2 and 10, words from -16 to 15 | walks miss nothing, pages agree with totals, tabs add up, items ready for relay have their proof |
| `status_flow` | no fault | *violated*: a stale list moves RELAYED back to READY_FOR_RELAY |
| `deposit_shown` | no fault | *violated*: a relay indexed before its deposit is lost for good |
| `dead_checker` | a checker may fail | *violated*: READY_TO_PROVE with a proven record for ever |
| `run_waits` | the two goroutines | *violated*: `Run` does not wait for both loops |

**Bounds.** A withdrawal needs four events: one on L2 and an output, a proof and
a finalization on L1; so L1 ≤ 3 is a whole life, and L1 ≤ 4 leaves a block for a
second proof, a rollback or an empty block. A maximum batch of 2 or 3 blocks
with 3 or 4 blocks gives both the catching up in several batches and
several events in one batch. The clock starts at 1; with a challenge period of
one second, 3 is the first time at which a proof of time 1 is final, and the
boundary (`now = time + FinalizationSeconds`) is reached at 2. One fault is
enough for each kind of interruption at each place of the code, with a complete
replay after it. Two withdrawals are enough for a list or a bulk write to be
done in part; they are symmetric, and `two_withdrawals` uses that.

A query of three logs over a channel for one has logs taken, in the
channel and not yet sent at the same time. Six failing calls are one more than
the five attempts of a call, and so reach both the end of the attempts and
failures spread over several calls; two transactions with three messages give
two events in one transaction, in one loop or in both; `MaxEvents` = 3 holds them all.
`MCUnreadable` has no receipt that cannot be parsed, or one: where the message is
parsed, or the withdrawal hash. In `api`, two pages are
enough for a document to be pushed from one to the next; with words from -16
to 15, what page 17 skips is 0 for pages of 2 and 10 and negative for pages of 1, so
both kinds of answer occur (no property asks what such a page holds). Where all orders of block times are tried, documents
keep their first status, and where all statuses are tried, they are of one block:
the order does not depend on statuses.

**Deadlock** is checked in every run but the two of `RunLoop`, where a process
that has ended stays so, and `event_reading`, where a reader that has what it
asked for may stop; calls that block for ever are for `CallsReturn` and
`UnsubscribingEnds` there. In `BridgeIndexer` a loop that has no batch goes on
polling (`Waiting`), so the check says that one loop or checker can always go on.

**Fairness** (`Fairness` in `BridgeIndexer`): weak fairness of each loop, of each
checker, of `Exit` and of `Restart`. Goroutines are scheduled and their sleeps
are finite; `main` returns once `Run` has; a supervisor restarts the process.
Fairness of a loop and of a checker assumes that each of its calls is answered or
fails. That is an assumption on the nodes and the database: the code sets no timeout
(`ClientOpts.Timeout` is not read), and with a call that is never answered
neither `EventuallyMirrorsChain` nor the part of `ProcessEnds` that follows a signal
would hold. Nothing is assumed of the chains, of a second attempt of a failed call, or of
the fault actions. `progress` adds `LaterOutput` (in `MCProgress`): the sequencer
keeps proposing outputs, and each later output covers the blocks of the earlier
ones. The code needs that: an output that is indexed before the withdrawals it
covers changes nothing, and only the next one does. In `RunLoop`, a cancelled
loop reaches the top of its next batch, and the calls of the start answer or fail. In
`EventIterator` the producer and a call that can go on do so; no log has to
be sent to a reader who has stopped. In `EventSubscription` only the goroutine's
quitting and the end of `Unsubscribe` are fair: the sink may never take anything. In
`BatchCollector` a call that has not hung is answered or fails, but any call may hang
(`CallHangs`, `WriteHangs`), and `CollectionReturns` allows for that and for nothing else;
only the timestamp of a block has a timeout (`lightlink.go:124`) and cannot hang. The next
process comes back to the range only if it is started (`StartAgain` is not fair).

`EventuallyMirrorsChain` is checked without checker faults (with one it is false:
`dead_checker`) and for withdrawals only (for deposits it is false:
`deposit_shown`).

## 4. Where code and documentation disagree

The violated runs are listed with their quotes under `findings` in
`PROJECT.json`. Met while modelling, without a run of their own:

* `indexer_ethereum.go:215` and `:266` say that the status is updated "if a
  withdrawal exists with a status of" READY_TO_PROVE, or READY_FOR_RELAY; the
  update has no such filter, and `EventuallyMirrorsChain` depends on that: in a
  batch that holds both the output and the proof, the proof is applied first.
* `README.md:36` names the first status of a deposit READY_FOR_RELAY; the code
  uses UNCONFIRMED_L1_TO_L2_MESSAGE. The two are also in different tabs:
  READY_FOR_RELAY needs action, UNCONFIRMED_L1_TO_L2_MESSAGE is pending.
* `README.md:22` and `:24` document the parameter `page_size`; the handler reads
  `pageSize` (`handle_transactions.go:18`), so that a client who follows the
  README gets pages of 10.
* `indexer_ethereum.go:318` says that the L2 block number of outputs "can never go
  down", but the contract has `rollback` (`CanonicalStateChain.go:771`), and
  RolledBack logs are not read: after a rollback a withdrawal may be READY_TO_PROVE
  without an output that the portal would take a proof for. `StatusJustified` does not
  see it: it asks for an output that was logged.
* `ClientOpts` of both clients has a `Timeout` (`ethereum.go:36`, `lightlink.go:40`) that
  is neither set in `main.go` nor read anywhere: a node that never answers holds its loop
  for ever (`CallHangs`).
* `indexer_ethereum.go:25` takes a failed read of the last indexed block for a
  missing record: with `ReadFaults` = TRUE and two faults (one to end the process and
  one to misread), `LastIndexedBlockMonotone` is violated. The documents
  recover (`reproof`, `progress`), after all blocks have been indexed again.
* The comment on `Next` (`L1StandardBridge.go:1553`) says that after false
  `Error()` can be queried; none of the loops does. A log that cannot be unpacked
  ends its loop like the last one.
* `GetTransactionByHash` makes no lookups: its answer has neither `prove_tx` nor
  `finalize_tx`, which the list has.

## 5. Theorems

TLAPS checks them for every value of the constants: any sets of withdrawals and
deposits, any batch sizes with a positive maximum, any default blocks, heights,
numbers of faults and logs, any capacity of a channel. They assume the named
assumptions of the modules (TLC evaluates them in each run): withdrawal and
deposit hashes are disjoint, numbers are naturals, and for the API that the
transactions are finitely many, fewer than `IntLimit`, since the code counts them
in an `int64`. All safety properties of the passing runs are proved. Before an inductive invariant was proved, TLC checked it
on the run of its component.

### The indexer (`Spec` of `BridgeIndexer`)

* `TypeCorrect`: `Spec => []TypeOK`. `TypeOK` is not inductive: the type of
  a proven record says that its time is a time of the past, and the time comes
  from a local variable, which comes from the portal. `TypeInv` adds what
  connects them: the portal's time of a proven withdrawal is that of a logged
  proof, the todo list of each stage holds logs of that stage, and the portal
  answer belongs to the log the iterator is at (`ProofRead`).
* `StatusesAreJustified`: `Spec => []StatusJustified`. `JustifiedInv` adds that
  whatever is in a record or in a checker's hand was justified by a log when
  it was read (`RecordsLogged`, `ListsLogged`). Logs are never taken back and
  time only grows (`LogsStay`), so it still is when it is written, and that is
  why writing from stale lists never gets ahead of the chains.
* `IndexedBlocksAreComplete`: `Spec => []IndexedBlocksComplete`. `L1Invariant` and
  `L2Invariant` say, for each place in a loop, what is kept of the blocks
  before the batch and of the batch: a log of the current stage is still to be
  done or kept (`HasProvenRecord`), those of earlier stages are kept. Documents
  are never deleted (`StoreGrows`) and new logs are above the head
  (`ChainGrows`), so steps of anyone else preserve it (`L1Frame`); a fault or
  an end leaves only the part about recorded blocks (`L1Down`), and that is
  what the next process starts from (`L1Start`).
* `LastIndexedBlockMovesForward`: under `~ReadFaults`,
  `Spec => LastIndexedBlockMonotone`. Each loop starts behind the record
  (`StartsBehindRecord`) and its batches are not empty. With `ReadFaults` it is
  false (`indexer_ethereum.go:25`, section 4).
* `NoResetWithoutFault`: `Spec => StatusResetOnlyAfterFault`. While no fault has
  happened, the log of every document is in a block that its loop is through
  with (`DepositsBehind`, `WithdrawalsBehind`), and a hash has one log
  (`LogsUnique`); so a bulk write finds none of its documents. Every other
  write updates a document that exists, with a status that is not one of
  creation (`BulkWriteOrUpdates`).
* `LoopsKeepTheFlow`: `Spec => LoopsFollowFlow`. No write of a status looks at the
  status it replaces, so this is about the order of the writes. While no fault has
  happened, `FlowInv` says that a withdrawal that is READY_FOR_RELAY, or has a proven
  record, has a proof that the loop is through with (`ProofBehind`: in an
  earlier batch, or in this one and no longer in the list of the stage), and that one
  that is RELAYED, or has a finalized record, or is in the hands of the finalized checker,
  has a finalization in a batch whose proofs are done (`FinalizationBehind`). What the
  loop is through with stays so (`BehindStays`), and a proof is mined before the
  finalization (`ProofsBeforeFinalization`, from the portal). So the proof that the
  loop is at is never one of a RELAYED withdrawal, and if the withdrawal is
  READY_FOR_RELAY, it is a second one (`ProofIsNew`). What is left are the writes of
  the checkers from their lists, which `status_flow` shows to be harmful. (The proof
  does not cover behaviours after a fault: a replay does set statuses back.)
* `DatabaseMirrorsChains`: `Spec => ImplementsStatusMirror`, the refinement. The
  invariant is `JustifiedInv` and `ListedHaveRecord`: what the ready checker has
  listed still has a proven record, since records are never deleted. Each kind of
  write then is one of the mirror's: a bulk write or a part of it (`CreateShows`), a
  filtered update with the evidence its log or its list gives (`UpdateShows`), a
  record (`WriteShows`); the rest does not show (`NothingShows`).
* `ProofTimesAreCurrent`: `Spec => []ProofTimeCurrent`, with reproofs allowed. The
  loop asks the portal for its latest answer while it works through older logs, so
  what it writes may be newer than the log, and is made stale only by a proof in a
  later block. `PortalInv` says of each stale record, for each place of
  the loop, where the proof that makes it stale lies: in a block after the batch,
  or among the logs to be done (`StaleAhead`); and the same of the answer in the
  loop's hands (`ReadAhead`). It also needs that the loop never passes a block it
  has not done (`StartBounds` and `CompleteInv`).

### The choice of a batch (`BatchArithmetic`)

For words of any size and any head below the largest word:

* `ArithmeticAgrees`: while `start + minBatchSize` fits in a word, a batch is ready
  when `Batches` says so and is the same batch, not empty and within the chain.
  So the naturals of the models stand for the `uint64` of the code.
* `EmptyBatchMakesNoProgress`: `MAX_BATCH_SIZE` = 0, which `main` accepts, gives a
  batch that ends before it starts.

### The process (`Spec` of `RunLoop`)

`LifeTypeCorrect`, `ChannelsHaveRoom`, `OnlyErrorIsReported` and `IndexesComeFirst` come from
one invariant, `LifeInv`. `AnswersCounted`: what the loops have sent is in the two
channels or was received; as each loop sends one message to each channel, neither
channel ever needs more than its two places, whatever `Run` receives. `AnswersTrue`
and `ErrorKept`: a message in the channel is the result of a loop that has sent
it, and when only errors were sent and one has left the channel, `firstErr` holds
one. `IndexesCreated` and `StartedBefore`: the three calls that create the indexes are
before those that start the loops.

### Reading events (`Spec` of `MCEventReading`)

* `IteratorReadsEveryLog`: `Spec => ReadsEveryLog`, the refinement of `LogReading`.
  `IteratorInv` says that what was taken from the channel was delivered, but for the
  log that failed (`DeliveredIsTaken`), that the goroutine ends only when it has sent
  everything or was told to quit, that `done` follows its end, and that `Next` answers
  false without an error only when nothing is left to take (`EndsInOrder`). The
  last one is where the `select` matters: after it has seen the end, the iterator
  still empties the channel.
* `FourFailuresSurvived`: `Spec => []TransientFailuresSurvived`. Attempts count failures
  (`AttemptsFailed`), except those at a node that cannot know the transaction, and
  LightLink is asked for a transaction of Ethereum only after five of them. Besides, only
  a receipt that cannot be parsed makes the function fail.
* `ParsingGivesLastMessage`: `Spec => []ReceiptsGiveLastMessage`. The loops over a
  receipt overwrite what they found before, so each field is that of the last log of
  its topic. `LastOfIs` says what the last such log is, `ReceiptOnL1` and `ReceiptOnL2` where the
  logs of the last message are in a receipt, and that nothing after them has their emitter.
  So the two halves of a message hash are of one message, although they are parsed from
  different logs, and a log of another contract with the same topic is never
  taken. `SenderHasEvent`: a transaction that sends a message has an event in the
  range, by counting. `InitGivesLastMessage` is the initial states; a range does not
  change.
* `CollectionWritesTheBatch`: `Spec => WritesTheBatch`, the
  refinement of `BatchWrite`. `RangeInv`: every row of the batch has the hashes of its
  transaction, but for the last one while its withdrawal hash is still to come
  (`BatchRight`), and every event that the two loops are through with has a row
  (`LoopsRight`). A part of an upsert therefore writes right documents only, whether the write then fails or is never answered
  (`UpsertIsRight`), and all of it a document for each transaction, as each has an
  event.
* `ReadingTypeCorrect`: `Spec => []TypeOK`.

### The API (`ApiSpec` of `TransactionsApi`)

* `ApiTypeCorrect`: `ApiSpec => []TypeOK`, from `TypeInv`, which adds the fields of the
  request, and that what a walk has still to see is of the type it asks for.
* `RelayRowsHaveProof`: `RelayInv` adds that a withdrawal that is READY_FOR_RELAY
  has a record (from the mirror), and that a row that says so has, after
  the match, a record to find. Records are never deleted, so the later lookup finds it.
* `TabsCountAll`: as long as nothing was written, each count is that of the
  documents as they are (`TabsCounted`), and the statuses of the two tabs are disjoint and
  leave out RELAYED only.
* `PagesAreFilled`: the total is at most the number of documents that match
  (`TotalStands`), which only grows; `PagesAddUp` says what `$skip` is in
  wrapped arithmetic: never more than meant, and negative only when the request fails. Of
  a page past the total nothing is said.
* `WalksMissNothing`: `WalkGoesOn` says of each document that the client has not been
  shown, and that has its block time for itself, that at least as many newer
  documents match as the pages passed hold; so it is on a page still to
  come. In any order of the ties, the place of a document is the number of those that
  are newer (`RankOfUntied`), and new documents only push it back.

### Only model-checked

* Liveness: `EventuallyMirrorsChain`, `ProcessEnds`, `CallsReturn`, `UnsubscribingEnds` and
  `CollectionReturns` rest on fairness and ENABLED, which the prover does not have.
* The four runs that end in a violation.

## 6. Plan

Done: chains and store, both loops, checkers, composition, process; the
promise of the database and its refinement, the API, the bindings, the
collection of a batch with retries and receipts, the start of the process, the
arithmetic of batches; the theorems above, which cover every safety property and
every refinement of the passing runs.

Next:

1. `StatusMirror` and `TransactionsApi` composed: what the API shows is
   justified, for `Spec` of `BridgeIndexer` rather than for the mirror.
2. Safety facts behind the progress properties, for example that no place of a loop is left
   but by a step of its own, and that a walk that ends has seen every page.
3. The order of the statuses with checkers that look at the status they replace, as
   a proposal for the code: `StatusFollowsFlow` should then hold without a fault.

Models that could follow: outputs that are rolled back, with a loop that reads RolledBack
logs; a node that lags behind the head another one reported;
a second process on the same database; the loops of `BridgeIndexer` over an
iterator that ends early.

### Not modelled

ABI encoding and hash functions (a hash is a value of a set; `encoding.go` and
`hashing.go` are pure functions whose bytes no property tells apart), logging,
what a parameter of the environment parses to, the wire protocols of MongoDB
and of the nodes, the callers and transactors of the bindings (one library call
each; the program calls `ProvenWithdrawals` only), the health endpoint and CORS,
and the build.
