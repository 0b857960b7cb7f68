------------------------------- MODULE RunLoop -------------------------------
(***************************************************************************)
(* The life of the process: its start, the two goroutines of Run, the      *)
(* channels they answer on, the loop in which Run receives, and main,      *)
(* which waits for Run or for a signal.  What the loops index is in        *)
(* BridgeIndexer; here a loop only goes on, fails, or sees that its        *)
(* context is cancelled.                                                   *)
(***************************************************************************)
EXTENDS Startup

Indexers == {"lightlink", "ethereum"}

\* The value of type error that an indexer or Run returns.
Results == {"nil", "error"}
NoResult == "none"

\* Mutants: channels for one answer, and a loop of one receipt.
ChannelForOne == 1
OneReceipt == 1

ChannelCapacity == 2
Receipts == 2

VARIABLES
  cancelled,    \* has main cancelled the context?
  signal,       \* has a signal arrived?  "none", "queued" or "received"
  indexer,      \* where each goroutine of Run is
  result,       \* what each indexing loop returned
  errChan,      \* buffered channel of results
  doneChan,     \* buffered channel, the number of tokens in it
  received,     \* how many receipts Run's loop has made
  firstErr,     \* local variable of Run
  runResult,    \* what Run returned
  mainPc        \* "startup", "select", "shutdown" (waiting for Run), "ended"

loopVars == << cancelled, signal, indexer, result, errChan, doneChan,
               received, firstErr, runResult, mainPc >>

vars == << startupVars, loopVars >>

TypeOK ==
  /\ StartupTypeOK
  /\ cancelled \in BOOLEAN
  /\ signal \in {"none", "queued", "received"}
  /\ indexer \in [Indexers -> {"notStarted", "loop", "sendErr", "sendDone", "ended"}]
  /\ result \in [Indexers -> Results \cup {NoResult}]
  /\ errChan \in Seq(Results) /\ Len(errChan) <= ChannelCapacity
  /\ doneChan \in 0 .. ChannelCapacity
  /\ received \in 0 .. Receipts
  /\ firstErr \in Results
  /\ runResult \in Results \cup {NoResult}
  /\ mainPc \in {"startup", "select", "shutdown", "ended"}

Init ==
  /\ StartupInit
  /\ cancelled = FALSE
  /\ signal = "none"
  /\ indexer = [i \in Indexers |-> "notStarted"]
  /\ result = [i \in Indexers |-> NoResult]
  /\ errChan = << >>
  /\ doneChan = 0
  /\ received = 0
  /\ firstErr = "nil"
  /\ runResult = NoResult
  /\ mainPc = "startup"

\* When main returns or the process exits, every goroutine ends with it.
ProcessRuns == mainPc # "ended"

-----------------------------------------------------------------------------
(***************************************************************************)
(* The start.                                                              *)
(***************************************************************************)
StartupGoesOn ==
  /\ mainPc = "startup"
  /\ CallReturns
  /\ UNCHANGED loopVars

StartupFails ==
  /\ mainPc = "startup"
  /\ CallFails
  /\ mainPc' = "ended"
  /\ UNCHANGED << cancelled, signal, indexer, result, errChan, doneChan,
                  received, firstErr, runResult >>

StartRun ==
  /\ mainPc = "startup" /\ StartedUp
  /\ mainPc' = "select"
  /\ indexer' = [i \in Indexers |-> "loop"]
  /\ UNCHANGED << startupVars, cancelled, signal, result, errChan, doneChan,
                  received, firstErr, runResult >>

\* A signal before signal.Notify ends the process at once.
SignalKills ==
  /\ ProcessRuns /\ ~SignalsRedirected
  /\ mainPc' = "ended"
  /\ UNCHANGED << startupVars, cancelled, signal, indexer, result, errChan,
                  doneChan, received, firstErr, runResult >>

-----------------------------------------------------------------------------
(***************************************************************************)
(* The goroutines of Run.                                                  *)
(***************************************************************************)
LoopReturns(i, r) ==
  /\ ProcessRuns
  /\ indexer[i] = "loop"
  /\ indexer' = [indexer EXCEPT ![i] = "sendErr"]
  /\ result' = [result EXCEPT ![i] = r]
  /\ UNCHANGED << cancelled, signal, errChan, doneChan, received, firstErr,
                  runResult, mainPc >>

IndexerFails(i) == LoopReturns(i, "error")

\* A loop looks at its context at the top of every batch.
IndexerSeesCancel(i) == cancelled /\ LoopReturns(i, "nil")

SendErr(i) ==
  /\ ProcessRuns
  /\ indexer[i] = "sendErr"
  /\ Len(errChan) < ChannelCapacity
  /\ errChan' = Append(errChan, result[i])
  /\ indexer' = [indexer EXCEPT ![i] = "sendDone"]
  /\ UNCHANGED << cancelled, signal, result, doneChan, received, firstErr,
                  runResult, mainPc >>

SendDone(i) ==
  /\ ProcessRuns
  /\ indexer[i] = "sendDone"
  /\ doneChan < ChannelCapacity
  /\ doneChan' = doneChan + 1
  /\ indexer' = [indexer EXCEPT ![i] = "ended"]
  /\ UNCHANGED << cancelled, signal, result, errChan, received, firstErr,
                  runResult, mainPc >>

-----------------------------------------------------------------------------
(***************************************************************************)
(* Run: two receipts, each from whichever channel is ready.                *)
(***************************************************************************)
ReceiveErr ==
  /\ ProcessRuns
  /\ received < Receipts
  /\ errChan # << >>
  /\ errChan' = Tail(errChan)
  /\ firstErr' = IF firstErr = "nil" THEN Head(errChan) ELSE firstErr
  /\ received' = received + 1
  /\ UNCHANGED << cancelled, signal, indexer, result, doneChan, runResult,
                  mainPc >>

\* Mutant: the receipts are not counted to their end.
ReceiveDoneUnbounded ==
  /\ ProcessRuns
  /\ doneChan > 0
  /\ doneChan' = doneChan - 1
  /\ received' = received + 1
  /\ UNCHANGED << cancelled, signal, indexer, result, errChan, firstErr,
                  runResult, mainPc >>

ReceiveDone ==
  /\ ProcessRuns
  /\ received < Receipts
  /\ doneChan > 0
  /\ doneChan' = doneChan - 1
  /\ received' = received + 1
  /\ UNCHANGED << cancelled, signal, indexer, result, errChan, firstErr,
                  runResult, mainPc >>

RunReturns ==
  /\ ProcessRuns
  /\ received = Receipts
  /\ runResult = NoResult
  /\ runResult' = firstErr
  /\ UNCHANGED << cancelled, signal, indexer, result, errChan, doneChan,
                  received, firstErr, mainPc >>

-----------------------------------------------------------------------------
(***************************************************************************)
(* main.                                                                   *)
(***************************************************************************)
SignalArrives ==
  /\ ProcessRuns /\ SignalsRedirected
  /\ signal = "none"
  /\ signal' = "queued"
  /\ UNCHANGED << cancelled, indexer, result, errChan, doneChan, received,
                  firstErr, runResult, mainPc >>

ReceiveSignal ==
  /\ mainPc = "select"
  /\ signal = "queued"
  /\ signal' = "received"
  /\ cancelled' = TRUE
  /\ mainPc' = "shutdown"
  /\ UNCHANGED << indexer, result, errChan, doneChan, received, firstErr,
                  runResult >>

\* Mutant: after a signal, main waits for another one.
MainReturnsUnlessSignalled ==
  /\ mainPc = "select"
  /\ runResult # NoResult
  /\ mainPc' = "ended"
  /\ cancelled' = TRUE
  /\ UNCHANGED << signal, indexer, result, errChan, doneChan, received,
                  firstErr, runResult >>

MainReturns ==
  /\ mainPc \in {"select", "shutdown"}
  /\ runResult # NoResult
  /\ mainPc' = "ended"
  /\ cancelled' = TRUE
  /\ UNCHANGED << signal, indexer, result, errChan, doneChan, received,
                  firstErr, runResult >>

\* The API server cannot listen any more, and exits the process.
ServerFails ==
  /\ ProcessRuns /\ serving
  /\ mainPc' = "ended"
  /\ UNCHANGED << cancelled, signal, indexer, result, errChan, doneChan,
                  received, firstErr, runResult >>

Run == ReceiveErr \/ ReceiveDone \/ RunReturns

Start == StartupGoesOn \/ StartupFails \/ StartRun

Running ==
  /\ \/ \E i \in Indexers :
          IndexerFails(i) \/ IndexerSeesCancel(i) \/ SendErr(i) \/ SendDone(i)
     \/ Run
     \/ SignalArrives \/ ReceiveSignal \/ MainReturns \/ ServerFails
  /\ UNCHANGED startupVars

Next == Start \/ SignalKills \/ Running

Spec == Init /\ [][Next]_vars

(***************************************************************************)
(* Goroutines are scheduled, the calls of the start answer or fail, and a  *)
(* loop that is cancelled gets to the top of its next batch: its calls     *)
(* answer or fail too, its sleeps are finite.                              *)
(***************************************************************************)
FairSpec ==
  /\ Spec
  /\ WF_vars(Start)
  /\ \A i \in Indexers :
       WF_vars(Running /\ IndexerSeesCancel(i))
         /\ WF_vars(Running /\ (SendErr(i) \/ SendDone(i)))
  /\ WF_vars(Running /\ Run)
  /\ WF_vars(Running /\ ReceiveSignal) /\ WF_vars(Running /\ MainReturns)

-----------------------------------------------------------------------------
Finished(i) == indexer[i] \in {"sendDone", "ended"}

\* An error that the only loop to have returned reported is not lost: Run
\* passes it to main, whichever of the two channels it receives from first.
ErrorOfOnlyIndexerReported ==
  runResult = "nil" =>
    \/ \E i \in Indexers : result[i] = "nil"
    \/ \A i \in Indexers : result[i] = "error"

\* The answers fit in the channels: no goroutine of Run is ever blocked, even
\* if Run has returned and receives no more (indexer.go:79-80).
SendersNeverBlock ==
  \A i \in Indexers :
    /\ indexer[i] = "sendErr" => Len(errChan) < ChannelCapacity
    /\ indexer[i] = "sendDone" => doneChan < ChannelCapacity

\* Neither loop ever writes to a database that lacks an index that makes its
\* documents or records unique, although the indexes are created by three
\* calls, of which any may fail, and a process may have died between them.
IndexesBeforeIndexing ==
  \A i \in Indexers : indexer[i] # "notStarted" => indexes = Indexes

\* A failed indexer or a signal ends the process.
ProcessEnds ==
  /\ \A i \in Indexers : result[i] = "error" ~> mainPc = "ended"
  /\ signal = "queued" ~> mainPc = "ended"

\* Run waits for both indexers (the comment at indexer.go:94).
RunWaitsForBoth == runResult # NoResult => \A i \in Indexers : Finished(i)
=============================================================================
