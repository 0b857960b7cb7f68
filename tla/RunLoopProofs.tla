----------------------------- MODULE RunLoopProofs -----------------------------
(***************************************************************************)
(* Theorems about the life of the process: the answers of the indexers     *)
(* against the receipts of Run, and the indexes of the database against    *)
(* the loops.                                                              *)
(***************************************************************************)
EXTENDS RunLoop, TLAPS

-----------------------------------------------------------------------------
(***************************************************************************)
(* The inductive invariant.  Answers are neither lost nor made up: each    *)
(* one sent is in its channel or was received.  As long as no indexer has  *)
(* sent nil, an error that has left the channel is in firstErr.            *)
(***************************************************************************)
One(b) == IF b THEN 1 ELSE 0

ErrSent(i) == indexer[i] \in {"sendDone", "ended"}
DoneSent(i) == indexer[i] = "ended"

ErrsSent == One(ErrSent("lightlink")) + One(ErrSent("ethereum"))
DonesSent == One(DoneSent("lightlink")) + One(DoneSent("ethereum"))

ResultsKnown ==
  \A i \in Indexers :
    (result[i] = NoResult) <=> (indexer[i] \in {"notStarted", "loop"})

AnswersCounted ==
  /\ Len(errChan) <= ErrsSent
  /\ doneChan <= DonesSent
  /\ Len(errChan) + doneChan + received = ErrsSent + DonesSent

AnswersTrue ==
  \A k \in 1 .. Len(errChan) :
    \E i \in Indexers : ErrSent(i) /\ errChan[k] = result[i]

OnlyErrorsSent == \A i \in Indexers : ErrSent(i) => result[i] = "error"

ErrorKept ==
  OnlyErrorsSent /\ Len(errChan) < ErrsSent => firstErr = "error"

RunAnswers ==
  runResult = NoResult \/ (received = Receipts /\ runResult = firstErr)

\* The calls that create indexes come before those that start the loops.
IndexesCreated ==
  /\ calls >= 5 => "transactionsIndexes" \in indexes
  /\ calls >= 6 => "provenIndex" \in indexes
  /\ calls >= 7 => "finalizedIndex" \in indexes

StartedBefore ==
  \A i \in Indexers : indexer[i] # "notStarted" => StartedUp

NotStartedYet ==
  mainPc = "startup" => \A i \in Indexers : indexer[i] = "notStarted"

LifeInv ==
  /\ TypeOK
  /\ ResultsKnown
  /\ AnswersCounted
  /\ AnswersTrue
  /\ ErrorKept
  /\ RunAnswers
  /\ IndexesCreated
  /\ StartedBefore
  /\ NotStartedYet

-----------------------------------------------------------------------------
\* The calls of the start are ten.
LEMMA CallsCount == Len(Calls) = 10
BY DEF Calls

\* The two loops.
LEMMA IndexerNames ==
  /\ "lightlink" \in Indexers /\ "ethereum" \in Indexers
  /\ \A i \in Indexers : i = "lightlink" \/ i = "ethereum"
BY DEF Indexers

\* What the loops have sent is counted.
LEMMA SentTyped == ErrsSent \in Nat /\ DonesSent \in Nat
BY DEF ErrsSent, DonesSent, One

\* What Next leaves alone when the channels and the indexers do not change.
Answers == << indexer, result, errChan, doneChan, received, firstErr >>

\* What is known of the answers is kept by steps of anybody else.
LEMMA AnswersStay ==
  ASSUME LifeInv, UNCHANGED Answers
  PROVE  ResultsKnown' /\ AnswersCounted' /\ AnswersTrue' /\ ErrorKept'
BY DEF LifeInv, Answers, ResultsKnown, AnswersCounted, AnswersTrue, ErrorKept,
       OnlyErrorsSent, ErrsSent, DonesSent, ErrSent, DoneSent, One

\* A call of the start returns.
LEMMA StartupGoesOnInv ==
  ASSUME LifeInv, StartupGoesOn
  PROVE  LifeInv'
<1>1. UNCHANGED loopVars /\ calls \in 0 .. 9 /\ calls' = calls + 1
  BY CallsCount
  DEF StartupGoesOn, CallReturns, StartedUp, LifeInv, TypeOK, StartupTypeOK
<1>2. indexes' = indexes \cup ({Calls[calls + 1]} \cap Indexes)
  BY DEF StartupGoesOn, CallReturns
<1>3. StartupTypeOK'
  BY <1>1, <1>2, CallsCount
  DEF StartupGoesOn, CallReturns, LifeInv, TypeOK, StartupTypeOK
<1>4. TypeOK'
  BY <1>1, <1>3 DEF loopVars, LifeInv, TypeOK
<1>5. /\ Calls[5] = "transactionsIndexes"
      /\ Calls[6] = "provenIndex"
      /\ Calls[7] = "finalizedIndex"
  BY DEF Calls
<1>6. IndexesCreated'
  <2>1. /\ calls = 4 => Calls[calls + 1] = "transactionsIndexes"
        /\ calls = 5 => Calls[calls + 1] = "provenIndex"
        /\ calls = 6 => Calls[calls + 1] = "finalizedIndex"
    <3>1. 4 + 1 = 5 /\ 5 + 1 = 6 /\ 6 + 1 = 7
      OBVIOUS
    <3> QED  BY <1>5, <3>1
  <2> DEFINE call == Calls[calls + 1]
  <2> HIDE DEF call
  <2>2. /\ calls = 4 => call = "transactionsIndexes"
        /\ calls = 5 => call = "provenIndex"
        /\ calls = 6 => call = "finalizedIndex"
        /\ indexes' = indexes \cup ({call} \cap Indexes)
    BY <1>2, <2>1 DEF call
  <2>3. call \in Indexes => call \in indexes'
    BY <2>2
  <2>4. calls \in 4 .. 6 => call \in Indexes
    BY <2>2 DEF Indexes
  <2>5. indexes \subseteq indexes' /\ IndexesCreated
    BY <2>2 DEF LifeInv
  <2>6. calls' >= 5 => "transactionsIndexes" \in indexes'
    <3>1. CASE calls >= 5
      BY <2>5, <3>1 DEF IndexesCreated
    <3>2. CASE calls = 4
      BY <2>2, <2>3, <2>4, <3>2
    <3> QED  BY <1>1, <3>1, <3>2
  <2>7. calls' >= 6 => "provenIndex" \in indexes'
    <3>1. CASE calls >= 6
      BY <2>5, <3>1 DEF IndexesCreated
    <3>2. CASE calls = 5
      BY <2>2, <2>3, <2>4, <3>2
    <3> QED  BY <1>1, <3>1, <3>2
  <2>8. calls' >= 7 => "finalizedIndex" \in indexes'
    <3>1. CASE calls >= 7
      BY <2>5, <3>1 DEF IndexesCreated
    <3>2. CASE calls = 6
      BY <2>2, <2>3, <2>4, <3>2
    <3> QED  BY <1>1, <3>1, <3>2
  <2> QED  BY <2>6, <2>7, <2>8 DEF IndexesCreated
<1>7. StartedBefore' /\ NotStartedYet' /\ RunAnswers'
  BY <1>1
  DEF loopVars, StartupGoesOn, LifeInv, StartedBefore, NotStartedYet,
      RunAnswers
<1> QED  BY <1>1, <1>4, <1>6, <1>7, AnswersStay DEF loopVars, Answers, LifeInv

\* A step that only ends the process.
LEMMA EndInv ==
  ASSUME LifeInv, mainPc' = "ended",
         UNCHANGED << startupVars, signal, runResult, Answers >>,
         cancelled' \in BOOLEAN
  PROVE  LifeInv'
<1>1. TypeOK'
  BY DEF Answers, startupVars, LifeInv, TypeOK, StartupTypeOK
<1>2. IndexesCreated' /\ StartedBefore' /\ NotStartedYet' /\ RunAnswers'
  BY DEF Answers, startupVars, LifeInv, IndexesCreated, StartedBefore,
         StartedUp, NotStartedYet, RunAnswers
<1> QED  BY <1>1, <1>2, AnswersStay DEF LifeInv

\* Run starts the two goroutines.
LEMMA StartRunInv ==
  ASSUME LifeInv, StartRun
  PROVE  LifeInv'
<1>1. \A i \in Indexers : indexer[i] = "notStarted" /\ indexer'[i] = "loop"
  BY DEF StartRun, LifeInv, NotStartedYet
<1>2. TypeOK'
  BY DEF StartRun, startupVars, LifeInv, TypeOK, StartupTypeOK
<1>3. ResultsKnown'
  BY <1>1 DEF StartRun, LifeInv, ResultsKnown
<1>4. ErrsSent = 0 /\ DonesSent = 0 /\ ErrsSent' = 0 /\ DonesSent' = 0
  BY <1>1, IndexerNames DEF ErrsSent, DonesSent, ErrSent, DoneSent, One
<1>5. AnswersCounted' /\ AnswersTrue' /\ ErrorKept'
  BY <1>1, <1>4, <1>2
  DEF StartRun, LifeInv, TypeOK, AnswersCounted, AnswersTrue, ErrorKept
<1>6. IndexesCreated' /\ StartedBefore' /\ NotStartedYet' /\ RunAnswers'
  BY DEF StartRun, startupVars, LifeInv, IndexesCreated, StartedBefore,
         StartedUp, NotStartedYet, RunAnswers
<1> QED  BY <1>2, <1>3, <1>5, <1>6 DEF LifeInv
\* An indexing loop returns.
LEMMA LoopReturnsInv ==
  ASSUME LifeInv, UNCHANGED startupVars,
         NEW i \in Indexers, NEW r \in Results, LoopReturns(i, r)
  PROVE  LifeInv'
<1>1. /\ indexer[i] = "loop"
      /\ \A j \in Indexers : indexer'[j] = IF j = i THEN "sendErr" ELSE indexer[j]
      /\ \A j \in Indexers : result'[j] = IF j = i THEN r ELSE result[j]
  BY DEF LoopReturns, LifeInv, TypeOK
<1>2. /\ \A j \in Indexers : ErrSent(j)' = ErrSent(j) /\ DoneSent(j)' = DoneSent(j)
      /\ \A j \in Indexers : ErrSent(j) => result'[j] = result[j]
  BY <1>1 DEF ErrSent, DoneSent
<1>3. ErrsSent' = ErrsSent /\ DonesSent' = DonesSent
  BY <1>2, IndexerNames DEF ErrsSent, DonesSent, One
<1>4. TypeOK'
  BY DEF LoopReturns, startupVars, LifeInv, TypeOK, StartupTypeOK
<1>5. ResultsKnown'
  BY <1>1 DEF LifeInv, ResultsKnown, Results, NoResult
<1>6. AnswersCounted' /\ RunAnswers'
  BY <1>3 DEF LoopReturns, LifeInv, AnswersCounted, RunAnswers
<1>7. AnswersTrue'
  BY <1>2 DEF LoopReturns, LifeInv, AnswersTrue
<1>8. ErrorKept'
  BY <1>2, <1>3 DEF LoopReturns, LifeInv, ErrorKept, OnlyErrorsSent
<1>9. IndexesCreated' /\ StartedBefore' /\ NotStartedYet'
  BY <1>1
  DEF LoopReturns, startupVars, LifeInv, IndexesCreated, StartedBefore,
      StartedUp, NotStartedYet
<1> QED  BY <1>4, <1>5, <1>6, <1>7, <1>8, <1>9 DEF LifeInv

\* What an indexer has sent counts once.
LEMMA SendErrCounts ==
  ASSUME LifeInv, NEW i \in Indexers, SendErr(i)
  PROVE  /\ ErrsSent' = ErrsSent + 1 /\ DonesSent' = DonesSent
         /\ ErrSent(i)' /\ ~ErrSent(i)
         /\ \A j \in Indexers : ErrSent(j) => ErrSent(j)'
         /\ \A j \in Indexers : j # i => ErrSent(j)' = ErrSent(j)
BY IndexerNames
DEF SendErr, LifeInv, TypeOK, ErrsSent, DonesSent, ErrSent, DoneSent, One

\* A loop that has returned sends its result, an error or nil,
LEMMA SendErrInv ==
  ASSUME LifeInv, UNCHANGED startupVars, NEW i \in Indexers, SendErr(i)
  PROVE  LifeInv'
<1>1. /\ errChan \in Seq(Results) /\ result[i] \in Results
      /\ errChan' = Append(errChan, result[i]) /\ result' = result
  BY DEF SendErr, LifeInv, TypeOK, ResultsKnown
<1>2. /\ errChan' \in Seq(Results) /\ Len(errChan') = Len(errChan) + 1
      /\ Len(errChan) \in Nat
      /\ \A k \in 1 .. Len(errChan) : errChan'[k] = errChan[k]
      /\ errChan'[Len(errChan) + 1] = result[i]
  BY <1>1
<1>3. TypeOK'
  <2>1. Len(errChan') <= ChannelCapacity
    BY <1>2 DEF SendErr, ChannelCapacity
  <2> QED  BY <1>2, <2>1
           DEF SendErr, startupVars, LifeInv, TypeOK, StartupTypeOK
<1>4. ResultsKnown'
  BY DEF SendErr, LifeInv, TypeOK, ResultsKnown
<1>5. AnswersCounted'
  <2>1. AnswersCounted /\ doneChan' = doneChan /\ received' = received
    BY DEF SendErr, LifeInv
  <2>2. doneChan \in Nat /\ received \in Nat
    BY DEF LifeInv, TypeOK
  <2> QED  BY <1>2, <2>1, <2>2, SendErrCounts, SentTyped DEF AnswersCounted
<1>6. AnswersTrue'
  <2> SUFFICES ASSUME NEW k \in 1 .. Len(errChan')
               PROVE  \E j \in Indexers : ErrSent(j)' /\ errChan'[k] = result[j]
    BY <1>1 DEF AnswersTrue
  <2>1. CASE k \in 1 .. Len(errChan)
    BY <1>2, <2>1, SendErrCounts DEF LifeInv, AnswersTrue
  <2>2. CASE k = Len(errChan) + 1
    BY <1>2, <2>2, SendErrCounts
  <2> QED  BY <1>2, <2>1, <2>2
<1>7. ErrorKept'
  <2> SUFFICES ASSUME OnlyErrorsSent', Len(errChan') < ErrsSent'
               PROVE  firstErr' = "error"
    BY DEF ErrorKept
  <2>1. OnlyErrorsSent
    BY <1>1, SendErrCounts DEF OnlyErrorsSent
  <2>2. Len(errChan) < ErrsSent
    BY <1>2, SendErrCounts DEF ErrsSent, One
  <2> QED  BY <2>1, <2>2 DEF SendErr, LifeInv, ErrorKept
<1>8. IndexesCreated' /\ StartedBefore' /\ NotStartedYet' /\ RunAnswers'
  BY DEF SendErr, startupVars, LifeInv, TypeOK, IndexesCreated, StartedBefore,
         StartedUp, NotStartedYet, RunAnswers
<1> QED  BY <1>3, <1>4, <1>5, <1>6, <1>7, <1>8 DEF LifeInv

\* and then that it is done.
LEMMA SendDoneInv ==
  ASSUME LifeInv, UNCHANGED startupVars, NEW i \in Indexers, SendDone(i)
  PROVE  LifeInv'
<1>1. /\ ErrsSent' = ErrsSent /\ DonesSent' = DonesSent + 1
      /\ \A j \in Indexers : ErrSent(j)' = ErrSent(j)
  BY IndexerNames
  DEF SendDone, LifeInv, TypeOK, ErrsSent, DonesSent, ErrSent, DoneSent, One
<1>2. TypeOK'
  BY DEF SendDone, startupVars, LifeInv, TypeOK, StartupTypeOK, ChannelCapacity
<1>3. ResultsKnown'
  BY DEF SendDone, LifeInv, TypeOK, ResultsKnown
<1>4. AnswersCounted'
  BY <1>1
  DEF SendDone, LifeInv, TypeOK, AnswersCounted, ErrsSent, DonesSent, One
<1>5. AnswersTrue' /\ ErrorKept'
  BY <1>1 DEF SendDone, LifeInv, AnswersTrue, ErrorKept, OnlyErrorsSent
<1>6. IndexesCreated' /\ StartedBefore' /\ NotStartedYet' /\ RunAnswers'
  BY DEF SendDone, startupVars, LifeInv, TypeOK, IndexesCreated, StartedBefore,
         StartedUp, NotStartedYet, RunAnswers
<1> QED  BY <1>2, <1>3, <1>4, <1>5, <1>6 DEF LifeInv

\* Run receives an answer: the first error it meets is kept.
LEMMA ReceiveErrInv ==
  ASSUME LifeInv, UNCHANGED startupVars, ReceiveErr
  PROVE  LifeInv'
<1>1. errChan \in Seq(Results) /\ errChan # << >> /\ errChan' = Tail(errChan)
  BY DEF ReceiveErr, LifeInv, TypeOK
<1>2. /\ errChan' \in Seq(Results) /\ Len(errChan') = Len(errChan) - 1
      /\ Len(errChan) \in Nat \ {0}
      /\ \A k \in 1 .. Len(errChan') : errChan'[k] = errChan[k + 1]
      /\ Head(errChan) = errChan[1] /\ Head(errChan) \in Results
  BY <1>1
<1>3. UNCHANGED << indexer, result, doneChan, runResult >> /\ received' = received + 1
  BY DEF ReceiveErr
<1>4. /\ \A j \in Indexers : ErrSent(j)' = ErrSent(j)
      /\ ErrsSent' = ErrsSent /\ DonesSent' = DonesSent
  BY <1>3 DEF ErrsSent, DonesSent, ErrSent, DoneSent, One
<1>5. TypeOK'
  BY <1>2
  DEF ReceiveErr, startupVars, LifeInv, TypeOK, StartupTypeOK, Receipts,
      ChannelCapacity
<1>6. ResultsKnown'
  BY <1>3 DEF LifeInv, ResultsKnown
<1>7. AnswersCounted'
  BY <1>2, <1>3, <1>4
  DEF LifeInv, TypeOK, AnswersCounted, ErrsSent, DonesSent, One
<1>8. AnswersTrue'
  <2> SUFFICES ASSUME NEW k \in 1 .. Len(errChan')
               PROVE  \E j \in Indexers : ErrSent(j) /\ errChan'[k] = result[j]
    BY <1>3, <1>4 DEF AnswersTrue
  <2>1. k + 1 \in 1 .. Len(errChan) /\ errChan'[k] = errChan[k + 1]
    BY <1>2
  <2> QED  BY <2>1 DEF LifeInv, AnswersTrue
<1>9. ErrorKept'
  <2> SUFFICES ASSUME OnlyErrorsSent  PROVE firstErr' = "error"
    BY <1>3, <1>4 DEF ErrorKept, OnlyErrorsSent
  <2>1. Head(errChan) = "error"
    BY <1>2 DEF LifeInv, AnswersTrue, OnlyErrorsSent
  <2> QED  BY <2>1 DEF ReceiveErr, LifeInv, TypeOK, Results
<1>10. IndexesCreated' /\ StartedBefore' /\ NotStartedYet' /\ RunAnswers'
  BY DEF ReceiveErr, startupVars, LifeInv, IndexesCreated, StartedBefore,
         StartedUp, NotStartedYet, RunAnswers, Receipts
<1> QED  BY <1>5, <1>6, <1>7, <1>8, <1>9, <1>10 DEF LifeInv

\* Run receives one of these messages.
LEMMA ReceiveDoneInv ==
  ASSUME LifeInv, UNCHANGED startupVars, ReceiveDone
  PROVE  LifeInv'
<1>1. /\ \A j \in Indexers : ErrSent(j)' = ErrSent(j)
      /\ ErrsSent' = ErrsSent /\ DonesSent' = DonesSent
  BY DEF ReceiveDone, ErrsSent, DonesSent, ErrSent, DoneSent, One
<1>2. TypeOK'
  BY DEF ReceiveDone, startupVars, LifeInv, TypeOK, StartupTypeOK, Receipts,
         ChannelCapacity
<1>3. ResultsKnown' /\ AnswersTrue' /\ ErrorKept'
  BY <1>1
  DEF ReceiveDone, LifeInv, ResultsKnown, AnswersTrue, ErrorKept,
      OnlyErrorsSent
<1>4. AnswersCounted'
  BY <1>1
  DEF ReceiveDone, LifeInv, TypeOK, AnswersCounted, ErrsSent, DonesSent, One
<1>5. IndexesCreated' /\ StartedBefore' /\ NotStartedYet' /\ RunAnswers'
  BY DEF ReceiveDone, startupVars, LifeInv, IndexesCreated, StartedBefore,
         StartedUp, NotStartedYet, RunAnswers, Receipts
<1> QED  BY <1>2, <1>3, <1>4, <1>5 DEF LifeInv

\* Run returns, or main does something: the answers are not touched.
LEMMA MainInv ==
  ASSUME LifeInv, UNCHANGED startupVars,
         RunReturns \/ SignalArrives \/ ReceiveSignal \/ MainReturns \/ ServerFails
  PROVE  LifeInv'
<1>1. UNCHANGED Answers
  BY DEF RunReturns, SignalArrives, ReceiveSignal, MainReturns, ServerFails,
         Answers
<1>2. TypeOK'
  BY DEF RunReturns, SignalArrives, ReceiveSignal, MainReturns, ServerFails,
         startupVars, LifeInv, TypeOK, StartupTypeOK
<1>3. IndexesCreated' /\ StartedBefore' /\ NotStartedYet' /\ RunAnswers'
  BY DEF RunReturns, SignalArrives, ReceiveSignal, MainReturns, ServerFails,
         startupVars, LifeInv, IndexesCreated, StartedBefore, StartedUp,
         NotStartedYet, RunAnswers
<1> QED  BY <1>1, <1>2, <1>3, AnswersStay DEF LifeInv

\* The invariant holds when main is called.
LEMMA InitLife ==
  ASSUME Init  PROVE LifeInv
<1>1. TypeOK
  <2>1. calls \in 0 .. Len(Calls)
    BY CallsCount DEF Init, StartupInit
  <2>2. errChan \in Seq(Results) /\ Len(errChan) = 0
    BY DEF Init
  <2>3. 0 \in 0 .. Receipts /\ 0 \in 0 .. ChannelCapacity /\ 0 <= ChannelCapacity
    BY DEF Receipts, ChannelCapacity
  <2> QED  BY <2>1, <2>2, <2>3
           DEF Init, StartupInit, TypeOK, StartupTypeOK, Results
<1>2. ErrsSent = 0 /\ DonesSent = 0
  BY IndexerNames DEF Init, ErrsSent, DonesSent, ErrSent, DoneSent, One
<1>3. AnswersCounted /\ AnswersTrue /\ ErrorKept
  BY <1>2 DEF Init, AnswersCounted, AnswersTrue, ErrorKept
<1>4. ResultsKnown /\ RunAnswers /\ IndexesCreated /\ StartedBefore /\ NotStartedYet
  BY DEF Init, StartupInit, ResultsKnown, RunAnswers, IndexesCreated,
         StartedBefore, NotStartedYet
<1> QED  BY <1>1, <1>3, <1>4 DEF LifeInv

\* Every step of main, of Run and of the loops keeps it.
LEMMA NextLife ==
  ASSUME LifeInv, [Next]_vars
  PROVE  LifeInv'
<1>1. CASE UNCHANGED vars
  <2>1. UNCHANGED Answers
    BY <1>1 DEF vars, loopVars, Answers
  <2>2. TypeOK' /\ IndexesCreated' /\ StartedBefore' /\ NotStartedYet' /\ RunAnswers'
    BY <1>1
    DEF vars, loopVars, startupVars, LifeInv, TypeOK, StartupTypeOK,
        IndexesCreated, StartedBefore, StartedUp, NotStartedYet, RunAnswers
  <2> QED  BY <2>1, <2>2, AnswersStay DEF LifeInv
<1>2. CASE StartupFails \/ SignalKills
  BY <1>2, EndInv
  DEF StartupFails, SignalKills, CallFails, Answers, LifeInv, TypeOK
<1>3. CASE StartupGoesOn \/ StartRun
  BY <1>3, StartupGoesOnInv, StartRunInv
<1>4. CASE Running
  <2>1. UNCHANGED startupVars
    BY <1>4 DEF Running
  <2>2. ASSUME NEW i \in Indexers, IndexerFails(i) \/ IndexerSeesCancel(i)
        PROVE  LifeInv'
    BY <2>1, <2>2, LoopReturnsInv DEF IndexerFails, IndexerSeesCancel, Results
  <2>3. ASSUME NEW i \in Indexers, SendErr(i) \/ SendDone(i)
        PROVE  LifeInv'
    BY <2>1, <2>3, SendErrInv, SendDoneInv
  <2>4. CASE Run
    BY <2>1, <2>4, ReceiveErrInv, ReceiveDoneInv, MainInv DEF Run
  <2> QED  BY <1>4, <2>1, <2>2, <2>3, <2>4, MainInv DEF Running
<1> QED  BY <1>1, <1>2, <1>3, <1>4 DEF Next, Start

\* It holds throughout.
LEMMA LifeAlways == Spec => []LifeInv
<1>1. Init => LifeInv
  BY InitLife
<1>2. LifeInv /\ [Next]_vars => LifeInv'
  BY NextLife
<1> QED  BY <1>1, <1>2, PTL DEF Spec

-----------------------------------------------------------------------------
\* Every variable of the process keeps its type; no channel holds more than it
\* has room for.
THEOREM LifeTypeCorrect == Spec => []TypeOK
<1>1. LifeInv => TypeOK
  BY DEF LifeInv
<1> QED  BY <1>1, LifeAlways, PTL

\* No goroutine of Run is ever blocked on a full channel, even after Run has
\* returned and receives no more (indexer.go:79-80).
THEOREM ChannelsHaveRoom == Spec => []SendersNeverBlock
<1>1. LifeInv => SendersNeverBlock
  BY IndexerNames
  DEF LifeInv, TypeOK, AnswersCounted, SendersNeverBlock, ErrsSent, DonesSent,
      ErrSent, DoneSent, One, ChannelCapacity
<1> QED  BY <1>1, LifeAlways, PTL

\* An error that the only indexer to have returned reported reaches main.
THEOREM OnlyErrorIsReported == Spec => []ErrorOfOnlyIndexerReported
<1>1. LifeInv => ErrorOfOnlyIndexerReported
  <2> SUFFICES ASSUME LifeInv, runResult = "nil",
                      \A i \in Indexers : result[i] # "nil",
                      NEW j \in Indexers, result[j] # "error"
               PROVE  FALSE
    BY DEF ErrorOfOnlyIndexerReported
  <2>1. received = 2 /\ firstErr = "nil"
    BY DEF LifeInv, RunAnswers, NoResult, Receipts
  <2>2. ~ErrSent(j) /\ ~DoneSent(j)
    BY DEF LifeInv, TypeOK, ResultsKnown, Results, NoResult, ErrSent, DoneSent
  <2>3. OnlyErrorsSent
    BY DEF LifeInv, TypeOK, ResultsKnown, Results, NoResult, ErrSent,
           OnlyErrorsSent
  <2>4. Len(errChan) < ErrsSent
    BY <2>1, <2>2, IndexerNames
    DEF LifeInv, TypeOK, AnswersCounted, ErrsSent, DonesSent, One
  <2> QED  BY <2>1, <2>3, <2>4 DEF LifeInv, ErrorKept
<1> QED  BY <1>1, LifeAlways, PTL

\* No loop writes to a database that lacks one of the unique indexes.
THEOREM IndexesComeFirst == Spec => []IndexesBeforeIndexing
<1>1. LifeInv => IndexesBeforeIndexing
  <2> SUFFICES ASSUME LifeInv, NEW i \in Indexers, indexer[i] # "notStarted"
               PROVE  indexes = Indexes
    BY DEF IndexesBeforeIndexing
  <2>1. calls = 10
    BY CallsCount DEF LifeInv, StartedBefore, StartedUp
  <2>2. Indexes \subseteq indexes
    BY <2>1 DEF LifeInv, IndexesCreated, Indexes
  <2> QED  BY <2>2 DEF LifeInv, TypeOK, StartupTypeOK
<1> QED  BY <1>1, LifeAlways, PTL
=============================================================================
