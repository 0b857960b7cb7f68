---------------------------- MODULE EventIterator ----------------------------
(***************************************************************************)
(* Filter and the iterator it returns, for any event of the bindings.  The *)
(* library asks the node for the logs and starts a goroutine that sends    *)
(* them over a channel of bounded capacity; Next takes them from there,    *)
(* beside the subscription's error channel, which is closed when that      *)
(* goroutine ends.  The goroutine is the library's (go-ethereum's bind and *)
(* event packages) and modelled from how the iterator uses it.             *)
(*                                                                         *)
(* The channel holds the logs found[taken + 1] to found[sent].             *)
(***************************************************************************)
EXTENDS ContractEvents, SequencesExt

CONSTANTS
  Values,       \* what the indexed arguments of a log can be
  Asked,        \* the values a Filter call asks for; {}: any
  LogCapacity,  \* capacity of the log channel (128 in the library)
  MaxLogs       \* bound on the logs a query finds

ASSUME EventIteratorAssumption ==
  /\ Asked \subseteq Values
  /\ LogCapacity \in Nat \ {0}
  /\ MaxLogs \in Nat

VARIABLES
  event,      \* the event whose Filter is called
  found,      \* the logs the node returned
  sent,       \* how many of them were sent to the channel
  taken,      \* how many of them were taken from the channel
  producer,   \* the library's goroutine
  quit,       \* Unsubscribe has told it to quit
  done, fail, \* fields of the iterator; fail says whether it holds an error
  call,       \* the call that the reader is in: Next, Close or none
  more,       \* what the last Next returned
  delivered   \* the logs of the events that Next has set

iteratorVars == << event, found, sent, taken, producer, quit, done, fail, call,
                   more, delivered >>

WantedLogs(e) == {log \in Logs(Values) : Matches(e, Asked, log)}

IteratorTypeOK ==
  /\ event \in Events
  /\ found \in Seq(WantedLogs(event)) /\ Len(found) <= MaxLogs
  /\ delivered \in Seq(WantedLogs(event)) /\ Len(delivered) <= MaxLogs
  /\ sent \in 0 .. Len(found)
  /\ taken \in 0 .. sent /\ sent - taken <= LogCapacity
  /\ producer \in {"none", "sending", "ended"}
  /\ quit \in BOOLEAN /\ done \in BOOLEAN /\ fail \in BOOLEAN
  /\ call \in {"none", "next", "close"}
  /\ more \in {"unknown", "yes", "no"}

IteratorInit ==
  /\ event \in Events
  /\ found = << >> /\ sent = 0 /\ taken = 0
  /\ producer = "none" /\ quit = FALSE
  /\ done = FALSE /\ fail = FALSE
  /\ call = "none" /\ more = "unknown"
  /\ delivered = << >>

\* The node returns the logs of the query.  If it does not, there is no
\* iterator, and nothing has changed.
Filter ==
  /\ producer = "none"
  /\ found' \in BoundedSeq(WantedLogs(event), MaxLogs)
  /\ producer' = "sending"
  /\ UNCHANGED << event, sent, taken, quit, done, fail, call, more, delivered >>

-----------------------------------------------------------------------------
(***************************************************************************)
(* The library's goroutine.                                                *)
(***************************************************************************)
\* Mutant: the channel is taken to be unbounded.
SendUnbounded ==
  /\ producer = "sending"
  /\ sent < Len(found)
  /\ sent' = sent + 1
  /\ UNCHANGED << event, found, taken, producer, quit, done, fail, call, more,
                  delivered >>

Send ==
  /\ producer = "sending"
  /\ sent < Len(found) /\ sent - taken < LogCapacity
  /\ sent' = sent + 1
  /\ UNCHANGED << event, found, taken, producer, quit, done, fail, call, more,
                  delivered >>

\* Mutant: it does not listen to the quit channel while it waits to send.
ProducerEndsWhenSent ==
  /\ producer = "sending"
  /\ sent = Len(found)
  /\ producer' = "ended"
  /\ UNCHANGED << event, found, sent, taken, quit, done, fail, call, more,
                  delivered >>

\* All logs are sent, or it is told to quit: it ends and Err() is closed.
ProducerEnds ==
  /\ producer = "sending"
  /\ sent = Len(found) \/ quit
  /\ producer' = "ended"
  /\ UNCHANGED << event, found, sent, taken, quit, done, fail, call, more,
                  delivered >>

-----------------------------------------------------------------------------
(***************************************************************************)
(* Next.                                                                   *)
(***************************************************************************)
CallNext ==
  /\ producer # "none" /\ call = "none"
  /\ call' = "next"
  /\ UNCHANGED << event, found, sent, taken, producer, quit, done, fail, more,
                  delivered >>

NextReturns(answer) == call' = "none" /\ more' = answer

NextAfterFailure ==
  /\ call = "next" /\ fail
  /\ NextReturns("no")
  /\ UNCHANGED << event, found, sent, taken, producer, quit, done, fail,
                  delivered >>

\* The select of a running or of a completed iterator receives a log.
NextTakesLog ==
  /\ call = "next" /\ ~fail
  /\ taken < sent
  /\ taken' = taken + 1
  /\ LET log == found[taken + 1]
     IN  IF Unpacks(event, log)
           THEN /\ delivered' = Append(delivered, log)
                /\ fail' = FALSE
                /\ NextReturns("yes")
           ELSE /\ fail' = TRUE
                /\ NextReturns("no")
                /\ UNCHANGED delivered
  /\ UNCHANGED << event, found, sent, producer, quit, done >>

\* The select receives from the closed error channel, maybe before the logs
\* that the other channel still holds, and Next calls itself.
NextSeesEnd ==
  /\ call = "next" /\ ~fail /\ ~done
  /\ producer = "ended"
  /\ done' = TRUE
  /\ UNCHANGED << event, found, sent, taken, producer, quit, fail, call, more,
                  delivered >>

\* Mutant: an iterator that is done does not look for logs that are left.
NextEndsWhenDone ==
  /\ call = "next" /\ ~fail /\ done
  /\ NextReturns("no")
  /\ UNCHANGED << event, found, sent, taken, producer, quit, done, fail,
                  delivered >>

NextEnds ==
  /\ call = "next" /\ ~fail /\ done
  /\ taken = sent
  /\ NextReturns("no")
  /\ UNCHANGED << event, found, sent, taken, producer, quit, done, fail,
                  delivered >>

-----------------------------------------------------------------------------
\* Close tells the goroutine to quit, and returns when it has ended.
CallClose ==
  /\ producer # "none" /\ call = "none"
  /\ call' = "close"
  /\ quit' = TRUE
  /\ UNCHANGED << event, found, sent, taken, producer, done, fail, more,
                  delivered >>

CloseReturns ==
  /\ call = "close"
  /\ producer = "ended"
  /\ call' = "none"
  /\ UNCHANGED << event, found, sent, taken, producer, quit, done, fail, more,
                  delivered >>

Producer == Send \/ ProducerEnds

ReturningCall ==
  \/ NextAfterFailure \/ NextTakesLog \/ NextSeesEnd \/ NextEnds
  \/ CloseReturns

IteratorNext == Filter \/ Producer \/ CallNext \/ CallClose \/ ReturningCall

IteratorFairness == WF_iteratorVars(Producer) /\ WF_iteratorVars(ReturningCall)

-----------------------------------------------------------------------------
ReadingState ==
  CASE producer = "none" -> "none"
    [] fail -> "failed"
    [] more = "no" /\ ~fail -> "ended"
    [] OTHER -> "open"

Reading == INSTANCE LogReading WITH
  logs <- found, state <- ReadingState, closed <- quit

\* The goroutine, its channels and the order in which Next looks at them do not
\* show: a reader gets every log of the query once and in order, and is told
\* that there are no more only after the last one, or after it closed the
\* iterator, or with an error (the comment on Next, L1StandardBridge.go:1553).
ReadsEveryLog == Reading!Spec

\* Every call returns: Next never waits for a log that does not come, and Close
\* ends a goroutine that is blocked on a channel nobody reads any more.
CallsReturn == call # "none" ~> call = "none"
=============================================================================
