-------------------------- MODULE EventSubscription --------------------------
(***************************************************************************)
(* Watch, for any event of the bindings: a goroutine takes the logs that   *)
(* the node pushes, unpacks them and sends them to the caller's channel,   *)
(* until one cannot be unpacked, the node's subscription fails, or the     *)
(* caller unsubscribes.  The program itself only uses Filter.              *)
(***************************************************************************)
EXTENDS ContractEvents

CONSTANT MaxPushed   \* bound on the logs that the node pushes

ASSUME EventSubscriptionAssumption == MaxPushed \in Nat

VARIABLES
  pushed,        \* for each log that the node pushed: does it unpack?
  received,      \* how many of them the goroutine has received
  holding,       \* it has unpacked one that the sink has not taken yet
  sunk,          \* how many events the sink has taken
  nodeFailed,    \* the node's subscription has an error
  watcher,       \* the goroutine: "running", or why it has returned
  unsubscribing  \* the caller is in Unsubscribe

watchVars == << pushed, received, holding, sunk, nodeFailed, watcher,
                unsubscribing >>

WatchTypeOK ==
  /\ pushed \in Seq(BOOLEAN) /\ Len(pushed) <= MaxPushed
  /\ received \in 0 .. Len(pushed)
  /\ holding \in BOOLEAN /\ nodeFailed \in BOOLEAN
  /\ sunk \in 0 .. received
  /\ watcher \in {"running", "unpackError", "nodeError", "quit"}
  /\ unsubscribing \in BOOLEAN

WatchInit ==
  /\ pushed = << >> /\ received = 0 /\ holding = FALSE /\ sunk = 0
  /\ nodeFailed = FALSE
  /\ watcher = "running"
  /\ unsubscribing = FALSE

-----------------------------------------------------------------------------
NodePushes(unpacks) ==
  /\ Len(pushed) < MaxPushed
  /\ pushed' = Append(pushed, unpacks)
  /\ UNCHANGED << received, holding, sunk, nodeFailed, watcher, unsubscribing >>

NodeFails ==
  /\ ~nodeFailed
  /\ nodeFailed' = TRUE
  /\ UNCHANGED << pushed, received, holding, sunk, watcher, unsubscribing >>

WatcherReceives ==
  /\ watcher = "running" /\ ~holding
  /\ received < Len(pushed)
  /\ received' = received + 1
  /\ holding' = pushed[received + 1]
  /\ watcher' = IF holding' THEN "running" ELSE "unpackError"
  /\ UNCHANGED << pushed, sunk, nodeFailed, unsubscribing >>

\* The caller receives from its channel: it may stop doing so at any time.
SinkTakes ==
  /\ watcher = "running" /\ holding
  /\ holding' = FALSE
  /\ sunk' = sunk + 1
  /\ UNCHANGED << pushed, received, nodeFailed, watcher, unsubscribing >>

\* Mutant: with an event in its hands the goroutine only waits for the sink.
WatcherQuitsBetweenEvents ==
  /\ watcher = "running" /\ unsubscribing /\ ~holding
  /\ watcher' = "quit"
  /\ UNCHANGED << pushed, received, holding, sunk, nodeFailed, unsubscribing >>

\* Both selects listen to the quit channel and to the node's errors: an event
\* in the goroutine's hands is then dropped.
WatcherQuits ==
  /\ watcher = "running" /\ unsubscribing
  /\ watcher' = "quit"
  /\ UNCHANGED << pushed, received, holding, sunk, nodeFailed, unsubscribing >>

WatcherSeesNodeError ==
  /\ watcher = "running" /\ nodeFailed
  /\ watcher' = "nodeError"
  /\ UNCHANGED << pushed, received, holding, sunk, nodeFailed, unsubscribing >>

CallUnsubscribe ==
  /\ ~unsubscribing
  /\ unsubscribing' = TRUE
  /\ UNCHANGED << pushed, received, holding, sunk, nodeFailed, watcher >>

UnsubscribeReturns ==
  /\ unsubscribing /\ watcher # "running"
  /\ unsubscribing' = FALSE
  /\ UNCHANGED << pushed, received, holding, sunk, nodeFailed, watcher >>

WatchNext ==
  \/ \E unpacks \in BOOLEAN : NodePushes(unpacks)
  \/ NodeFails
  \/ WatcherReceives \/ SinkTakes \/ WatcherQuits \/ WatcherSeesNodeError
  \/ CallUnsubscribe \/ UnsubscribeReturns

WatchFairness ==
  WF_watchVars(WatcherQuits) /\ WF_watchVars(UnsubscribeReturns)

-----------------------------------------------------------------------------
\* Unsubscribe returns also when nobody takes events from the sink any more:
\* the goroutine is not left behind with an event in its hands.
UnsubscribingEnds == unsubscribing ~> ~unsubscribing
=============================================================================
