--------------------------- MODULE MCEventReading ---------------------------
(***************************************************************************)
(* How events are read: one use of the Filter of an event, one use of its  *)
(* Watch, or the collection of the bridge transactions of a range.         *)
(***************************************************************************)
EXTENDS EventIterator, EventSubscription, BatchCollector, TLC

CONSTANTS v1, v2, t1, t2, m1, m2, m3

\* Two bridge transactions, of which one may send two messages.
MCSent == { t1 :> << m1 >> @@ t2 :> << m3 >>,
            t1 :> << m1, m2 >> @@ t2 :> << m3 >> }

\* All receipts can be parsed, or one cannot.
MCUnreadable == { {}, {<< t1, "message" >>}, {<< t2, "withdrawal" >>} }

VARIABLE use   \* which of the three

vars == << iteratorVars, watchVars, collectorVars, use >>

TypeOK ==
  /\ IteratorTypeOK /\ WatchTypeOK /\ CollectorTypeOK
  /\ use \in {"Filter", "Watch", "Collect"}

\* What is not in use starts in one of its states, and stays there.
Init ==
  /\ IteratorInit /\ WatchInit /\ CollectorInit
  /\ use \in {"Filter", "Watch", "Collect"}
  /\ use # "Filter" => event = L1StandardBridgeETHBridgeInitiated
  /\ use # "Collect" =>
       side = "L1" /\ unreadable = {} /\ events = (FALSE :> << t1, t2 >> @@ TRUE :> << >>)

Next ==
  /\ \/ /\ use = "Filter" /\ IteratorNext
        /\ UNCHANGED << watchVars, collectorVars >>
     \/ /\ use = "Watch" /\ WatchNext
        /\ UNCHANGED << iteratorVars, collectorVars >>
     \/ /\ use = "Collect" /\ CollectorNext
        /\ UNCHANGED << iteratorVars, watchVars >>
  /\ UNCHANGED use

\* A call of the collection is answered, or fails, or (CallHangs, WriteHangs)
\* never returns.
Spec ==
  /\ Init /\ [][Next]_vars
  /\ IteratorFairness /\ WatchFairness
  /\ WF_vars(/\ use = "Collect" /\ Call
             /\ UNCHANGED << iteratorVars, watchVars, use >>)
=============================================================================
