------------------------------ MODULE LogReading ------------------------------
(***************************************************************************)
(* What a loop over an iterator is entitled to: the logs of one query, in  *)
(* order, each once.  It ends after the last one, or at a log that cannot  *)
(* be unpacked, or anywhere once the reading was closed.  Without channels *)
(* and goroutines.                                                         *)
(***************************************************************************)
EXTENDS Integers, Sequences

VARIABLES
  logs,       \* the logs of the query
  delivered,  \* those the reader has got
  state,      \* "none", then "open", and in the end "ended" or "failed"
  closed      \* has the reader closed the reading?

readingVars == << logs, delivered, state, closed >>

Init == logs = << >> /\ delivered = << >> /\ state = "none" /\ closed = FALSE

Open ==
  /\ state = "none"
  /\ state' = "open"
  /\ UNCHANGED << delivered, closed >>

IsNext(log) ==
  Len(delivered) < Len(logs) /\ log = logs[Len(delivered) + 1]

Deliver(log) ==
  /\ state = "open"
  /\ IsNext(log) /\ log.decodes
  /\ delivered' = Append(delivered, log)
  /\ UNCHANGED << logs, state, closed >>

Fail(log) ==
  /\ state = "open"
  /\ IsNext(log) /\ ~log.decodes
  /\ state' = "failed"
  /\ UNCHANGED << logs, delivered, closed >>

End ==
  /\ state = "open"
  /\ Len(delivered) = Len(logs) \/ closed
  /\ state' = "ended"
  /\ UNCHANGED << logs, delivered, closed >>

Close ==
  /\ state # "none"
  /\ closed' = TRUE
  /\ UNCHANGED << logs, delivered, state >>

Next ==
  \/ Open
  \/ \E i \in DOMAIN logs : Deliver(logs[i]) \/ Fail(logs[i])
  \/ End
  \/ Close

Spec == Init /\ [][Next]_readingVars
=============================================================================
