------------------------------- MODULE Startup -------------------------------
(***************************************************************************)
(* What main does before it indexes, one call after the other: it reads    *)
(* the environment, NewIndexer dials both nodes, connects to the database  *)
(* and creates its indexes, the API server gets a connection of its own    *)
(* and is started, and the signals are redirected to a channel.  A call    *)
(* that fails ends the process (log.Fatal).                                *)
(***************************************************************************)
EXTENDS Naturals, Sequences

Calls == << "environment", "lightlinkClient", "ethereumClient", "database",
            "transactionsIndexes", "provenIndex", "finalizedIndex",
            "server", "startServer", "notify" >>

Indexes == {"transactionsIndexes", "provenIndex", "finalizedIndex"}

VARIABLES
  calls,     \* how many of the calls have returned
  indexes,   \* the indexes of the database
  serving    \* is the goroutine of the API server started?

startupVars == << calls, indexes, serving >>

StartupTypeOK ==
  /\ calls \in 0 .. Len(Calls)
  /\ indexes \subseteq Indexes
  /\ serving \in BOOLEAN

\* A database that an earlier process has used may have any of the indexes.
StartupInit ==
  /\ calls = 0
  /\ indexes \in SUBSET Indexes
  /\ serving = FALSE

StartedUp == calls = Len(Calls)

\* Before signal.Notify, a signal has its default effect.
SignalsRedirected == StartedUp

\* Mutant: the last index is created without a look at the error.
CallReturnsUnchecked ==
  /\ ~StartedUp
  /\ LET call == Calls[calls + 1]
     IN /\ indexes' \in
             {indexes \cup ({call} \cap Indexes)}
               \cup (IF call = "finalizedIndex" THEN {indexes} ELSE {})
        /\ serving' = (serving \/ call = "startServer")
  /\ calls' = calls + 1

CallReturns ==
  /\ ~StartedUp
  /\ LET call == Calls[calls + 1]
     IN /\ indexes' = indexes \cup ({call} \cap Indexes)
        /\ serving' = (serving \/ call = "startServer")
  /\ calls' = calls + 1

\* The go statement and signal.Notify return nothing.
CallFails ==
  /\ calls < Len(Calls) - 2
  /\ UNCHANGED startupVars
=============================================================================
