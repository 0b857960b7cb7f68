------------------------- MODULE MCTransactionsApi -------------------------
(***************************************************************************)
(* A small instance of the API.                                            *)
(***************************************************************************)
EXTENDS TransactionsApi, TLC

CONSTANTS w1, d1, d2

\* With IntLimit = 16, 16 * 10 and 16 * 2 are 0, 16 * 1 is negative.
MCPages == {17}
MCPageSizes == {1, 2, NotANumber}

MCFilters ==
  {[status |-> "", type |-> ""], [status |-> "", type |-> "deposit"],
   [status |-> "pending", type |-> "withdrawal"],
   [status |-> "action-needed", type |-> ""]}

\* All orders and ties.
MCBlockTimes ==
  {times \in [Transactions -> 1 .. Cardinality(Transactions)] :
     \A t \in Transactions :
       times[t] = 1 \/ \E u \in Transactions : times[u] = times[t] - 1}

\* Any number of documents, none of which goes on.
NewDocuments ==
  [evidence : {{<< t, FirstStatus(t) >> : t \in Transactions}},
   blockTime : MCBlockTimes]

\* A withdrawal and one of the deposits at any stage, the other one not seen.
AnyStage ==
  [evidence : {{e \in PossibleEvidence : e[1] \in {w1, d}} : d \in Deposits},
   blockTime : {[t \in Transactions |-> 1]}]

MCWorlds == NewDocuments \cup AnyStage

Symmetry == Permutations(Deposits)
=============================================================================
