------------------------- MODULE TransactionsApiProofs -------------------------
(***************************************************************************)
(* Theorems about the transactions API: what an answer that was put        *)
(* together by several queries says about a database that was written to   *)
(* in between, and what a walk through the pages has shown at its end.     *)
(***************************************************************************)
EXTENDS TransactionsApi, FiniteSetTheorems, TLAPS

-----------------------------------------------------------------------------
(***************************************************************************)
(* Counting transactions.                                                  *)
(***************************************************************************)
LEMMA TransactionsAreFew ==
  /\ IntLimit \in Nat /\ IsFiniteSet(Transactions)
  /\ Cardinality(Transactions) \in Nat
  /\ Cardinality(Transactions) < IntLimit
<1>1. /\ IntLimit \in Nat /\ IsFiniteSet(Transactions)
      /\ Cardinality(Transactions) < IntLimit
  BY ApiAssumption, Zenon
<1> QED  BY <1>1, FS_CardinalityType

\* A set of documents is finite and its count fits in an int64.
LEMMA CountsAreSmall ==
  ASSUME NEW S \in SUBSET Transactions
  PROVE  /\ IsFiniteSet(S)
         /\ Cardinality(S) \in 0 .. Cardinality(Transactions)
         /\ Cardinality(S) \in Nat /\ Cardinality(S) < IntLimit
<1>1. IsFiniteSet(S) /\ Cardinality(S) <= Cardinality(Transactions)
  BY TransactionsAreFew, FS_Subset
<1>2. Cardinality(S) \in Nat
  BY <1>1, FS_CardinalityType
<1> QED  BY <1>1, <1>2, TransactionsAreFew

\* A larger set of documents counts more.
LEMMA MoreCountsMore ==
  ASSUME NEW T \in SUBSET Transactions, NEW S \in SUBSET T
  PROVE  Cardinality(S) <= Cardinality(T)
BY CountsAreSmall, FS_Subset

(***************************************************************************)
(* Orders of the matching transactions, and pages of them.                 *)
(***************************************************************************)
\* An order of a set is a sequence of its members, each at one place.
LEMMA OrderListsAll ==
  ASSUME NEW M \in SUBSET Transactions, NEW order \in SetToSeqs(M)
  PROVE  /\ order \in Seq(M) /\ Len(order) = Cardinality(M)
         /\ \A i, j \in 1 .. Len(order) : i # j => order[i] # order[j]
         /\ \A t \in M : \E k \in 1 .. Len(order) : order[k] = t
<1> DEFINE n == Cardinality(M)
<1>1. n \in Nat /\ IsFiniteSet(M)
  BY CountsAreSmall
<1>2. /\ order \in [1 .. n -> M]
      /\ \A i, j \in 1 .. n : i # j => order[i] # order[j]
  BY DEF SetToSeqs
<1>3. order \in Injection(1 .. n, M)
  BY <1>2 DEF Injection, IsInjective
<1>4. IsFiniteSet(1 .. n) /\ Cardinality(1 .. n) = n
  BY <1>1, FS_Interval
<1>5. order \in Surjection(1 .. n, M)
  BY <1>1, <1>3, <1>4, FS_Injection
<1>6. \A t \in M : \E k \in 1 .. n : order[k] = t
  BY <1>5 DEF Surjection
<1>7. order \in Seq(M) /\ Len(order) = n
  BY <1>1, <1>2
<1> QED  BY <1>2, <1>6, <1>7

\* In an order by block time, newest first, a transaction whose block time no
\* other one has comes after as many as are newer than it.
LEMMA RankOfUntied ==
  ASSUME NEW M \in SUBSET Transactions, NEW order \in SetToSeqs(M),
         blockTime \in [Transactions -> Nat],
         Newest(order), NEW k \in 1 .. Len(order),
         \A u \in M \ {order[k]} : blockTime[u] # blockTime[order[k]]
  PROVE  Cardinality({u \in M : blockTime[u] > blockTime[order[k]]}) = k - 1
<1> DEFINE newer == {u \in M : blockTime[u] > blockTime[order[k]]}
           before == [i \in 1 .. (k - 1) |-> order[i]]
<1>1. /\ order \in Seq(M) /\ Len(order) \in Nat
      /\ \A i, j \in 1 .. Len(order) : i # j => order[i] # order[j]
      /\ \A t \in M : \E i \in 1 .. Len(order) : order[i] = t
  BY OrderListsAll
<1>2. \A i \in 1 .. Len(order) : order[i] \in M
  BY <1>1
<1>3. \A i, j \in 1 .. Len(order) :
        i < j => blockTime[order[i]] >= blockTime[order[j]]
  <2>1. DOMAIN order = 1 .. Len(order)
    BY <1>1
  <2> QED  BY <2>1 DEF Newest
<1>4. \A t \in M : blockTime[t] \in Nat
  OBVIOUS
<1>5. ASSUME NEW i \in 1 .. (k - 1)  PROVE before[i] \in newer
  <2>1. i \in 1 .. Len(order) /\ i < k
    BY <1>1
  <2>2. order[i] \in M
    BY <1>2, <2>1
  <2>4. order[i] # order[k]
    BY <1>1, <2>1
  <2>3. blockTime[order[i]] >= blockTime[order[k]]
    BY <1>3, <2>1
  <2> QED  BY <1>2, <1>4, <2>2, <2>3, <2>4
<1>6. ASSUME NEW t \in newer  PROVE \E i \in 1 .. (k - 1) : before[i] = t
  <2>1. PICK i \in 1 .. Len(order) : order[i] = t
    BY <1>1
  <2>2. blockTime[order[i]] > blockTime[order[k]]
    BY <2>1
  <2>3. ~(k < i) /\ i # k
    BY <1>2, <1>3, <1>4, <2>2
  <2>4. i < k
    BY <2>3
  <2> QED  BY <2>1, <2>4
<1>7. ASSUME NEW i \in 1 .. (k - 1), NEW j \in 1 .. (k - 1),
             before[i] = before[j]
      PROVE  i = j
  <2>1. i \in 1 .. Len(order) /\ j \in 1 .. Len(order)
    BY <1>1
  <2> QED  BY <1>1, <1>7, <2>1
<1>8. before \in Bijection(1 .. (k - 1), newer)
  <2>1. before \in [1 .. (k - 1) -> newer]
    BY <1>5
  <2> QED  BY <2>1, <1>6, <1>7
           DEF Bijection, Injection, IsInjective, Surjection
<1>9. ExistsBijection(1 .. (k - 1), newer)
  BY <1>8 DEF ExistsBijection
<1>10. k - 1 \in Nat
  BY <1>1
<1> QED  BY <1>9, <1>10, FS_CountingElements

\* Arithmetic of int64 wraps into its range.
LEMMA WrapIsBelow ==
  ASSUME NEW n \in Nat
  PROVE  /\ Wrap(n) \in Int /\ Wrap(n) <= n
         /\ n < IntLimit => Wrap(n) = n
<1>1. IntLimit \in Nat /\ IntLimit > 0
  BY TransactionsAreFew
<1>2. \A a \in Nat, b \in Nat \ {0} :
        a % b \in Nat /\ a % b <= a /\ (a < b => a % b = a)
  OBVIOUS
<1>3. n + IntLimit \in Nat /\ 2 * IntLimit \in Nat \ {0}
  BY <1>1
<1> QED  BY <1>1, <1>2, <1>3 DEF Wrap

\* The page that the query returns has the rows of the order after the skipped
\* ones, up to its limit.
LEMMA PageOfOrder ==
  ASSUME NEW order \in Seq(Transactions), NEW skip \in Nat,
         NEW limit \in Nat \ {0}
  PROVE  LET page == Page(order, skip, limit)
         IN /\ page \in Seq(Transactions)
            /\ Len(page) = IF skip + limit < Len(order) THEN limit
                           ELSE IF skip < Len(order) THEN Len(order) - skip
                           ELSE 0
            /\ \A i \in 1 .. Len(page) :
                 i + skip \in 1 .. Len(order) /\ page[i] = order[i + skip]
<1> DEFINE last == IF skip + limit < Len(order) THEN skip + limit
                                                ELSE Len(order)
           page == Page(order, skip, limit)
<1>1. /\ Len(order) \in Nat /\ last \in 0 .. Len(order) /\ limit > 0
      /\ \A i \in 1 .. Len(order) : order[i] \in Transactions
  OBVIOUS
<1>2. page = SubSeq(order, skip + 1, last)
  BY DEF Page
<1> HIDE DEF last, page
<1>3. /\ Len(page) = IF skip + 1 <= last THEN last - skip ELSE 0
      /\ page \in Seq(Transactions)
  BY <1>1, <1>2
<1>4. \A i \in 1 .. Len(page) :
        i + skip \in 1 .. Len(order) /\ page[i] = order[i + skip]
  <2> SUFFICES ASSUME NEW i \in 1 .. Len(page)
               PROVE  i + skip \in 1 .. Len(order) /\ page[i] = order[i + skip]
    OBVIOUS
  <2>1. i \in Nat /\ 1 <= i /\ i <= last - skip /\ i + skip \in 1 .. last
    BY <1>1, <1>3
  <2>2. i + skip \in 1 .. Len(order)
    BY <1>1, <2>1
  <2>3. page[i] = order[skip + 1 + i - 1]
    BY <1>1, <1>2, <2>1, <2>2
  <2> QED  BY <2>1, <2>2, <2>3
<1>5. Len(page) = IF skip + limit < Len(order) THEN limit
                  ELSE IF skip < Len(order) THEN Len(order) - skip
                  ELSE 0
  BY <1>1, <1>3 DEF last
<1> QED  BY <1>3, <1>4, <1>5 DEF page

-----------------------------------------------------------------------------
(***************************************************************************)
(* The types.                                                              *)
(***************************************************************************)
Requests ==
  [filter : Filters \cup {NoListRequest.filter},
   page : Nat \ {0}, pageSize : Nat \ {0}, walk : BOOLEAN]

Statuses == UNION {StatusesOf(t) : t \in Transactions}

StoreOK ==
  /\ status \in [Transactions -> {NoDocument} \cup Statuses]
  /\ proven \subseteq Withdrawals /\ finalized \subseteq Withdrawals
  /\ blockTime \in [Transactions -> Nat]

CountsOK ==
  /\ total \in 0 .. Cardinality(Transactions)
  /\ actionNeeded \in 0 .. Cardinality(Transactions)
  /\ pending \in 0 .. Cardinality(Transactions)

RowsOK == rows \in Seq(Rows) /\ Len(rows) <= request.pageSize

AnyStatus(f) == f.status = ""

\* Nothing but a walk has something to show, and it has no filter on the
\* status.
WalkOK ==
  /\ unseen \subseteq Documents
  /\ unseen # {} => request.walk
  /\ request.walk => AnyStatus(request.filter)
  /\ \A t \in unseen : OfType(t, request.filter.type)

TypeInv ==
  /\ request \in Requests
  /\ step \in Steps
  /\ StoreOK /\ CountsOK /\ RowsOK /\ WalkOK

\* Every document has a status of its kind.
LEMMA StatusNames ==
  /\ Statuses \subseteq PendingStatuses \cup ActionNeededStatuses
                          \cup {"RELAYED"}
  /\ NoDocument \notin Statuses
BY DEF Statuses, StatusesOf, PendingStatuses, ActionNeededStatuses, NoDocument

\* The indexer adds documents and records and takes none away.
LEMMA IndexerOnlyAdds ==
  ASSUME StoreOK, IndexerWrites
  PROVE  StoreOK' /\ Documents \subseteq Documents' /\ proven \subseteq proven'
<1>1. ASSUME NEW txs \in SUBSET Transactions \ {{}},
             NEW s \in UNION {StatusesOf(t) : t \in txs},
             WriteStatus(txs, s)
      PROVE  StoreOK' /\ Documents \subseteq Documents'
               /\ proven \subseteq proven'
  <2>1. s \in Statuses /\ s # NoDocument
    BY StatusNames DEF Statuses
  <2> QED
    BY <1>1, <2>1 DEF WriteStatus, StoreOK, Documents, IndexerWrites
<1>2. ASSUME NEW w \in Withdrawals, RecordProven(w) \/ RecordFinalized(w)
      PROVE  StoreOK' /\ Documents \subseteq Documents'
               /\ proven \subseteq proven'
  BY <1>2 DEF RecordProven, RecordFinalized, StoreOK, Documents, IndexerWrites
<1> QED  BY <1>1, <1>2 DEF IndexerWrites

\* Whatever the client and the handler do, the database is as it was.
LEMMA OthersDoNotWrite ==
  ClientAsks \/ HandlerGoesOn \/ UNCHANGED apiVars =>
    UNCHANGED << mirrorVars, blockTime >>
BY DEF ClientAsks, HandlerGoesOn, apiVars, AskForPage, StartWalk, NextPage,
       AskAgain, GetByHash, CountTotal, CountActionNeeded, CountPending, Match,
       LookupProven, LookupFinalized, RequestFails

\* The writes of the indexer keep the collections typed.
LEMMA StoreStaysOK ==
  ASSUME StoreOK, [ApiNext]_apiVars
  PROVE  StoreOK' /\ Documents \subseteq Documents' /\ proven \subseteq proven'
<1>1. CASE IndexerWrites
  BY <1>1, IndexerOnlyAdds
<1>2. CASE UNCHANGED << mirrorVars, blockTime >>
  BY <1>2 DEF mirrorVars, StoreOK, Documents
<1> QED  BY <1>1, <1>2, OthersDoNotWrite DEF ApiNext

\* The fields of a request.
LEMMA RequestFields ==
  ASSUME NEW r \in Requests
  PROVE  /\ r.page \in Nat \ {0} /\ r.pageSize \in Nat \ {0}
         /\ r.walk \in BOOLEAN
         /\ r.filter \in Filters \cup {NoListRequest.filter}
BY Zenon DEF Requests

\* What a query finds.
LEMMA MatchingDocuments ==
  ASSUME NEW f  PROVE Matching(f) \in SUBSET Transactions
BY DEF Matching, Documents

\* The rows that Match leaves: those of an order by block time.
LEMMA MatchGivesPage ==
  ASSUME TypeInv, Match
  PROVE  LET skip == Skip(request)
         IN /\ skip \in Nat
            /\ \E order \in SetToSeqs(Matching(request.filter)) :
                 /\ Newest(order)
                 /\ Len(rows') = IF skip + request.pageSize < Len(order)
                                   THEN request.pageSize
                                 ELSE IF skip < Len(order)
                                   THEN Len(order) - skip
                                 ELSE 0
                 /\ rows' \in Seq(Rows)
                 /\ \A i \in 1 .. Len(rows') :
                      /\ i + skip \in 1 .. Len(order)
                      /\ rows'[i].transaction = order[i + skip]
                      /\ rows'[i].status = status[order[i + skip]]
<1> DEFINE M == Matching(request.filter)
           skip == Skip(request)
<1>1. request.page - 1 \in Nat /\ request.pageSize \in Nat \ {0}
  <2>1. request.page \in Nat \ {0} /\ request.pageSize \in Nat \ {0}
    BY RequestFields DEF TypeInv
  <2> QED  BY <2>1
<1>2. skip \in Nat
  <2>1. (request.page - 1) * request.pageSize \in Nat
    BY <1>1
  <2>2. skip \in Int /\ skip >= 0
    BY <2>1, WrapIsBelow DEF Skip, Match
  <2> QED  BY <2>2
<1>3. PICK order \in SetToSeqs(M) :
        /\ Newest(order)
        /\ LET page == Page(order, skip, request.pageSize)
           IN rows' = [i \in DOMAIN page |->
                         [transaction |-> page[i], status |-> status[page[i]],
                          proveTx |-> FALSE, finalizeTx |-> FALSE]]
  BY DEF Match
<1> DEFINE page == Page(order, skip, request.pageSize)
<1>4. M \in SUBSET Transactions
  BY MatchingDocuments
<1>5. order \in Seq(M) /\ order \in Seq(Transactions)
  BY <1>4, OrderListsAll
<1>6. /\ page \in Seq(Transactions)
      /\ Len(page) = IF skip + request.pageSize < Len(order)
                       THEN request.pageSize
                     ELSE IF skip < Len(order) THEN Len(order) - skip
                     ELSE 0
      /\ \A i \in 1 .. Len(page) :
           i + skip \in 1 .. Len(order) /\ page[i] = order[i + skip]
  BY <1>1, <1>2, <1>5, PageOfOrder
<1>7. DOMAIN page = 1 .. Len(page) /\ Len(page) \in Nat
  BY <1>6
<1>8. rows' = [i \in 1 .. Len(page) |->
                 [transaction |-> page[i], status |-> status[page[i]],
                  proveTx |-> FALSE, finalizeTx |-> FALSE]]
  BY <1>3, <1>7
<1>9. \A i \in 1 .. Len(page) : status[page[i]] \in Statuses
  <2> TAKE i \in 1 .. Len(page)
  <2>1. page[i] \in M
    BY <1>5, <1>6
  <2>2. page[i] \in Transactions /\ status[page[i]] # NoDocument
    BY <2>1 DEF Matching, Documents
  <2> QED  BY <2>2 DEF TypeInv, StoreOK
<1>10. \A i \in 1 .. Len(page) : page[i] \in Transactions
  BY <1>6
<1>11. \A i \in 1 .. Len(page) :
         [transaction |-> page[i], status |-> status[page[i]],
          proveTx |-> FALSE, finalizeTx |-> FALSE] \in Rows
  BY <1>9, <1>10, Zenon DEF Rows, Statuses
<1>12. rows' \in Seq(Rows) /\ Len(rows') = Len(page)
  BY <1>7, <1>8, <1>11
<1>13. \A i \in 1 .. Len(rows') :
         rows'[i].transaction = page[i] /\ rows'[i].status = status[page[i]]
  BY <1>8, <1>12
<1>14. /\ Len(rows') = IF skip + request.pageSize < Len(order)
                          THEN request.pageSize
                        ELSE IF skip < Len(order) THEN Len(order) - skip
                        ELSE 0
       /\ \A i \in 1 .. Len(rows') :
            /\ i + skip \in 1 .. Len(order)
            /\ rows'[i].transaction = order[i + skip]
            /\ rows'[i].status = status[order[i + skip]]
  BY <1>6, <1>12, <1>13
<1>15. rows' \in Seq(Rows) /\ Newest(order)
  BY <1>3, <1>12
<1> HIDE DEF skip
<1> QED  BY <1>2, <1>14, <1>15, Zenon DEF skip, M

\* Whatever the parameters are, the page and its size are positive numbers.
LEMMA ParametersArePositive ==
  /\ \A raw \in Pages : PageOf(raw) \in Nat \ {0}
  /\ \A raw \in PageSizes \cup {NotANumber} : PageSizeOf(raw) \in Nat \ {0}
  /\ PageOf(NotANumber) = 1
  /\ \A n \in Nat \ {0} : PageOf(n) = n
<1>1. /\ NotANumber \notin Int
      /\ Pages \ {NotANumber} \subseteq Int
      /\ PageSizes \ {NotANumber} \subseteq Int
  BY ApiAssumption, Zenon
<1> QED  BY <1>1 DEF PageOf, PageSizeOf

\* A request is never answered under another's page, size or filter.
LEMMA RequestStaysOK ==
  ASSUME TypeInv, [ApiNext]_apiVars
  PROVE  request' \in Requests
<1>1. ASSUME NEW f \in Filters, NEW pageSize \in PageSizes,
             NEW page \in Pages, AskForPage(f, page, pageSize)
      PROVE  request' \in Requests
  <2>1. request' = [filter |-> f, page |-> PageOf(page),
                    pageSize |-> PageSizeOf(pageSize), walk |-> FALSE]
    BY <1>1 DEF AskForPage, NewRequest
  <2> QED  BY <2>1, ParametersArePositive, Zenon DEF Requests
<1>2. ASSUME NEW f \in Filters, NEW pageSize \in PageSizes,
             StartWalk(f, pageSize)
      PROVE  request' \in Requests
  <2>1. request' = [filter |-> f, page |-> PageOf(NotANumber),
                    pageSize |-> PageSizeOf(pageSize), walk |-> TRUE]
    BY <1>2 DEF StartWalk, NewRequest
  <2>2. PageOf(NotANumber) \in Nat \ {0}
    BY ParametersArePositive
  <2> QED  BY <2>1, <2>2, ParametersArePositive, Zenon DEF Requests
<1>3. CASE NextPage
  <2>1. request' = [request EXCEPT !.page = PageOf(request.page + 1)]
    BY <1>3 DEF NextPage, NewRequest
  <2>2. PageOf(request.page + 1) \in Nat \ {0}
    <3>1. request.page \in Nat \ {0}
      BY RequestFields DEF TypeInv
    <3>2. request.page + 1 \in Nat \ {0}
      BY <3>1
    <3> QED  BY <3>2, ParametersArePositive
  <2> QED  BY <2>1, <2>2, Zenon DEF TypeInv, Requests
<1>4. ASSUME NEW t \in Transactions, GetByHash(t)
      PROVE  request' \in Requests
  <2>1. request' = [filter |-> NoListRequest.filter,
                    page |-> 1, pageSize |-> 10, walk |-> FALSE]
    BY <1>4 DEF GetByHash, NoListRequest
  <2>2. 1 \in Nat \ {0} /\ 10 \in Nat \ {0}
    OBVIOUS
  <2> QED  BY <2>1, <2>2, Zenon DEF Requests
<1>5. CASE UNCHANGED request
  BY <1>5 DEF TypeInv
<1>6. AskAgain \/ HandlerGoesOn \/ IndexerWrites \/ UNCHANGED apiVars
        => UNCHANGED request
  BY DEF AskAgain, NewRequest, HandlerGoesOn, CountTotal, CountActionNeeded,
         CountPending, Match, LookupProven, LookupFinalized, RequestFails,
         IndexerWrites, apiVars, requestVars
<1> QED  BY <1>1, <1>2, <1>3, <1>4, <1>5, <1>6 DEF ApiNext, ClientAsks

\* A lookup fills in one field of each row.
WithProveTx(r) == [r EXCEPT !.proveTx = r.transaction \in proven]

WithFinalizeTx(r) == [r EXCEPT !.finalizeTx = r.transaction \in finalized]

\* A lookup fills in one field of a row.
LEMMA RowUpdates ==
  ASSUME NEW r \in Rows
  PROVE  /\ WithProveTx(r) \in Rows
         /\ WithProveTx(r).transaction = r.transaction
         /\ WithProveTx(r).status = r.status
         /\ r.transaction \in proven => WithProveTx(r).proveTx
         /\ WithFinalizeTx(r) \in Rows
         /\ WithFinalizeTx(r).transaction = r.transaction
         /\ WithFinalizeTx(r).status = r.status
         /\ r.proveTx => WithFinalizeTx(r).proveTx
<1>1. /\ (r.transaction \in proven) \in BOOLEAN
      /\ (r.transaction \in finalized) \in BOOLEAN
  BY SMT
<1> QED  BY <1>1 DEF Rows, WithProveTx, WithFinalizeTx

\* A lookup answers as many rows as it was given.
LEMMA LookupKeepsRows ==
  ASSUME rows \in Seq(Rows), LookupProven \/ LookupFinalized
  PROVE  /\ rows' \in Seq(Rows) /\ Len(rows') = Len(rows)
         /\ \A i \in 1 .. Len(rows) :
              /\ rows'[i].transaction = rows[i].transaction
              /\ rows'[i].status = rows[i].status
<1>1. DOMAIN rows = 1 .. Len(rows) /\ Len(rows) \in Nat
  OBVIOUS
<1>2. \A i \in 1 .. Len(rows) : rows[i] \in Rows
  OBVIOUS
<1>3. CASE LookupProven
  <2>1. rows' = [i \in 1 .. Len(rows) |-> WithProveTx(rows[i])]
    BY <1>1, <1>3 DEF LookupProven, WithProveTx
  <2> QED  BY <1>1, <1>2, <2>1, RowUpdates
<1>4. CASE LookupFinalized
  <2>1. rows' = [i \in 1 .. Len(rows) |-> WithFinalizeTx(rows[i])]
    BY <1>1, <1>4 DEF LookupFinalized, WithFinalizeTx
  <2> QED  BY <1>1, <1>2, <2>1, RowUpdates
<1> QED  BY <1>3, <1>4

\* The parts of the type invariant, one by one: the place of the request.
LEMMA StepStaysOK ==
  ASSUME step \in Steps, [ApiNext]_apiVars  PROVE step' \in Steps
BY Zenon
DEF ApiNext, ClientAsks, AskForPage, StartWalk, NextPage, AskAgain, GetByHash,
    NewRequest, HandlerGoesOn, CountTotal, CountActionNeeded, CountPending,
    Match, LookupProven, LookupFinalized, RequestFails, IndexerWrites, apiVars,
    requestVars, Steps

\* The counts of the tabs.
LEMMA CountsStayOK ==
  ASSUME CountsOK, [ApiNext]_apiVars  PROVE CountsOK'
<1> USE DEF CountsOK
<1>1. 0 \in 0 .. Cardinality(Transactions)
  BY TransactionsAreFew
<1>2. \A S \in SUBSET Transactions :
        Cardinality(S) \in 0 .. Cardinality(Transactions)
  BY CountsAreSmall
<1>3. CASE ClientAsks \/ RequestFails
  BY <1>1, <1>3
  DEF ClientAsks, AskForPage, StartWalk, NextPage, AskAgain, GetByHash,
      NewRequest, RequestFails
<1>4. CASE CountTotal
  BY <1>2, <1>4, MatchingDocuments DEF CountTotal
<1>5. CASE CountActionNeeded
  <2> DEFINE S == {t \in Matching(BaseFilter(request.filter)) :
                     status[t] \in ActionNeededStatuses}
  <2>1. S \in SUBSET Transactions
    BY MatchingDocuments
  <2>2. actionNeeded' = Cardinality(S) /\ UNCHANGED << total, pending >>
    BY <1>5 DEF CountActionNeeded
  <2> QED  BY <1>2, <2>1, <2>2
<1>6. CASE CountPending
  <2> DEFINE S == {t \in Matching(BaseFilter(request.filter)) :
                     status[t] \in PendingStatuses}
  <2>1. S \in SUBSET Transactions
    BY MatchingDocuments
  <2>2. pending' = Cardinality(S) /\ UNCHANGED << total, actionNeeded >>
    BY <1>6 DEF CountPending
  <2> QED  BY <1>2, <2>1, <2>2
<1>7. CASE Match \/ LookupProven \/ LookupFinalized \/ IndexerWrites
           \/ UNCHANGED apiVars
  BY <1>7
  DEF Match, LookupProven, LookupFinalized, IndexerWrites, apiVars,
      requestVars
<1> QED  BY <1>3, <1>4, <1>5, <1>6, <1>7 DEF ApiNext, HandlerGoesOn

\* The rows of the page.
LEMMA RowsStayOK ==
  ASSUME TypeInv, [ApiNext]_apiVars  PROVE RowsOK'
<1> USE DEF RowsOK
<1>1. request.pageSize \in Nat \ {0} /\ request'.pageSize \in Nat \ {0}
  BY RequestFields, RequestStaysOK DEF TypeInv
<1>2. RowsOK
  BY DEF TypeInv
<1>3. CASE rows' = << >>
  <2>1. << >> \in Seq(Rows)
    OBVIOUS
  <2> QED  BY <1>1, <1>3, <2>1
<1>4. ASSUME NEW t \in Transactions, t \in Documents, GetByHash(t)
      PROVE  RowsOK'
  <2> DEFINE row == [transaction |-> t, status |-> status[t],
                     proveTx |-> FALSE, finalizeTx |-> FALSE]
  <2>1. status[t] \in Statuses
    BY <1>4 DEF Documents, TypeInv, StoreOK
  <2>2. row \in Rows
    BY <2>1, Zenon DEF Rows, Statuses
  <2>3. rows' = << row >> /\ request'.pageSize = 10
    BY <1>4 DEF GetByHash, NoListRequest
  <2> QED  BY <2>2, <2>3
<1>5. CASE Match
  <2>1. rows' \in Seq(Rows) /\ Len(rows') <= request.pageSize
    BY <1>1, <1>5, MatchGivesPage DEF TypeInv
  <2> QED  BY <1>5, <2>1 DEF Match
<1>6. CASE LookupProven \/ LookupFinalized
  <2>1. rows' \in Seq(Rows) /\ Len(rows') = Len(rows)
    BY <1>2, <1>6, LookupKeepsRows
  <2> QED  BY <1>2, <1>6, <2>1 DEF LookupProven, LookupFinalized
<1>7. CASE UNCHANGED << request, rows >>
  BY <1>2, <1>7
<1> QED
  BY <1>3, <1>4, <1>5, <1>6, <1>7
  DEF ApiNext, ClientAsks, AskForPage, StartWalk, NextPage, AskAgain,
      GetByHash, NewRequest, HandlerGoesOn, CountTotal, CountActionNeeded,
      CountPending, RequestFails, IndexerWrites, apiVars, requestVars

\* What the walking client knows.
LEMMA WalkStaysOK ==
  ASSUME TypeInv, [ApiNext]_apiVars  PROVE WalkOK'
<1> USE DEF WalkOK
<1>1. Documents \subseteq Documents'
  BY StoreStaysOK DEF TypeInv
<1>2. WalkOK
  BY DEF TypeInv
<1>3. ASSUME unseen' = {}, ~request'.walk  PROVE WalkOK'
  BY <1>3
<1>4. ASSUME NEW f \in Filters, NEW pageSize \in PageSizes,
             StartWalk(f, pageSize)
      PROVE  WalkOK'
  <2>1. /\ unseen' = Matching(f) /\ f.status = ""
        /\ request'.walk /\ request'.filter = f
    BY <1>4 DEF StartWalk, NewRequest
  <2> QED  BY <1>1, <2>1 DEF Matching, AnyStatus
<1>5. CASE NextPage
  <2>1. /\ request'.walk = request.walk /\ request'.filter = request.filter
        /\ unseen' = unseen
    BY <1>5, Zenon DEF NextPage, NewRequest, TypeInv, Requests
  <2> QED  BY <1>1, <1>2, <2>1
<1>6. ASSUME UNCHANGED request, unseen' \subseteq unseen  PROVE WalkOK'
  BY <1>1, <1>2, <1>6
<1>7. ASSUME NEW f \in Filters, NEW pageSize \in PageSizes,
             NEW page \in Pages, AskForPage(f, page, pageSize)
      PROVE  WalkOK'
  <2>1. unseen' = {} /\ ~request'.walk
    BY <1>7 DEF AskForPage, NewRequest
  <2> QED  BY <1>3, <2>1
<1>9. ASSUME NEW t \in Transactions, GetByHash(t)  PROVE WalkOK'
  <2>1. unseen' = {} /\ ~request'.walk
    BY <1>9 DEF GetByHash, NoListRequest
  <2> QED  BY <1>3, <2>1
<1>10. CASE AskAgain
  BY <1>6, <1>10 DEF AskAgain, NewRequest
<1>8. HandlerGoesOn \/ IndexerWrites \/ UNCHANGED apiVars =>
        UNCHANGED request /\ unseen' \subseteq unseen
  BY DEF HandlerGoesOn, CountTotal, CountActionNeeded, CountPending, Match,
         LookupProven, LookupFinalized, RequestFails, IndexerWrites, apiVars,
         requestVars
<1> QED
  BY <1>4, <1>5, <1>6, <1>7, <1>8, <1>9, <1>10 DEF ApiNext, ClientAsks

\* Every step keeps the type invariant.
LEMMA NextTypeInv ==
  ASSUME TypeInv, [ApiNext]_apiVars  PROVE TypeInv'
BY RequestStaysOK, StepStaysOK, StoreStaysOK, CountsStayOK, RowsStayOK,
   WalkStaysOK DEF TypeInv

\* It holds before the first request.
LEMMA InitTypeInv == ApiInit => TypeInv
<1> SUFFICES ASSUME ApiInit  PROVE TypeInv
  OBVIOUS
<1>1. blockTime \in [Transactions -> Nat]
  <2>1. Worlds \subseteq [evidence : SUBSET PossibleEvidence,
                          blockTime : [Transactions -> Nat]]
    BY ApiAssumption, Zenon
  <2> QED  BY <2>1 DEF ApiInit
<1>2. StoreOK
  BY <1>1 DEF ApiInit, StoreOK
<1>3. request \in Requests
  <2>1. request = [filter |-> NoListRequest.filter,
                   page |-> 1, pageSize |-> 10, walk |-> FALSE]
    BY DEF ApiInit, NoListRequest
  <2>2. 1 \in Nat \ {0} /\ 10 \in Nat \ {0}
    OBVIOUS
  <2> QED  BY <2>1, <2>2, Zenon DEF Requests
<1>4. CountsOK
  BY TransactionsAreFew DEF ApiInit, CountsOK
<1>5. RowsOK
  <2>1. request.pageSize = 10 /\ rows = << >>
    BY DEF ApiInit, NoListRequest
  <2>2. << >> \in Seq(Rows)
    OBVIOUS
  <2> QED  BY <2>1, <2>2 DEF RowsOK
<1>6. WalkOK
  BY DEF ApiInit, NoListRequest, WalkOK
<1>7. step \in Steps
  BY DEF ApiInit, Steps
<1> QED  BY <1>2, <1>3, <1>4, <1>5, <1>6, <1>7 DEF TypeInv

\* The database, the answers and the memory of a walk keep their types.
THEOREM ApiTypeCorrect == ApiSpec => []TypeOK
<1>1. ApiInit => TypeInv
  BY InitTypeInv
<1>2. TypeInv /\ [ApiNext]_apiVars => TypeInv'
  BY NextTypeInv
<1>3. TypeInv => TypeOK
  <2> SUFFICES ASSUME TypeInv  PROVE TypeOK
    OBVIOUS
  <2>1. request.page >= 1 /\ request.pageSize >= 1
    <3>1. request.page \in Nat \ {0} /\ request.pageSize \in Nat \ {0}
      BY RequestFields DEF TypeInv
    <3> QED  BY <3>1
  <2>2. \A i \in DOMAIN rows : rows[i] \in Rows
    BY DEF TypeInv, RowsOK
  <2>3. {total, actionNeeded, pending} \subseteq 0 .. Cardinality(Transactions)
    BY DEF TypeInv, CountsOK
  <2> QED
    BY <2>1, <2>2, <2>3, Zenon
    DEF TypeInv, TypeOK, StoreOK, RowsOK, WalkOK, Statuses
<1> QED  BY <1>1, <1>2, <1>3, PTL DEF ApiSpec

-----------------------------------------------------------------------------
(***************************************************************************)
(* Items that are ready for relay.                                         *)
(***************************************************************************)
ReadyIsProven ==
  \A t \in Transactions : status[t] = "READY_FOR_RELAY" => t \in proven

\* The record was there when the status was read; until it is looked up it can
\* only be written again.
ReadyRowsProven ==
  /\ step = "lookupProven" =>
       \A i \in 1 .. Len(rows) :
         rows[i].status = "READY_FOR_RELAY" => rows[i].transaction \in proven
  /\ step \in {"lookupFinalized", "items"} =>
       \A i \in 1 .. Len(rows) :
         rows[i].status = "READY_FOR_RELAY" => rows[i].proveTx

RelayInv == TypeInv /\ ReadyIsProven /\ ReadyRowsProven

\* The mirror makes nothing ready for relay without a proof.
LEMMA ReadyStaysProven ==
  ASSUME TypeInv, ReadyIsProven, [ApiNext]_apiVars  PROVE ReadyIsProven'
<1>1. CASE UNCHANGED << mirrorVars, blockTime >>
  BY <1>1 DEF mirrorVars, ReadyIsProven
<1>2. ASSUME NEW txs \in SUBSET Transactions, NEW s, WriteStatus(txs, s)
      PROVE  ReadyIsProven'
  BY <1>2 DEF WriteStatus, ReadyIsProven
<1>3. ASSUME NEW w \in Withdrawals, RecordProven(w) \/ RecordFinalized(w)
      PROVE  ReadyIsProven'
  BY <1>3 DEF RecordProven, RecordFinalized, ReadyIsProven
<1> QED  BY <1>1, <1>2, <1>3, OthersDoNotWrite DEF ApiNext, IndexerWrites

\* Rows are looked up after they were matched, and records stay.
LEMMA ReadyRowsStayProven ==
  ASSUME RelayInv, [ApiNext]_apiVars  PROVE ReadyRowsProven'
<1> USE DEF ReadyRowsProven
<1>1. proven \subseteq proven'
  BY StoreStaysOK DEF RelayInv, TypeInv
<1>2. RelayInv
  OBVIOUS
<1>3. CASE Match
  <2> DEFINE skip == Skip(request)
  <2>1. PICK order \in SetToSeqs(Matching(request.filter)) :
          \A i \in 1 .. Len(rows') :
            /\ i + skip \in 1 .. Len(order)
            /\ rows'[i].transaction = order[i + skip]
            /\ rows'[i].status = status[order[i + skip]]
    BY <1>2, <1>3, MatchGivesPage DEF RelayInv
  <2>2. order \in Seq(Matching(request.filter))
    BY MatchingDocuments, OrderListsAll
  <2>3. \A i \in 1 .. Len(rows') : rows'[i].transaction \in Transactions
    BY <2>1, <2>2, MatchingDocuments
  <2>4. \A i \in 1 .. Len(rows') :
          rows'[i].status = "READY_FOR_RELAY" =>
            rows'[i].transaction \in proven
    BY <1>2, <2>1, <2>3 DEF RelayInv, ReadyIsProven
  <2> QED  BY <1>1, <1>3, <2>4 DEF Match
<1>4. CASE LookupProven
  <2>1. /\ rows \in Seq(Rows) /\ Len(rows) \in Nat
        /\ DOMAIN rows = 1 .. Len(rows)
    BY <1>2 DEF RelayInv, TypeInv, RowsOK
  <2>2. rows' = [i \in 1 .. Len(rows) |-> WithProveTx(rows[i])]
    BY <1>4, <2>1 DEF LookupProven, WithProveTx
  <2>3. Len(rows') = Len(rows)
    BY <2>1, <2>2
  <2>4. \A i \in 1 .. Len(rows) :
          rows'[i].status = "READY_FOR_RELAY" => rows'[i].proveTx
    BY <1>2, <1>4, <2>1, <2>2, RowUpdates DEF RelayInv, LookupProven
  <2> QED  BY <1>4, <2>3, <2>4 DEF LookupProven
<1>5. CASE LookupFinalized
  <2>1. /\ rows \in Seq(Rows) /\ Len(rows) \in Nat
        /\ DOMAIN rows = 1 .. Len(rows)
    BY <1>2 DEF RelayInv, TypeInv, RowsOK
  <2>2. rows' = [i \in 1 .. Len(rows) |-> WithFinalizeTx(rows[i])]
    BY <1>5, <2>1 DEF LookupFinalized, WithFinalizeTx
  <2>3. Len(rows') = Len(rows)
    BY <2>1, <2>2
  <2>4. \A i \in 1 .. Len(rows) :
          rows'[i].status = "READY_FOR_RELAY" => rows'[i].proveTx
    BY <1>2, <1>5, <2>1, <2>2, RowUpdates DEF RelayInv, LookupFinalized
  <2> QED  BY <1>5, <2>3, <2>4 DEF LookupFinalized
<1>6. CASE UNCHANGED << step, rows >>
  BY <1>1, <1>2, <1>6 DEF RelayInv
<1>7. CASE step' \in {"total", "actionNeeded", "pending", "match", "byHash",
                      "notFound", "error"}
  BY <1>7
<1>8. IndexerWrites \/ UNCHANGED apiVars => UNCHANGED << step, rows >>
  BY DEF IndexerWrites, apiVars, requestVars
<1>9. ClientAsks \/ CountTotal \/ CountActionNeeded \/ CountPending
        \/ RequestFails =>
        step' \in {"total", "actionNeeded", "pending", "match", "byHash",
                   "notFound", "error"}
  BY DEF ClientAsks, AskForPage, StartWalk, NextPage, AskAgain, GetByHash,
         NewRequest, CountTotal, CountActionNeeded, CountPending, RequestFails
<1> QED
  BY <1>3, <1>4, <1>5, <1>6, <1>7, <1>8, <1>9 DEF ApiNext, HandlerGoesOn

\* An item that is READY_FOR_RELAY comes with the transaction that proved it,
\* although its status and that record are read by two stages of a query.
THEOREM RelayRowsHaveProof == ApiSpec => []RelayReadyRowsHaveProof
<1>1. ApiInit => RelayInv
  BY InitTypeInv
  DEF ApiInit, RelayInv, ReadyIsProven, ReadyRowsProven, NoDocument
<1>2. RelayInv /\ [ApiNext]_apiVars => RelayInv'
  BY NextTypeInv, ReadyStaysProven, ReadyRowsStayProven DEF RelayInv
<1>3. RelayInv => RelayReadyRowsHaveProof
  BY DEF RelayInv, TypeInv, RowsOK, ReadyRowsProven, RelayReadyRowsHaveProof
<1> QED  BY <1>1, <1>2, <1>3, PTL DEF ApiSpec

-----------------------------------------------------------------------------
(***************************************************************************)
(* The counts of the tabs.                                                 *)
(***************************************************************************)
OfRequest == {t \in Documents : OfType(t, request.filter.type)}

NeedAction == {t \in OfRequest : status[t] \in ActionNeededStatuses}

ArePending == {t \in OfRequest : status[t] \in PendingStatuses}

Looking == {"lookupProven", "lookupFinalized"}

\* As long as nothing was written, what was counted is what is there.
TabsCounted ==
  quiet =>
    /\ step \in {"pending", "match", "items"} \cup Looking =>
         actionNeeded = Cardinality(NeedAction)
    /\ step \in {"match", "items"} \cup Looking =>
         pending = Cardinality(ArePending)

\* The filter of the tabs is that of the request without its status.
LEMMA BaseFilterOfType ==
  ASSUME TypeInv  PROVE Matching(BaseFilter(request.filter)) = OfRequest
<1>1. Filters \subseteq [status : STRING, type : {"", "deposit", "withdrawal"}]
  BY ApiAssumption, Zenon
<1>2. /\ BaseFilter(request.filter).status = ""
      /\ BaseFilter(request.filter).type = request.filter.type
  <2>1. CASE request.filter \in Filters
    BY <1>1, <2>1, Zenon DEF BaseFilter
  <2>2. CASE request.filter = NoListRequest.filter
    BY <2>2 DEF BaseFilter, NoListRequest
  <2> QED  BY <2>1, <2>2, RequestFields DEF TypeInv
<1> QED  BY <1>2, Zenon DEF Matching, HasStatus, OfRequest

\* Each query counts at its own time what it was asked for.
LEMMA NextTabs ==
  ASSUME TypeInv, TabsCounted, [ApiNext]_apiVars  PROVE TabsCounted'
<1> USE DEF TabsCounted, Looking
<1>1. CASE ~quiet'
  BY <1>1
<1>2. CASE step' \in {"total", "actionNeeded", "byHash", "notFound", "error"}
  BY <1>2
<1>3. ASSUME UNCHANGED << status, request >>
      PROVE  UNCHANGED << NeedAction, ArePending >>
  BY <1>3 DEF NeedAction, ArePending, OfRequest, Documents
<1>4. CASE CountActionNeeded
  <2>1. actionNeeded' = Cardinality(NeedAction)
    BY <1>4, BaseFilterOfType DEF CountActionNeeded, NeedAction
  <2> QED  BY <1>3, <1>4, <2>1 DEF CountActionNeeded, mirrorVars
<1>5. CASE CountPending
  <2>1. pending' = Cardinality(ArePending)
    BY <1>5, BaseFilterOfType DEF CountPending, ArePending
  <2> QED  BY <1>3, <1>5, <2>1 DEF CountPending, mirrorVars
<1>6. CASE Match \/ LookupProven \/ LookupFinalized \/ UNCHANGED apiVars
  <2>1. /\ UNCHANGED << status, request, actionNeeded, pending, quiet >>
        /\ step \in {"match"} \cup Looking \/ UNCHANGED step
    BY <1>6
    DEF Match, LookupProven, LookupFinalized, apiVars, requestVars, mirrorVars
  <2> QED  BY <1>3, <2>1
<1>7. ClientAsks \/ CountTotal =>
        step' \in {"total", "actionNeeded", "byHash", "notFound", "error"}
  BY DEF ClientAsks, AskForPage, StartWalk, NextPage, AskAgain, GetByHash,
         NewRequest, CountTotal
<1>8. RequestFails \/ IndexerWrites => ~quiet'
  BY DEF RequestFails, IndexerWrites
<1> QED
  BY <1>1, <1>2, <1>4, <1>5, <1>6, <1>7, <1>8 DEF ApiNext, HandlerGoesOn

\* When nothing is written during a request, the two counts of its tabs are
\* together all documents of its type but the relayed ones, whichever tab it
\* asked for.
THEOREM TabsCountAll == ApiSpec => []TabsAddUp
<1> DEFINE Inv == TypeInv /\ TabsCounted
<1>1. ApiInit => Inv
  BY InitTypeInv DEF ApiInit, TabsCounted
<1>2. Inv /\ [ApiNext]_apiVars => Inv'
  BY NextTypeInv, NextTabs
<1>3. Inv => TabsAddUp
  <2> SUFFICES ASSUME Inv, step = "items", quiet
               PROVE  actionNeeded + pending =
                        Cardinality({t \in OfRequest : status[t] # "RELAYED"})
    BY DEF TabsAddUp, OfRequest
  <2>1. NeedAction \cup ArePending =
          {t \in OfRequest : status[t] # "RELAYED"}
    <3>1. \A t \in OfRequest :
            status[t] \in PendingStatuses \cup ActionNeededStatuses
                            \cup {"RELAYED"}
      BY StatusNames DEF OfRequest, Documents, TypeInv, StoreOK
    <3>2. "RELAYED" \notin PendingStatuses \cup ActionNeededStatuses
      BY DEF PendingStatuses, ActionNeededStatuses
    <3> QED  BY <3>1, <3>2 DEF NeedAction, ArePending
  <2>2. NeedAction \cap ArePending = {}
    BY DEF NeedAction, ArePending, PendingStatuses, ActionNeededStatuses
  <2>3. /\ NeedAction \in SUBSET Transactions
        /\ ArePending \in SUBSET Transactions
    BY DEF NeedAction, ArePending, OfRequest, Documents
  <2>4. IsFiniteSet(NeedAction) /\ IsFiniteSet(ArePending)
    BY <2>3, CountsAreSmall
  <2>5. Cardinality(NeedAction \cup ArePending) =
          Cardinality(NeedAction) + Cardinality(ArePending)
    <3>1. Cardinality(NeedAction) \in Nat /\ Cardinality(ArePending) \in Nat
      BY <2>3, CountsAreSmall
    <3>2. Cardinality(NeedAction \cap ArePending) = 0
      BY <2>2, FS_EmptySet
    <3>3. Cardinality(NeedAction \cup ArePending) =
            Cardinality(NeedAction) + Cardinality(ArePending)
              - Cardinality(NeedAction \cap ArePending)
      BY <2>4, FS_Union
    <3> QED  BY <3>1, <3>2, <3>3
  <2>6. /\ actionNeeded = Cardinality(NeedAction)
        /\ pending = Cardinality(ArePending)
    BY DEF TabsCounted
  <2> QED  BY <2>1, <2>5, <2>6
<1> QED  BY <1>1, <1>2, <1>3, PTL DEF ApiSpec

-----------------------------------------------------------------------------
(***************************************************************************)
(* Pages against the total.                                                *)
(***************************************************************************)
\* How many documents the earlier pages have room for, and with this one.
Before == (request.page - 1) * request.pageSize

Through == request.page * request.pageSize

\* What a page skips is what the pages before it hold, while that fits.
LEMMA PagesAddUp ==
  ASSUME TypeInv
  PROVE  /\ Before \in Nat /\ Through = Before + request.pageSize
         /\ request.pageSize \in Nat \ {0}
         /\ Skip(request) <= Before
         /\ Before < IntLimit => Skip(request) = Before
<1>1. request.page \in Nat \ {0} /\ request.pageSize \in Nat \ {0}
  BY RequestFields DEF TypeInv
<1>2. Before \in Nat /\ Through = Before + request.pageSize
  BY <1>1 DEF Before, Through
<1> QED  BY <1>1, <1>2, WrapIsBelow DEF Before, Skip

\* Without a filter on the status, the documents that match only become more.
LEMMA MatchingGrows ==
  ASSUME TypeInv, [ApiNext]_apiVars, UNCHANGED request,
         AnyStatus(request.filter)
  PROVE  /\ Matching(request.filter) \subseteq Matching(request.filter)'
         /\ Cardinality(Matching(request.filter))
              <= Cardinality(Matching(request.filter)')
<1>1. Documents \subseteq Documents'
  BY StoreStaysOK DEF TypeInv
<1>2. Matching(request.filter) \subseteq Matching(request.filter)'
  BY <1>1, Zenon DEF Matching, HasStatus, AnyStatus
<1>3. Matching(request.filter)' \in SUBSET Transactions
  BY DEF Matching, Documents
<1> QED  BY <1>2, <1>3, MoreCountsMore

\* What a query counts is a number.
LEMMA CountIsNumber ==
  ASSUME NEW f
  PROVE  /\ Cardinality(Matching(f)) \in Nat
         /\ Cardinality(Matching(f)) < IntLimit
BY MatchingDocuments, CountsAreSmall

\* The total is the count of one tab or of all.
LEMMA TotalIsNumber == ASSUME TypeInv  PROVE total \in Nat
<1>1. total \in 0 .. Cardinality(Transactions)
  BY DEF TypeInv, CountsOK
<1> QED  BY <1>1, TransactionsAreFew

TotalStands ==
  AnyStatus(request.filter) =>
    /\ step \in {"actionNeeded", "pending", "match"} =>
         total <= Cardinality(Matching(request.filter))
    /\ step \in {"items"} \cup Looking =>
         Len(rows) = request.pageSize \/ Len(rows) >= total - Before

\* While a page is filled, its total is one of documents that stay.
LEMMA NextTotalStands ==
  ASSUME TypeInv, TotalStands, [ApiNext]_apiVars  PROVE TotalStands'
<1> USE DEF TotalStands, Looking
<1>1. CASE step' \in {"total", "byHash", "notFound", "error"}
  BY <1>1
<1>2. ASSUME UNCHANGED << request, total >>,
             step' \in {"actionNeeded", "pending", "match"},
             step \in {"actionNeeded", "pending", "match"}
      PROVE  TotalStands'
  <2> SUFFICES ASSUME AnyStatus(request.filter)
               PROVE  total <= Cardinality(Matching(request.filter)')
    BY <1>2
  <2>1. Cardinality(Matching(request.filter))
          <= Cardinality(Matching(request.filter)')
    BY <1>2, MatchingGrows
  <2>2. /\ total \in Nat /\ Cardinality(Matching(request.filter)) \in Nat
        /\ Cardinality(Matching(request.filter)') \in Nat
    <3>1. Cardinality(Matching(request.filter)) \in Nat
      BY CountIsNumber
    <3>2. Matching(request.filter)' \in SUBSET Transactions
      BY DEF Matching, Documents
    <3>3. Cardinality(Matching(request.filter)') \in Nat
      BY <3>2, CountsAreSmall
    <3> QED  BY <3>1, <3>3, TotalIsNumber
  <2>3. total <= Cardinality(Matching(request.filter))
    BY <1>2
  <2> QED  BY <2>1, <2>2, <2>3
<1>3. CASE CountTotal
  <2>1. Matching(request.filter)' = Matching(request.filter)
    BY <1>3 DEF CountTotal, mirrorVars, Matching, Documents, HasStatus
  <2>2. Cardinality(Matching(request.filter)) \in Nat
    BY CountIsNumber
  <2> QED  BY <1>3, <2>1, <2>2 DEF CountTotal
<1>4. CASE Match
  <2> SUFFICES ASSUME AnyStatus(request.filter),
                      Len(rows') # request.pageSize
               PROVE  Len(rows') >= total - Before
    BY <1>4 DEF Match, Before
  <2>1. PICK order \in SetToSeqs(Matching(request.filter)) :
          Len(rows') = IF Skip(request) + request.pageSize < Len(order)
                         THEN request.pageSize
                       ELSE IF Skip(request) < Len(order)
                         THEN Len(order) - Skip(request)
                       ELSE 0
    BY <1>4, MatchGivesPage
  <2>2. Len(order) = Cardinality(Matching(request.filter))
    BY MatchingDocuments, OrderListsAll
  <2>3. total <= Len(order)
    BY <1>4, <2>2 DEF Match
  <2>4. Skip(request) <= Before /\ Skip(request) \in Nat /\ Before \in Nat
    BY <1>4, PagesAddUp, MatchGivesPage
  <2>5. total \in Nat /\ Len(order) \in Nat
    BY <2>2, TotalIsNumber, CountIsNumber
  <2> QED  BY <2>1, <2>3, <2>4, <2>5
<1>5. CASE LookupProven \/ LookupFinalized
  <2>1. Len(rows') = Len(rows)
    BY <1>5, LookupKeepsRows DEF TypeInv, RowsOK
  <2> QED  BY <1>5, <2>1 DEF LookupProven, LookupFinalized, Before
<1>6. ASSUME UNCHANGED << request, step, total, rows >>  PROVE TotalStands'
  <2>1. CASE step \in {"items"} \cup Looking
    BY <1>6, <2>1 DEF Before
  <2>2. CASE step \in {"actionNeeded", "pending", "match"}
    BY <1>2, <1>6, <2>2
  <2> QED  BY <1>6, <2>1, <2>2
<1>7. ClientAsks \/ RequestFails =>
        step' \in {"total", "byHash", "notFound", "error"}
  BY DEF ClientAsks, AskForPage, StartWalk, NextPage, AskAgain, GetByHash,
         NewRequest, RequestFails
<1>8. CASE CountActionNeeded \/ CountPending
  BY <1>2, <1>8 DEF CountActionNeeded, CountPending
<1>9. IndexerWrites \/ UNCHANGED apiVars =>
        UNCHANGED << request, step, total, rows >>
  BY DEF IndexerWrites, apiVars, requestVars
<1> QED
  BY <1>1, <1>3, <1>4, <1>5, <1>6, <1>7, <1>8, <1>9 DEF ApiNext, HandlerGoesOn

\* Without a filter on the status a page is as full as the total of the same
\* answer says, whatever is written between the queries and also for page
\* numbers whose product with the page size overflows int64.
THEOREM PagesAreFilled == ApiSpec => []PagesFilledUpToTotal
<1> DEFINE Inv == TypeInv /\ TotalStands
<1>1. ApiInit => Inv
  BY InitTypeInv DEF ApiInit, TotalStands, Looking
<1>2. Inv /\ [ApiNext]_apiVars => Inv'
  BY NextTypeInv, NextTotalStands
<1>3. Inv => PagesFilledUpToTotal
  BY Zenon DEF TotalStands, AnyStatus, PagesFilledUpToTotal, Before
<1> QED  BY <1>1, <1>2, <1>3, PTL DEF ApiSpec

-----------------------------------------------------------------------------
(***************************************************************************)
(* Walking through the pages.                                              *)
(***************************************************************************)
Tied(t) == \E u \in Documents \ {t} : blockTime[u] = blockTime[t]

Newer(t) == {u \in Matching(request.filter) : blockTime[u] > blockTime[t]}

IsShown(t) == \E i \in 1 .. Len(rows) : rows[i].transaction = t

\* What the walk has not shown is still to come: there is a place for at least
\* all the earlier pages before it.  What the new page does not show is behind
\* that page, which is then full.
StillToCome(t) == Tied(t) \/ Cardinality(Newer(t)) >= Before

BehindPage(t) ==
  \/ Tied(t)
  \/ Len(rows) = request.pageSize /\ Cardinality(Newer(t)) >= Through

WalkGoesOn ==
  request.walk =>
    /\ Before <= Cardinality(Matching(request.filter))
    /\ \A t \in unseen : StillToCome(t)
    /\ step \in {"items"} \cup Looking /\ Len(rows) = request.pageSize =>
         Through <= Cardinality(Matching(request.filter))
    /\ step \in Looking => \A t \in unseen : IsShown(t) \/ BehindPage(t)
    /\ step = "items" => \A t \in unseen : BehindPage(t)

WalkInv == TypeInv /\ WalkGoesOn

\* Writes tie what was not tied, and add what is newer; they undo neither.
LEMMA WritesPushBack ==
  ASSUME TypeInv, [ApiNext]_apiVars, UNCHANGED request, request.walk,
         NEW t \in unseen
  PROVE  /\ Tied(t) => Tied(t)'
         /\ Cardinality(Newer(t)) <= Cardinality(Newer(t)')
         /\ Cardinality(Newer(t)) \in Nat /\ Cardinality(Newer(t)') \in Nat
         /\ t \in Matching(request.filter)
<1>1. Documents \subseteq Documents' /\ UNCHANGED blockTime
  <2>1. UNCHANGED blockTime
    BY OthersDoNotWrite DEF ApiNext, IndexerWrites
  <2> QED  BY <2>1, StoreStaysOK DEF TypeInv
<1>2. AnyStatus(request.filter)
  BY DEF TypeInv, WalkOK
<1>3. Matching(request.filter) \subseteq Matching(request.filter)'
  BY <1>2, MatchingGrows
<1>4. Newer(t) \subseteq Newer(t)'
  BY <1>1, <1>3 DEF Newer
<1>5. Newer(t) \in SUBSET Transactions /\ Newer(t)' \in SUBSET Transactions
  BY DEF Newer, Matching, Documents
<1>6. t \in Matching(request.filter)
  BY <1>2, Zenon DEF TypeInv, WalkOK, Matching, HasStatus, AnyStatus
<1>7. Tied(t) => Tied(t)'
  BY <1>1 DEF Tied
<1> QED  BY <1>4, <1>5, <1>6, <1>7, CountsAreSmall, MoreCountsMore

\* A page of an order by block time: an untied document that has a place for
\* the earlier pages before it is on the page, or the page is full and the
\* document has a place for this page too before it.
LEMMA MatchShowsOrLeavesBehind ==
  ASSUME WalkInv, Match, request.walk, NEW t \in unseen
  PROVE  IsShown(t)' \/ BehindPage(t)'
<1> DEFINE M == Matching(request.filter)
           skip == Skip(request)
<1>1. /\ UNCHANGED << request, status, blockTime >>
      /\ [ApiNext]_apiVars
  BY DEF Match, mirrorVars, ApiNext, HandlerGoesOn
<1>2. t \in M /\ (Tied(t) => Tied(t)')
  BY <1>1, WritesPushBack DEF WalkInv
<1>3. CASE Tied(t)
  BY <1>2, <1>3 DEF BehindPage
<1>4. CASE ~Tied(t)
  <2>1. PICK order \in SetToSeqs(M) :
          /\ Newest(order)
          /\ Len(rows') = IF skip + request.pageSize < Len(order)
                            THEN request.pageSize
                          ELSE IF skip < Len(order) THEN Len(order) - skip
                          ELSE 0
          /\ \A i \in 1 .. Len(rows') :
               /\ i + skip \in 1 .. Len(order)
               /\ rows'[i].transaction = order[i + skip]
    BY MatchGivesPage DEF WalkInv
  <2>2. /\ M \in SUBSET Transactions
        /\ order \in Seq(M) /\ Len(order) = Cardinality(M)
        /\ \A u \in M : \E k \in 1 .. Len(order) : order[k] = u
    BY MatchingDocuments, OrderListsAll
  <2>3. PICK k \in 1 .. Len(order) : order[k] = t
    BY <1>2, <2>2
  <2>4. \A u \in M \ {order[k]} : blockTime[u] # blockTime[order[k]]
    BY <1>4, <2>3 DEF Tied, Matching
  <2>5. Cardinality(Newer(t)) = k - 1
    <3>1. blockTime \in [Transactions -> Nat]
      BY DEF WalkInv, TypeInv, StoreOK
    <3>2. Cardinality({u \in M : blockTime[u] > blockTime[order[k]]}) = k - 1
      BY <2>1, <2>2, <2>3, <2>4, <3>1, RankOfUntied
    <3> QED  BY <2>3, <3>2 DEF Newer
  <2>6. /\ Before <= Cardinality(M) /\ Cardinality(Newer(t)) >= Before
        /\ Cardinality(M) \in Nat /\ Cardinality(M) < IntLimit
    BY <1>4, CountIsNumber DEF WalkInv, WalkGoesOn, StillToCome
  <2>7. /\ skip = Before /\ Before \in Nat
        /\ Through = Before + request.pageSize
        /\ request.pageSize \in Nat \ {0}
    BY <2>6, PagesAddUp, TransactionsAreFew DEF WalkInv
  <2>8. CASE k <= skip + Len(rows')
    <3>1. k - skip \in 1 .. Len(rows')
      BY <2>2, <2>5, <2>6, <2>7, <2>8
    <3>2. rows'[k - skip].transaction = order[(k - skip) + skip]
      BY <2>1, <3>1
    <3>3. (k - skip) + skip = k
      BY <2>7
    <3> QED  BY <2>3, <3>1, <3>2, <3>3 DEF IsShown
  <2>9. CASE k > skip + Len(rows')
    <3>1. Len(rows') = request.pageSize /\ k - 1 >= Through
      BY <2>1, <2>2, <2>7, <2>9
    <3>2. UNCHANGED << Newer(t), Through >>
      BY <1>1 DEF Newer, Matching, Documents, OfType, HasStatus, Through
    <3> QED  BY <1>1, <2>5, <3>1, <3>2 DEF BehindPage
  <2>10. Len(rows') \in Nat /\ skip \in Nat
    BY <2>1, <2>2, <2>7
  <2> QED  BY <2>8, <2>9, <2>10
<1> QED  BY <1>3, <1>4

\* While the request is the same, what is still to come remains so, and what
\* is behind the page that is already there remains behind it.
LEMMA WalkKeepsComing ==
  ASSUME WalkInv, [ApiNext]_apiVars, UNCHANGED request, request.walk
  PROVE  /\ Before' = Before /\ Through' = Through
         /\ Before <= Cardinality(Matching(request.filter)')
         /\ Through <= Cardinality(Matching(request.filter)) =>
              Through <= Cardinality(Matching(request.filter)')
         /\ \A t \in unseen : StillToCome(t)'
         /\ \A t \in unseen : Len(rows') = Len(rows) /\ BehindPage(t) =>
                                BehindPage(t)'
<1>1. TypeInv /\ WalkGoesOn /\ AnyStatus(request.filter)
  BY DEF WalkInv, TypeInv, WalkOK
<1>2. Before' = Before /\ Through' = Through /\ Before \in Nat /\ Through \in Nat
  BY <1>1, PagesAddUp DEF Before, Through
<1>3. /\ Cardinality(Matching(request.filter)) \in Nat
      /\ Cardinality(Matching(request.filter)') \in Nat
      /\ Cardinality(Matching(request.filter))
           <= Cardinality(Matching(request.filter)')
  <2>1. Matching(request.filter)' \in SUBSET Transactions
    BY DEF Matching, Documents
  <2> QED  BY <1>1, <2>1, CountIsNumber, CountsAreSmall, MatchingGrows
<1>4. Before <= Cardinality(Matching(request.filter))
  BY <1>1 DEF WalkGoesOn
<1>5. ASSUME NEW t \in unseen
      PROVE  /\ StillToCome(t)'
             /\ Len(rows') = Len(rows) /\ BehindPage(t) => BehindPage(t)'
  <2>1. /\ Tied(t) => Tied(t)'
        /\ Cardinality(Newer(t)) <= Cardinality(Newer(t)')
        /\ Cardinality(Newer(t)) \in Nat /\ Cardinality(Newer(t)') \in Nat
    BY <1>1, WritesPushBack
  <2>2. StillToCome(t)
    BY <1>1 DEF WalkGoesOn
  <2> QED  BY <1>2, <2>1, <2>2 DEF StillToCome, BehindPage
<1> QED  BY <1>2, <1>3, <1>4, <1>5

\* A walk begins with everything to come.
LEMMA StartWalkGoesOn ==
  ASSUME TypeInv, NEW f \in Filters, NEW pageSize \in PageSizes,
         StartWalk(f, pageSize)
  PROVE  WalkGoesOn'
<1>1. request' = [filter |-> f, page |-> 1,
                  pageSize |-> PageSizeOf(pageSize), walk |-> TRUE]
  BY ParametersArePositive DEF StartWalk, NewRequest
<1>2. PageSizeOf(pageSize) \in Nat
  BY ParametersArePositive
<1>3. Before' = 0
  <2>1. request'.page = 1 /\ request'.pageSize \in Nat
    BY <1>1, <1>2
  <2> QED  BY <2>1 DEF Before
<1>4. /\ Cardinality(Matching(request.filter)') \in Nat
      /\ \A t : Cardinality(Newer(t)') \in Nat
  <2>1. /\ Matching(request.filter)' \in SUBSET Transactions
        /\ \A t : Newer(t)' \in SUBSET Transactions
    BY DEF Newer, Matching, Documents
  <2> QED  BY <2>1, CountsAreSmall
<1>5. step' = "total"
  BY DEF StartWalk, NewRequest
<1> QED  BY <1>3, <1>4, <1>5 DEF WalkGoesOn, StillToCome, Looking

\* The next page begins where the full one ended.
LEMMA NextPageGoesOn ==
  ASSUME WalkInv, NextPage  PROVE WalkGoesOn'
<1>1. /\ TypeInv /\ WalkGoesOn /\ request.walk /\ step = "items"
      /\ Len(rows) = request.pageSize
  BY DEF WalkInv, NextPage
<1>2. /\ request'.filter = request.filter
      /\ request'.page = request.page + 1
      /\ request'.pageSize = request.pageSize
  <2>1. request' = [request EXCEPT !.page = PageOf(request.page + 1)]
    BY DEF NextPage, NewRequest
  <2>2. PageOf(request.page + 1) = request.page + 1
    <3>1. request.page \in Nat \ {0}
      BY <1>1, RequestFields DEF TypeInv
    <3>2. request.page + 1 \in Nat \ {0}
      BY <3>1
    <3> QED  BY <3>2, ParametersArePositive
  <2> QED  BY <1>1, <2>1, <2>2, Zenon DEF TypeInv, Requests
<1>3. Before' = Through
  <2>1. request.page \in Nat \ {0} /\ request.pageSize \in Nat \ {0}
    BY <1>1, RequestFields DEF TypeInv
  <2> QED  BY <1>2, <2>1 DEF Before, Through
<1>4. /\ UNCHANGED << status, blockTime, unseen >>
      /\ step' = "total"
  BY DEF NextPage, NewRequest, mirrorVars
<1>5. /\ Matching(request.filter)' = Matching(request.filter)
      /\ \A t : Newer(t)' = Newer(t) /\ (Tied(t)' <=> Tied(t))
  BY <1>2, <1>4 DEF Newer, Tied, Matching, Documents, OfType, HasStatus
<1> QED
  BY <1>1, <1>3, <1>4, <1>5 DEF WalkGoesOn, StillToCome, BehindPage, Looking

\* The page that $skip and $limit leave, in any order of ties.
LEMMA MatchGoesOn ==
  ASSUME WalkInv, Match, request.walk  PROVE WalkGoesOn'
<1>1. /\ UNCHANGED << request, unseen >> /\ step' = "lookupProven"
      /\ [ApiNext]_apiVars
  BY DEF Match, ApiNext, HandlerGoesOn
<1>2. Len(rows') = request.pageSize =>
        Through <= Cardinality(Matching(request.filter))
  <2> SUFFICES ASSUME Len(rows') = request.pageSize
               PROVE  Through <= Cardinality(Matching(request.filter))
    OBVIOUS
  <2> DEFINE skip == Skip(request)
  <2>1. PICK order \in SetToSeqs(Matching(request.filter)) :
          \A i \in 1 .. Len(rows') : i + skip \in 1 .. Len(order)
    BY MatchGivesPage DEF WalkInv
  <2>2. Len(order) = Cardinality(Matching(request.filter))
    BY MatchingDocuments, OrderListsAll
  <2>3. /\ skip = Before /\ Before \in Nat
        /\ Through = Before + request.pageSize
        /\ request.pageSize \in Nat \ {0}
    <3>1. Before <= Cardinality(Matching(request.filter))
      BY DEF WalkInv, WalkGoesOn
    <3> QED  BY <3>1, CountIsNumber, PagesAddUp, TransactionsAreFew DEF WalkInv
  <2>4. request.pageSize + skip \in 1 .. Len(order)
    BY <2>1, <2>3
  <2>5. Len(order) \in Nat
    BY <2>2, CountIsNumber
  <2> QED  BY <2>2, <2>3, <2>4, <2>5
<1>3. \A t \in unseen : IsShown(t)' \/ BehindPage(t)'
  BY MatchShowsOrLeavesBehind
<1>4. /\ Before' = Before /\ Through' = Through
      /\ Before <= Cardinality(Matching(request.filter)')
      /\ Through <= Cardinality(Matching(request.filter)) =>
           Through <= Cardinality(Matching(request.filter)')
      /\ \A t \in unseen : StillToCome(t)'
  BY <1>1, WalkKeepsComing
<1> QED  BY <1>1, <1>2, <1>3, <1>4 DEF WalkGoesOn, Looking

\* The end of a page, and where the walk is after it.
LEMMA LookupGoesOn ==
  ASSUME WalkInv, LookupProven \/ LookupFinalized, request.walk
  PROVE  WalkGoesOn'
<1>1. /\ [ApiNext]_apiVars /\ UNCHANGED request /\ step \in Looking
      /\ WalkGoesOn
  BY DEF LookupProven, LookupFinalized, ApiNext, HandlerGoesOn, Looking,
         WalkInv
<1>2. /\ Len(rows') = Len(rows)
      /\ \A i \in 1 .. Len(rows) : rows'[i].transaction = rows[i].transaction
  BY LookupKeepsRows DEF WalkInv, TypeInv, RowsOK
<1>3. \A t : IsShown(t)' <=> IsShown(t)
  BY <1>2 DEF IsShown
<1>4. /\ Before' = Before /\ Through' = Through
      /\ Before <= Cardinality(Matching(request.filter)')
      /\ Through <= Cardinality(Matching(request.filter)) =>
           Through <= Cardinality(Matching(request.filter)')
      /\ \A t \in unseen : StillToCome(t)'
      /\ \A t \in unseen : BehindPage(t) => BehindPage(t)'
  BY <1>1, <1>2, WalkKeepsComing
<1>5. \A t \in unseen : IsShown(t) \/ BehindPage(t)
  BY <1>1 DEF WalkGoesOn
<1>6. CASE LookupProven
  <2>1. UNCHANGED unseen /\ step' = "lookupFinalized"
    BY <1>6 DEF LookupProven
  <2> QED  BY <1>1, <1>2, <1>3, <1>4, <1>5, <2>1 DEF WalkGoesOn, Looking
<1>7. CASE LookupFinalized
  <2>1. /\ unseen' = unseen \ {rows[i].transaction : i \in DOMAIN rows}
        /\ step' = "items"
    BY <1>7 DEF LookupFinalized
  <2>2. DOMAIN rows = 1 .. Len(rows)
    BY DEF WalkInv, TypeInv, RowsOK
  <2>3. \A t \in unseen' : t \in unseen /\ ~IsShown(t)
    BY <2>1, <2>2 DEF IsShown
  <2> QED  BY <1>1, <1>2, <1>4, <1>5, <2>1, <2>3 DEF WalkGoesOn, Looking
<1> QED  BY <1>6, <1>7

\* Every step keeps the invariant.
LEMMA NextWalkInv ==
  ASSUME WalkInv, [ApiNext]_apiVars  PROVE WalkInv'
<1>1. TypeInv' /\ TypeInv /\ WalkGoesOn
  BY NextTypeInv DEF WalkInv
<1>2. CASE ~request'.walk
  BY <1>1, <1>2 DEF WalkInv, WalkGoesOn
<1>3. ASSUME UNCHANGED << request, unseen >>, request.walk,
             step' \notin {"items"} \cup Looking
      PROVE  WalkInv'
  <2>1. /\ Before' = Before
        /\ Before <= Cardinality(Matching(request.filter)')
        /\ \A t \in unseen : StillToCome(t)'
    BY <1>3, WalkKeepsComing
  <2> QED  BY <1>1, <1>3, <2>1 DEF WalkInv, WalkGoesOn, Looking
<1>4. ASSUME UNCHANGED << request, step, rows, unseen >>, request.walk
      PROVE  WalkInv'
  <2>1. /\ Before' = Before /\ Through' = Through
        /\ Before <= Cardinality(Matching(request.filter)')
        /\ Through <= Cardinality(Matching(request.filter)) =>
             Through <= Cardinality(Matching(request.filter)')
        /\ \A t \in unseen : StillToCome(t)'
        /\ \A t \in unseen : BehindPage(t) => BehindPage(t)'
    BY <1>4, WalkKeepsComing
  <2>2. \A t : IsShown(t)' <=> IsShown(t)
    BY <1>4 DEF IsShown
  <2> QED  BY <1>1, <1>4, <2>1, <2>2 DEF WalkInv, WalkGoesOn
<1>5. ASSUME NEW f \in Filters, NEW pageSize \in PageSizes,
             \/ \E page \in Pages : AskForPage(f, page, pageSize)
             \/ StartWalk(f, pageSize)
      PROVE  WalkInv'
  <2>1. ASSUME NEW page \in Pages, AskForPage(f, page, pageSize)
        PROVE  ~request'.walk
    BY <2>1 DEF AskForPage, NewRequest
  <2> QED  BY <1>1, <1>2, <1>5, <2>1, StartWalkGoesOn DEF WalkInv
<1>6. ASSUME NEW t \in Transactions, GetByHash(t)  PROVE WalkInv'
  <2>1. ~request'.walk
    BY <1>6 DEF GetByHash, NoListRequest
  <2> QED  BY <1>2, <2>1
<1>7. CASE NextPage
  BY <1>1, <1>7, NextPageGoesOn DEF WalkInv
<1>8. CASE Match \/ LookupProven \/ LookupFinalized
  <2>1. UNCHANGED request
    BY <1>8 DEF Match, LookupProven, LookupFinalized
  <2>2. request.walk \/ ~request'.walk
    BY <2>1
  <2> QED  BY <1>1, <1>2, <1>8, <2>2, MatchGoesOn, LookupGoesOn DEF WalkInv
<1>9. CASE AskAgain \/ CountTotal \/ CountActionNeeded \/ CountPending
           \/ RequestFails
  <2>1. /\ UNCHANGED << request, unseen >>
        /\ step' \notin {"items"} \cup Looking
    BY <1>9
    DEF AskAgain, NewRequest, CountTotal, CountActionNeeded, CountPending,
        RequestFails, Looking
  <2> QED  BY <1>2, <1>3, <2>1
<1>10. CASE IndexerWrites \/ UNCHANGED apiVars
  <2>1. UNCHANGED << request, step, rows, unseen >>
    BY <1>10 DEF IndexerWrites, apiVars, requestVars
  <2> QED  BY <1>2, <1>4, <2>1
<1> QED
  BY <1>5, <1>6, <1>7, <1>8, <1>9, <1>10 DEF ApiNext, ClientAsks, HandlerGoesOn

\* A client that walks through the pages to the first one that is not full has
\* been shown every document that was there when it began, unless another one
\* has the same block time: for any number of documents and any page size,
\* whatever the indexer writes on the way and however often a page is asked
\* for again.
THEOREM WalksMissNothing == ApiSpec => []WalkMissesNothing
<1>1. ApiInit => WalkInv
  <2>1. ApiInit => ~request.walk
    <3> DEFINE none == [status |-> "", type |-> ""]
    <3>1. ApiInit => request = [filter |-> none, page |-> 1,
                                pageSize |-> 10, walk |-> FALSE]
      BY DEF ApiInit, NoListRequest
    <3> HIDE DEF none
    <3> QED  BY <3>1
  <2> QED  BY <2>1, InitTypeInv DEF WalkInv, WalkGoesOn
<1>2. WalkInv /\ [ApiNext]_apiVars => WalkInv'
  BY NextWalkInv
<1>3. WalkInv => WalkMissesNothing
  <2> SUFFICES ASSUME WalkInv, step = "items", request.walk,
                      Len(rows) < request.pageSize,
                      NEW t \in unseen
               PROVE  Tied(t)
    BY DEF WalkMissesNothing, Tied
  <2>1. BehindPage(t)
    BY DEF WalkInv, WalkGoesOn
  <2>2. Len(rows) # request.pageSize
    <3>1. request.pageSize \in Nat \ {0} /\ Len(rows) \in Nat
      BY RequestFields DEF WalkInv, TypeInv, RowsOK
    <3> QED  BY <3>1
  <2> QED  BY <2>1, <2>2 DEF BehindPage
<1> QED  BY <1>1, <1>2, <1>3, PTL DEF ApiSpec
=============================================================================
