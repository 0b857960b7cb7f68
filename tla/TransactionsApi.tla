--------------------------- MODULE TransactionsApi ---------------------------
(***************************************************************************)
(* GET /v1/transactions and /v1/transactions/{hash}: a client that asks    *)
(* for one page after the other, the handlers, and the queries behind      *)
(* them, each of which reads the database at a time of its own while the   *)
(* indexer writes.  What the indexer may write is StatusMirror.            *)
(***************************************************************************)
EXTENDS StatusMirror, Sequences, SequencesExt

CONSTANTS
  NotANumber,    \* a parameter that is missing or that ParseInt refuses
  Pages,         \* the values of the parameter page
  PageSizes,     \* the values of the parameter pageSize
  Filters,       \* the queries of the client: records of a status and a type
  Worlds,        \* records of the evidence that the chains have given and
                 \* the block time of each transaction
  IntLimit       \* the integers of int64 are those from -IntLimit to
                 \* IntLimit - 1

ASSUME ApiAssumption ==
  /\ Withdrawals \cap Deposits = {}
  /\ IntLimit \in Nat
  /\ IsFiniteSet(Transactions) /\ Cardinality(Transactions) < IntLimit
  /\ NotANumber \notin Int
  /\ Pages \ {NotANumber} \subseteq Int
  /\ PageSizes \ {NotANumber} \subseteq Int
  /\ Worlds \subseteq [evidence : SUBSET PossibleEvidence,
                      blockTime : [Transactions -> Nat]]
  /\ Filters \subseteq [status : STRING, type : {"", "deposit", "withdrawal"}]

VARIABLES
  blockTime,     \* of each transaction: it never changes
  request,       \* what the client asks for
  step,          \* how far the handler is
  total, actionNeeded, pending,   \* the counts
  rows,          \* what the aggregation has so far, at last the items
  quiet,         \* the indexer has written nothing during the request
  unseen         \* documents that were there when the client began to walk
                 \* through the pages, and that no page has shown it

requestVars == << request, step, total, actionNeeded, pending, rows, quiet,
                  unseen >>
apiVars == << mirrorVars, blockTime, requestVars >>

Steps == {"total", "actionNeeded", "pending", "match", "lookupProven",
          "lookupFinalized", "items", "byHash", "notFound", "error"}

Rows == [transaction : Transactions,
         status : UNION {StatusesOf(t) : t \in Transactions},
         proveTx : BOOLEAN, finalizeTx : BOOLEAN]

Documents == {t \in Transactions : status[t] # NoDocument}

-----------------------------------------------------------------------------
(***************************************************************************)
(* Parameters.                                                             *)
(***************************************************************************)
PageOf(raw) == IF raw # NotANumber /\ raw >= 1 THEN raw ELSE 1

PageSizeOf(raw) == IF raw # NotANumber /\ raw >= 1 THEN raw ELSE 10

\* int64 arithmetic.
Wrap(n) == ((n + IntLimit) % (2 * IntLimit)) - IntLimit

\* Mutant: the first page is page 0.
SkipFromZero(r) == Wrap(r.page * r.pageSize)

Skip(r) == Wrap((r.page - 1) * r.pageSize)

(***************************************************************************)
(* buildFilter.  The filters on addresses and on the hash select by what   *)
(* never changes, like the one on the type, which stands for them all.     *)
(***************************************************************************)
PendingStatuses ==
  {"UNCONFIRMED_L1_TO_L2_MESSAGE", "STATE_ROOT_NOT_PUBLISHED",
   "IN_CHALLENGE_PERIOD"}

ActionNeededStatuses == {"READY_TO_PROVE", "READY_FOR_RELAY"}

OfType(t, type) ==
  CASE type = "deposit"    -> t \in Deposits
    [] type = "withdrawal" -> t \in Withdrawals
    [] OTHER               -> TRUE

HasStatus(t, s) ==
  CASE s = ""              -> TRUE
    [] s = "pending"       -> status[t] \in PendingStatuses
    [] s = "action-needed" -> status[t] \in ActionNeededStatuses
    [] OTHER               -> status[t] = s

Matching(f) == {t \in Documents : OfType(t, f.type) /\ HasStatus(t, f.status)}

\* Mutant: the tabs are counted under the filter of the tab that is open.
FilterOfTheTab(f) == f

BaseFilter(f) == [f EXCEPT !.status = ""]

(***************************************************************************)
(* $sort, $skip and $limit: ties come in any order.                        *)
(***************************************************************************)
\* Mutant: there is no $sort.
Unsorted(order) == TRUE

Newest(order) ==
  \A i, j \in DOMAIN order :
    i < j => blockTime[order[i]] >= blockTime[order[j]]

\* Mutant: there is no $limit.
PageWithoutLimit(order, skip, limit) == SubSeq(order, skip + 1, Len(order))

Page(order, skip, limit) ==
  SubSeq(order, skip + 1, IF skip + limit < Len(order) THEN skip + limit
                                                       ELSE Len(order))

-----------------------------------------------------------------------------
(***************************************************************************)
(* The client.                                                             *)
(***************************************************************************)
Answered == step \in {"items", "byHash", "notFound", "error"}

NoListRequest == [filter |-> [status |-> "", type |-> ""],
                  page |-> 1, pageSize |-> 10, walk |-> FALSE]

NewRequest(r) ==
  /\ request' = r
  /\ step' = "total"
  /\ total' = 0 /\ actionNeeded' = 0 /\ pending' = 0
  /\ rows' = << >>
  /\ quiet' = TRUE

\* A page number out of the blue.
AskForPage(f, page, pageSize) ==
  /\ Answered
  /\ NewRequest([filter |-> f, page |-> PageOf(page),
                 pageSize |-> PageSizeOf(pageSize), walk |-> FALSE])
  /\ unseen' = {}
  /\ UNCHANGED << mirrorVars, blockTime >>

\* Under a filter on the status, documents come and go as they please: the
\* walk is one without.
StartWalk(f, pageSize) ==
  /\ Answered
  /\ f.status = ""
  /\ NewRequest([filter |-> f, page |-> PageOf(NotANumber),
                 pageSize |-> PageSizeOf(pageSize), walk |-> TRUE])
  /\ unseen' = Matching(f)
  /\ UNCHANGED << mirrorVars, blockTime >>

\* After a full page, the next one.
NextPage ==
  /\ step = "items" /\ request.walk
  /\ Len(rows) = request.pageSize
  /\ NewRequest([request EXCEPT !.page = PageOf(request.page + 1)])
  /\ UNCHANGED << mirrorVars, blockTime, unseen >>

\* After an error, the same page again.
AskAgain ==
  /\ step = "error" /\ request.walk
  /\ NewRequest(request)
  /\ UNCHANGED << mirrorVars, blockTime, unseen >>

-----------------------------------------------------------------------------
(***************************************************************************)
(* GetTransactions: three counts, then the aggregation.                    *)
(***************************************************************************)
CountTotal ==
  /\ step = "total"
  /\ total' = Cardinality(Matching(request.filter))
  /\ step' = "actionNeeded"
  /\ UNCHANGED << mirrorVars, blockTime, request, actionNeeded, pending, rows,
                  quiet, unseen >>

CountActionNeeded ==
  /\ step = "actionNeeded"
  /\ actionNeeded' = Cardinality({t \in Matching(BaseFilter(request.filter)) :
                                    status[t] \in ActionNeededStatuses})
  /\ step' = "pending"
  /\ UNCHANGED << mirrorVars, blockTime, request, total, pending, rows, quiet,
                  unseen >>

CountPending ==
  /\ step = "pending"
  /\ pending' = Cardinality({t \in Matching(BaseFilter(request.filter)) :
                               status[t] \in PendingStatuses})
  /\ step' = "match"
  /\ UNCHANGED << mirrorVars, blockTime, request, total, actionNeeded, rows,
                  quiet, unseen >>

\* $match, and the documents that $sort, $skip and $limit leave of it.
Match ==
  /\ step = "match"
  /\ Skip(request) >= 0
  /\ \E order \in SetToSeqs(Matching(request.filter)) :
       /\ Newest(order)
       /\ LET page == Page(order, Skip(request), request.pageSize)
          IN rows' = [i \in DOMAIN page |->
                        [transaction |-> page[i], status |-> status[page[i]],
                         proveTx |-> FALSE, finalizeTx |-> FALSE]]
  /\ step' = "lookupProven"
  /\ UNCHANGED << mirrorVars, blockTime, request, total, actionNeeded, pending,
                  quiet, unseen >>

\* Mutant: both lookups join the same collection.
LookupProvenInFinalized ==
  /\ step = "lookupProven"
  /\ rows' = [i \in DOMAIN rows |->
                [rows[i] EXCEPT !.proveTx = rows[i].transaction \in finalized]]
  /\ step' = "lookupFinalized"
  /\ UNCHANGED << mirrorVars, blockTime, request, total, actionNeeded, pending,
                  quiet, unseen >>

LookupProven ==
  /\ step = "lookupProven"
  /\ rows' = [i \in DOMAIN rows |->
                [rows[i] EXCEPT !.proveTx = rows[i].transaction \in proven]]
  /\ step' = "lookupFinalized"
  /\ UNCHANGED << mirrorVars, blockTime, request, total, actionNeeded, pending,
                  quiet, unseen >>

\* The handler answers with what the last lookup leaves.
LookupFinalized ==
  /\ step = "lookupFinalized"
  /\ rows' = [i \in DOMAIN rows |->
                [rows[i] EXCEPT !.finalizeTx =
                   rows[i].transaction \in finalized]]
  /\ unseen' = IF request.walk
                 THEN unseen \ {rows[i].transaction : i \in DOMAIN rows}
                 ELSE unseen
  /\ step' = "items"
  /\ UNCHANGED << mirrorVars, blockTime, request, total, actionNeeded, pending,
                  quiet >>

\* Any query may fail, or the request may run out of its 60 seconds; one with
\* a negative $skip fails always.
RequestFails ==
  /\ ~Answered
  /\ step' = "error"
  /\ total' = 0 /\ actionNeeded' = 0 /\ pending' = 0
  /\ rows' = << >> /\ quiet' = FALSE
  /\ UNCHANGED << mirrorVars, blockTime, request, unseen >>

(***************************************************************************)
(* GetTransactionByHash: one query, and no lookups.                        *)
(***************************************************************************)
GetByHash(t) ==
  /\ Answered
  /\ request' = NoListRequest
  /\ unseen' = {}
  /\ total' = 0 /\ actionNeeded' = 0 /\ pending' = 0 /\ quiet' = FALSE
  /\ IF t \in Documents
       THEN /\ step' = "byHash"
            /\ rows' = << [transaction |-> t, status |-> status[t],
                           proveTx |-> FALSE, finalizeTx |-> FALSE] >>
       ELSE step' = "notFound" /\ rows' = << >>
  /\ UNCHANGED << mirrorVars, blockTime >>

-----------------------------------------------------------------------------
(***************************************************************************)
(* The indexer goes on.                                                    *)
(***************************************************************************)
IndexerWrites ==
  /\ \/ \E txs \in SUBSET Transactions \ {{}} :
          \E s \in UNION {StatusesOf(t) : t \in txs} : WriteStatus(txs, s)
     \/ \E w \in Withdrawals : RecordProven(w) \/ RecordFinalized(w)
  /\ quiet' = FALSE
  /\ UNCHANGED << blockTime, request, step, total, actionNeeded, pending, rows,
                  unseen >>

\* Evidence only ever makes more writes possible: all of it is there at once.
ApiInit ==
  /\ \E world \in Worlds :
       evidence = world.evidence /\ blockTime = world.blockTime
  /\ status = [t \in Transactions |-> NoDocument]
  /\ proven = {} /\ finalized = {}
  /\ request = NoListRequest
  /\ step = "notFound"
  /\ total = 0 /\ actionNeeded = 0 /\ pending = 0
  /\ rows = << >> /\ quiet = FALSE /\ unseen = {}

ClientAsks ==
  \/ \E f \in Filters, pageSize \in PageSizes :
       \/ \E page \in Pages : AskForPage(f, page, pageSize)
       \/ StartWalk(f, pageSize)
  \/ NextPage \/ AskAgain
  \/ \E t \in Transactions : GetByHash(t)

HandlerGoesOn ==
  \/ CountTotal \/ CountActionNeeded \/ CountPending
  \/ Match \/ LookupProven \/ LookupFinalized \/ RequestFails

ApiNext == ClientAsks \/ HandlerGoesOn \/ IndexerWrites

ApiSpec == ApiInit /\ [][ApiNext]_apiVars

-----------------------------------------------------------------------------
TypeOK ==
  /\ status \in [Transactions ->
      {NoDocument} \cup UNION {StatusesOf(t) : t \in Transactions}]
  /\ proven \subseteq Withdrawals /\ finalized \subseteq Withdrawals
  /\ step \in Steps
  /\ request.page >= 1 /\ request.pageSize >= 1
  /\ {total, actionNeeded, pending} \subseteq 0 .. Cardinality(Transactions)
  /\ \A i \in DOMAIN rows : rows[i] \in Rows
  /\ Len(rows) <= request.pageSize
  /\ unseen \subseteq Documents

\* A client that walks from page 1 to the first page that is not full, while
\* the indexer writes, has been shown every document that was there when it
\* began, unless two of the documents have the same block time.  Documents
\* that appear on the way push others to later pages, never to earlier ones.
WalkMissesNothing ==
  step = "items" /\ request.walk /\ Len(rows) < request.pageSize =>
    \A t \in unseen : \E u \in Documents \ {t} : blockTime[u] = blockTime[t]

\* Without a filter on the status, a page is as full as the total of the same
\* answer says, although the total was counted three queries earlier.  (A page
\* past the total may hold anything: one whose number overflows does.)
PagesFilledUpToTotal ==
  step = "items" /\ request.filter.status = "" =>
    \/ Len(rows) = request.pageSize
    \/ Len(rows) >= total - (request.page - 1) * request.pageSize

\* An item that is READY_FOR_RELAY comes with the transaction that proved it:
\* the record is looked up after the status was read, and was written before.
RelayReadyRowsHaveProof ==
  step = "items" =>
    \A i \in DOMAIN rows :
      rows[i].status = "READY_FOR_RELAY" => rows[i].proveTx

\* When nothing is written during a request, the counts of its tabs are those
\* of all documents, whichever tab it asked for, and leave out the relayed
\* documents only.
TabsAddUp ==
  step = "items" /\ quiet =>
    LET all == {t \in Documents : OfType(t, request.filter.type)}
    IN actionNeeded + pending =
         Cardinality({t \in all : status[t] # "RELAYED"})
=============================================================================
