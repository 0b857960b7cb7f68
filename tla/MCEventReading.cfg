\* Every event of the bindings, up to three logs over a channel for one; two
\* bridge transactions, and failures enough for one call to be given up.
SPECIFICATION Spec
CONSTANTS
  v1 = v1
  v2 = v2
  t1 = t1
  t2 = t2
  m1 = m1
  m2 = m2
  m3 = m3
  Values = {v1, v2}
  Asked = {v1}
  LogCapacity = 1
  MaxLogs = 3
  MaxPushed = 3
  Txs = {t1, t2}
  Messages = {m1, m2, m3}
  Unrelated = Unrelated
  Sent <- MCSent
  Unreadable <- MCUnreadable
  NoHash = NoHash
  NoDocument = NoDocument
  MaxFailures = 6
  MaxEvents = 3
INVARIANTS
  TypeOK
  TransientFailuresSurvived
  ReceiptsGiveLastMessage
PROPERTIES
  ReadsEveryLog
  CallsReturn
  UnsubscribingEnds
  WritesTheBatch
  CollectionReturns
\* A call that blocks for ever is for CallsReturn to find.
CHECK_DEADLOCK FALSE
