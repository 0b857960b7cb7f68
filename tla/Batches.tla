------------------------------- MODULE Batches -------------------------------
(***************************************************************************)
(* How both indexing loops choose the blocks they index next.  Heights are *)
(* uint64 in the code; the numbers here stay far below 2^64.               *)
(***************************************************************************)
EXTENDS Integers

\* Mutant: the last indexed block is never read.
ResumeAtDefault(lastIndexed, default) == default

\* The first block to index: after the last one indexed, if any is recorded.
\* A failed read of the record is treated like a missing one.
ResumeBlock(lastIndexed, default) ==
  IF lastIndexed > 0 THEN lastIndexed + 1 ELSE default

BatchReady(start, head, minBatchSize) == head >= start + minBatchSize

BatchSize(start, head, maxBatchSize) ==
  IF maxBatchSize <= head - start + 1 THEN maxBatchSize ELSE head - start + 1

BatchEnd(start, head, maxBatchSize) ==
  start + BatchSize(start, head, maxBatchSize) - 1

\* The log an iterator yields next: logs are returned in block order.
IsNextLog(log, logs) == log \in logs /\ \A l \in logs : log.block <= l.block
=============================================================================
