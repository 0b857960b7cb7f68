--------------------------- MODULE BatchArithmetic ---------------------------
(***************************************************************************)
(* The choice of a batch in the unsigned arithmetic of the code, for words *)
(* of W values (uint64: W = 2^64), and when it agrees with Batches, which  *)
(* the models use.                                                         *)
(***************************************************************************)
EXTENDS Batches, TLAPS

\* lastBlock < start + minBatchSize, where the sum may wrap around.
WordBatchReady(start, head, minBatchSize, W) ==
  ~(head < (start + minBatchSize) % W)

\* min(maxBatchSize, lastBlock - start + 1)
WordBatchSize(start, head, maxBatchSize, W) ==
  LET rest == (head - start + 1) % W
  IN IF maxBatchSize <= rest THEN maxBatchSize ELSE rest

\* start + batchSize - 1, but at most lastBlock.
WordBatchEnd(start, head, maxBatchSize, W) ==
  LET end == (start + WordBatchSize(start, head, maxBatchSize, W) - 1) % W
  IN IF end > head THEN head ELSE end

-----------------------------------------------------------------------------
\* A number that fits in a word is its own remainder.
LEMMA WordOfSmall ==
  ASSUME NEW W \in Nat \ {0}, NEW n \in 0 .. W - 1
  PROVE  n % W = n
  BY SMT

\* As long as the first block plus the minimal size and the head fit in a
\* word, a batch is ready when Batches says so, and is the batch of Batches:
\* not empty, and within the chain.
THEOREM ArithmeticAgrees ==
  ASSUME NEW W \in Nat \ {0},
         NEW start \in Nat, NEW head \in 0 .. W - 2,
         NEW min \in Nat, NEW max \in 1 .. W - 1,
         start + min < W
  PROVE  /\ WordBatchReady(start, head, min, W) <=> BatchReady(start, head, min)
         /\ BatchReady(start, head, min) =>
              /\ WordBatchEnd(start, head, max, W) = BatchEnd(start, head, max)
              /\ WordBatchEnd(start, head, max, W) \in start .. head
<1>1. (start + min) % W = start + min
  <2>1. start + min \in 0 .. W - 1
    OBVIOUS
  <2>2. QED
    BY <2>1, WordOfSmall
<1>2. WordBatchReady(start, head, min, W) <=> BatchReady(start, head, min)
  BY <1>1 DEF WordBatchReady, BatchReady
<1>3. ASSUME BatchReady(start, head, min)
      PROVE  /\ WordBatchEnd(start, head, max, W) = BatchEnd(start, head, max)
             /\ WordBatchEnd(start, head, max, W) \in start .. head
  <2>1. start <= head
    BY <1>3 DEF BatchReady
  <2>2. head - start + 1 \in 1 .. W - 1
    BY <2>1
  <2>3. (head - start + 1) % W = head - start + 1
    <3>1. head - start + 1 \in 0 .. W - 1
      BY <2>2
    <3>2. QED
      BY <3>1, WordOfSmall
  <2> DEFINE size == BatchSize(start, head, max)
  <2>4. WordBatchSize(start, head, max, W) = size
    BY <2>3 DEF WordBatchSize, BatchSize
  <2>5. size \in 1 .. (head - start + 1)
    BY <2>2 DEF BatchSize
  <2>6. start + size - 1 \in start .. head
    BY <2>1, <2>5
  <2>7. (start + size - 1) % W = start + size - 1
    <3>1. start + size - 1 \in 0 .. W - 1
      BY <2>6
    <3>2. QED
      BY <3>1, WordOfSmall
  <2>8. WordBatchEnd(start, head, max, W) = start + size - 1
    BY <2>4, <2>6, <2>7 DEF WordBatchEnd
  <2>9. QED
    BY <2>6, <2>8 DEF BatchEnd
<1>4. QED
  BY <1>2, <1>3

\* MAX_BATCH_SIZE = 0 is accepted by main, and the loop then makes no progress:
\* every batch ends one block before it starts, so that the next one starts
\* where this one did.
THEOREM EmptyBatchMakesNoProgress ==
  ASSUME NEW W \in Nat \ {0}, NEW head \in 0 .. W - 2,
         NEW start \in 1 .. head
  PROVE  WordBatchEnd(start, head, 0, W) + 1 = start
<1>1. (head - start + 1) % W = head - start + 1
  <2>1. head - start + 1 \in 0 .. W - 1
    OBVIOUS
  <2>2. QED
    BY <2>1, WordOfSmall
<1>2. WordBatchSize(start, head, 0, W) = 0
  BY <1>1 DEF WordBatchSize
<1>3. (start + 0 - 1) % W = start - 1
  <2>1. start + 0 - 1 \in 0 .. W - 1 /\ start + 0 - 1 = start - 1
    OBVIOUS
  <2>2. QED
    BY <2>1, WordOfSmall
<1>4. QED
  BY <1>2, <1>3 DEF WordBatchEnd
=============================================================================
