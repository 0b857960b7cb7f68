------------------------------- MODULE Chains -------------------------------
(***************************************************************************)
(* The two chains the indexer watches, as far as the code under src/ can   *)
(* tell them apart: the logs its Filter calls return, the head its         *)
(* BlockNumber calls return, and the timestamp that ProvenWithdrawals      *)
(* reads from the LightLinkPortal.  The contracts are not part of the      *)
(* repository; they are modelled from their ABI and from how the indexer   *)
(* uses them.  Every event is mined in a block of its own, and a mined     *)
(* block is final: the indexer has no handling of reorganisations.         *)
(***************************************************************************)
EXTENDS Integers

CONSTANTS
  Withdrawals,          \* withdrawal hashes (one per L2 bridge transaction)
  Deposits,             \* message hashes (one per L1 bridge transaction)
  FinalizationSeconds,  \* length of the challenge period
  AllowReproof,         \* may a withdrawal be proven again?
  AllowRollback,        \* may the CanonicalStateChain be rolled back?
  MaxL1Block,           \* bound on the height of L1
  MaxL2Block,           \* bound on the height of L2
  MaxTime               \* bound on the clock

ASSUME ChainsAssumption ==
  /\ Withdrawals \cap Deposits = {}
  /\ FinalizationSeconds \in Nat
  /\ AllowReproof \in BOOLEAN
  /\ AllowRollback \in BOOLEAN
  /\ MaxL1Block \in Nat
  /\ MaxL2Block \in Nat
  /\ MaxTime \in Nat

VARIABLES
  l1Head, l2Head,     \* the last block of each chain, 0 before the first
  depositLogs,        \* L1: ETHBridgeInitiated and ERC20BridgeInitiated
  provenLogs,         \* L1: WithdrawalProven
  finalizedLogs,      \* L1: WithdrawalFinalized
  outputLogs,         \* L1: OutputProposed
  withdrawalLogs,     \* L2: ETHBridgeInitiated and ERC20BridgeInitiated
  relayLogs,          \* L2: RelayedMessage
  provenWithdrawals,  \* the portal's mapping: time of the last proof, or 0
  published,          \* highest L2 block that a standing output covers
  clock               \* wall clock and block time, which agree

chainVars == << l1Head, l2Head, depositLogs, provenLogs, finalizedLogs,
                outputLogs, withdrawalLogs, relayLogs, provenWithdrawals,
                published, clock >>

ChainTypeOK ==
  /\ l1Head \in Nat
  /\ l2Head \in Nat
  /\ depositLogs \subseteq [deposit : Deposits, block : 1 .. l1Head]
  /\ provenLogs \subseteq
       [withdrawal : Withdrawals, block : 1 .. l1Head, time : 1 .. clock]
  /\ finalizedLogs \subseteq [withdrawal : Withdrawals, block : 1 .. l1Head]
  /\ outputLogs \subseteq [l2Block : 1 .. l2Head, block : 1 .. l1Head]
  /\ withdrawalLogs \subseteq [withdrawal : Withdrawals, block : 1 .. l2Head]
  /\ relayLogs \subseteq [deposit : Deposits, block : 1 .. l2Head]
  /\ provenWithdrawals \in [Withdrawals -> 0 .. clock]
  /\ published \in 0 .. l2Head
  /\ clock \in Nat \ {0}

ChainInit ==
  /\ l1Head = 0 /\ l2Head = 0
  /\ depositLogs = {} /\ provenLogs = {} /\ finalizedLogs = {}
  /\ outputLogs = {} /\ withdrawalLogs = {} /\ relayLogs = {}
  /\ provenWithdrawals = [w \in Withdrawals |-> 0]
  /\ published = 0
  /\ clock = 1

(***************************************************************************)
(* What FilterLogs returns for one event and a range of blocks.            *)
(***************************************************************************)
Filter(logs, start, end) == {l \in logs : l.block \in start .. end}

Initiated(w) == \E l \in withdrawalLogs : l.withdrawal = w
Deposited(d) == \E l \in depositLogs : l.deposit = d
RelayedOnL2(d) == \E l \in relayLogs : l.deposit = d
Proven(w) == \E l \in provenLogs : l.withdrawal = w
Finalized(w) == \E l \in finalizedLogs : l.withdrawal = w

\* An output that covers the block of withdrawal w was proposed at some time.
OutputCovers(w) ==
  \E l \in withdrawalLogs : \E o \in outputLogs :
    l.withdrawal = w /\ l.block <= o.l2Block

\* A standing output covers the block of withdrawal w: w can be proven now.
Provable(w) ==
  \E l \in withdrawalLogs : l.withdrawal = w /\ l.block <= published

-----------------------------------------------------------------------------
(***************************************************************************)
(* L2 blocks.                                                              *)
(***************************************************************************)
MineL2 ==
  /\ l2Head < MaxL2Block
  /\ l2Head' = l2Head + 1
  /\ UNCHANGED << l1Head, depositLogs, provenLogs, finalizedLogs, outputLogs,
                  provenWithdrawals, published, clock >>

EmptyL2Block == MineL2 /\ UNCHANGED << withdrawalLogs, relayLogs >>

InitiateWithdrawal(w) ==
  /\ ~Initiated(w)
  /\ MineL2
  /\ withdrawalLogs' =
       withdrawalLogs \cup {[withdrawal |-> w, block |-> l2Head + 1]}
  /\ UNCHANGED relayLogs

RelayDeposit(d) ==
  /\ Deposited(d) /\ ~RelayedOnL2(d)
  /\ MineL2
  /\ relayLogs' = relayLogs \cup {[deposit |-> d, block |-> l2Head + 1]}
  /\ UNCHANGED withdrawalLogs

-----------------------------------------------------------------------------
(***************************************************************************)
(* L1 blocks.                                                              *)
(***************************************************************************)
MineL1 ==
  /\ l1Head < MaxL1Block
  /\ l1Head' = l1Head + 1
  /\ UNCHANGED << l2Head, withdrawalLogs, relayLogs, clock >>

EmptyL1Block ==
  /\ MineL1
  /\ UNCHANGED << depositLogs, provenLogs, finalizedLogs, outputLogs,
                  provenWithdrawals, published >>

MakeDeposit(d) ==
  /\ ~Deposited(d)
  /\ MineL1
  /\ depositLogs' = depositLogs \cup {[deposit |-> d, block |-> l1Head + 1]}
  /\ UNCHANGED << provenLogs, finalizedLogs, outputLogs, provenWithdrawals,
                  published >>

ProposeOutput(n) ==
  /\ n \in published + 1 .. l2Head
  /\ MineL1
  /\ outputLogs' = outputLogs \cup {[l2Block |-> n, block |-> l1Head + 1]}
  /\ published' = n
  /\ UNCHANGED << depositLogs, provenLogs, finalizedLogs, provenWithdrawals >>

\* rollback(blockNumber, blockHash): the outputs above n no longer stand.
Rollback(n) ==
  /\ AllowRollback
  /\ n \in 0 .. published - 1
  /\ MineL1
  /\ published' = n
  /\ UNCHANGED << depositLogs, provenLogs, finalizedLogs, outputLogs,
                  provenWithdrawals >>

ProveWithdrawal(w) ==
  /\ Provable(w)
  /\ provenWithdrawals[w] = 0 \/ AllowReproof
  /\ ~Finalized(w)
  /\ MineL1
  /\ provenLogs' = provenLogs \cup
       {[withdrawal |-> w, block |-> l1Head + 1, time |-> clock]}
  /\ provenWithdrawals' = [provenWithdrawals EXCEPT ![w] = clock]
  /\ UNCHANGED << depositLogs, finalizedLogs, outputLogs, published >>

FinalizeWithdrawal(w) ==
  /\ provenWithdrawals[w] > 0
  /\ clock > provenWithdrawals[w] + FinalizationSeconds
  /\ ~Finalized(w)
  /\ MineL1
  /\ finalizedLogs' =
       finalizedLogs \cup {[withdrawal |-> w, block |-> l1Head + 1]}
  /\ UNCHANGED << depositLogs, provenLogs, outputLogs, provenWithdrawals,
                  published >>

-----------------------------------------------------------------------------
Tick ==
  /\ clock < MaxTime
  /\ clock' = clock + 1
  /\ UNCHANGED << l1Head, l2Head, depositLogs, provenLogs, finalizedLogs,
                  outputLogs, withdrawalLogs, relayLogs, provenWithdrawals,
                  published >>

ChainNext ==
  \/ EmptyL1Block
  \/ EmptyL2Block
  \/ \E w \in Withdrawals :
       InitiateWithdrawal(w) \/ ProveWithdrawal(w) \/ FinalizeWithdrawal(w)
  \/ \E d \in Deposits : MakeDeposit(d) \/ RelayDeposit(d)
  \/ \E n \in 1 .. l2Head : ProposeOutput(n)
  \/ \E n \in 0 .. l2Head : Rollback(n)
  \/ Tick
=============================================================================
