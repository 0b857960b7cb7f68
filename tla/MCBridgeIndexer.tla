--------------------------- MODULE MCBridgeIndexer ---------------------------
(***************************************************************************)
(* Instances of BridgeIndexer for TLC.                                     *)
(***************************************************************************)
EXTENDS BridgeIndexer, TLC

CONSTANTS w1, w2, d1, d2

OneWithdrawal == {w1}
TwoWithdrawals == {w1, w2}
OneDeposit == {d1}
TwoDeposits == {d1, d2}
Nothing == {}

\* Two withdrawals differ only in their hashes.
SwapWithdrawals == Permutations({w1, w2})
=============================================================================
