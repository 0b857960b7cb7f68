----------------------------- MODULE MCProgress -----------------------------
(***************************************************************************)
(* BridgeIndexer with chains that go on after their bounded part, for the  *)
(* progress properties.                                                    *)
(***************************************************************************)
EXTENDS MCBridgeIndexer

(***************************************************************************)
(* The sequencer keeps proposing outputs.  A later output covers at least  *)
(* the blocks covered by now, so this step is its block being mined and    *)
(* indexed, reduced to what it does to the documents of those blocks.  It  *)
(* comes after every block of the bounded part was indexed.                *)
(***************************************************************************)
LaterOutput ==
  /\ ethPc = "select"
  /\ ethStart > l1Head
  /\ UpdateWithdrawalsToReadyToProve(published)
  /\ UNCHANGED << chainVars, transactionsProven, transactionsFinalized,
                  lastIndexedBlock, ethVars, llVars, checkerVars, faults >>

ProgressSpec ==
  /\ Init
  /\ [][Next \/ LaterOutput]_vars
  /\ Fairness
  /\ WF_vars(LaterOutput)
=============================================================================
