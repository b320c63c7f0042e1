----------------------------- MODULE MCChainScan -----------------------------
(* Transactions on the tree of MCTree: t is mined at height 2 of a and at height *)
(* 3 of b (the same transaction on two branches), u at the same height of both,  *)
(* v on a only.                                                                  *)
EXTENDS ChainScan, MCTree

MCTx == {"t", "u", "v"}

MCNatives == [b \in MCBlock |-> IF b \in {"a3", "b3"} THEN {"u"} ELSE {}]

MCLogs ==
  [b \in MCBlock |->
     CASE b = "a2" -> {"t", "v"} [] b = "b3" -> {"t"} [] OTHER -> {}]

\* For the liveness run, which is about blocks: one log, on one branch.
OneTx == {"t"}
NoNatives == [b \in MCBlock |-> {}]
OneLog == [b \in MCBlock |-> IF b = "a3" THEN OneTx ELSE {}]
==============================================================================
