---------------------------- MODULE MCConfirmations ----------------------------
(* Logs on the tree of MCTree: t is mined at height 2 of a and at height 3 of b, v *)
(* in the same block of a as t, and there only.                                    *)
EXTENDS Confirmations, MCTree

MCTx == {"t", "v"}
NoNatives == [b \in MCBlock |-> {}]
MCLogs ==
  [b \in MCBlock |->
     CASE b = "a2" -> {"t", "v"} [] b = "b3" -> {"t"} [] OTHER -> {}]
TwoBranches == {c \in MCChains : \A n \in DOMAIN c : c[n] \notin {"c3", "c4"}}
===============================================================================
