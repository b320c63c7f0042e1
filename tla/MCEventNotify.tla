---------------------------- MODULE MCEventNotify ----------------------------
(* Two transactions for EventNotify: t1 with two rows, t2 with one. *)
EXTENDS EventNotify

MCTx == {"t1", "t2"}
MCEvent == {"e1", "e2", "f1"}
MCTxOf == [e \in MCEvent |-> IF e = "f1" THEN "t2" ELSE "t1"]

\* t1 alone.
PairTx == {"t1"}
PairEvent == {"e1", "e2"}
PairTxOf == [e \in PairEvent |-> "t1"]

OneEndpoint == {"p"}
TwoEndpoints == {"p", "q"}
NoEvents == {}
SilentF == {"f1"}
==============================================================================
