------------------------------ MODULE Checkpoint ------------------------------
(***************************************************************************)
(* What the listener promises of its blocks table, without how it keeps    *)
(* the promise: a hash-linked record of one branch that grows by a child   *)
(* of its last block and shrinks from the end.  ChainScan implements it    *)
(* with log <- blocks.                                                     *)
(***************************************************************************)
EXTENDS Storage

CONSTANTS Block, Parent, Number

VARIABLE log    \* the stored blocks by height

Init == log = [n \in {} |-> n]

\* The next block is a child of the last one; the first may be any block.
Append(b) ==
  /\ Number[b] \notin DOMAIN log
  /\ \A n \in DOMAIN log : IsLastRow(log, n) => log[n] = Parent[b]
  /\ log' = InsertIfAbsent(log, Number[b], b)

\* The root of the tree has no parent to check.
StoreRoot(b) ==
  /\ Number[b] = 0 /\ 0 \notin DOMAIN log
  /\ log' = InsertIfAbsent(log, 0, b)

\* The rows that stay are the lowest ones.
Truncate ==
  \E kept \in SUBSET DOMAIN log :
     /\ \A n \in kept, m \in DOMAIN log : m <= n => m \in kept
     /\ log' = [n \in kept |-> log[n]]

Next ==
  \/ \E b \in Block : Append(b) \/ StoreRoot(b)
  \/ Truncate

Spec == Init /\ [][Next]_log
===============================================================================
