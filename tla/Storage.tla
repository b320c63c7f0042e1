------------------------------- MODULE Storage -------------------------------
(***************************************************************************)
(* The PostgreSQL tables behind internal/database, as partial functions    *)
(* from a table's unique key to its row, and the statements the listener   *)
(* and the confirmation updater run on them.  Every operator is one        *)
(* database transaction of the code.                                       *)
(*                                                                         *)
(* events: the unique index idx_tx_log (tx_hash, log_index) covers the     *)
(* soft-deleted rows too, so it is the key.  A row keeps the block it came *)
(* from; row.live is "deleted_at IS NULL".                                 *)
(***************************************************************************)
EXTENDS Naturals

\* INSERT of a row whose key may be taken; a taken key leaves the table alone.
InsertIfAbsent(table, key, row) ==
  [k \in DOMAIN table \cup {key} |->
     IF k \in DOMAIN table THEN table[k] ELSE row]

\* SaveBlock: ON CONFLICT (chain, number) updates confirmed only, never the hash.
SaveBlockRow(table, number, block) == InsertIfAbsent(table, number, block)

\* A new row of events: unconfirmed and visible.
EventRow(block) == [block |-> block, live |-> TRUE, final |-> FALSE]

\* SaveEvent: FirstOrCreate by id.  A visible row with the id is left alone; when
\* none is visible the INSERT runs, and fails if the key belongs to a soft-deleted
\* row or to a row of another height.
SaveEventRow(table, key, block) == InsertIfAbsent(table, key, EventRow(block))

\* GetLastBlock: the row with the highest number.
IsLastRow(table, n) == n \in DOMAIN table /\ \A m \in DOMAIN table : m <= n

\* RollbackToBlock on blocks, which has no deleted_at: the rows go.
RollbackBlockRows(table, target) ==
  [n \in {m \in DOMAIN table : m <= target} |-> table[n]]

\* RollbackToBlock on events, which has deleted_at: the rows stay, invisible.
RollbackEventRows(table, numberOf, target) ==
  [k \in DOMAIN table |->
     [table[k] EXCEPT !.live = @ /\ numberOf[table[k].block] <= target]]

\* updateEventConfirmations: raw SQL, which sees soft-deleted rows as well.
FinalizeEventRows(table, numberOf, head, required) ==
  [k \in DOMAIN table |->
     [table[k] EXCEPT !.final = @ \/ numberOf[table[k].block] + required <= head]]
==============================================================================
