------------------------------- MODULE MCLedger -------------------------------
(***************************************************************************)
(* Blocks for Ledger on the tree of MCTree.  alice and bob are monitored,  *)
(* pool is the configured contract, vault the withdraw EOA; carl is        *)
(* somebody else.                                                          *)
(***************************************************************************)
EXTENDS Ledger, MCTree

MCAccount == {"alice", "bob", "carl", "vault", "pool"}
MCMonitored == {"alice", "bob"}
MCOwnContract == {"pool"}
MCCode == {"pool"}
MCToken == {"eth", "usd"}

Paid(tx, name, index, from, to, token) ==
  [tx |-> tx, name |-> name, index |-> index, sender |-> from, from |-> from, to |-> to,
   token |-> token, create |-> FALSE, ok |-> TRUE]

MCData ==
  \* what people send each other directly
  "in"       :> Paid("h1", "NativeTransfer", 0, "carl", "alice", "eth") @@
  "reverted" :> [Paid("h3", "NativeTransfer", 0, "carl", "bob", "eth") EXCEPT !.ok = FALSE] @@
  \* a deposit that bob sends for alice, with the transfer it consists of
  "move"     :> Paid("h6", "Transfer", 3, "alice", "pool", "usd") @@
  "deposit"  :> [Paid("h6", "Deposit", 4, "alice", "pool", "usd") EXCEPT !.sender = "bob"] @@
  \* a withdrawal the vault pays for, its native transfer and its log 0
  "vaultpay" :> Paid("h8", "NativeTransfer", 0, "vault", "pool", "eth") @@
  "withdraw" :> Paid("h8", "Withdraw", 0, "pool", "carl", "eth") @@
  \* batches
  "payin"    :> Paid("h9", "BatchPayinItem", 6, "bob", "pool", "usd") @@
  "payout1"  :> Paid("h10", "BatchPayoutItem", 7, "pool", "alice", "usd") @@
  "payout2"  :> Paid("h10", "BatchPayoutItem", 8, "pool", "bob", "usd") @@
  \* an event no handler knows
  "approve"  :> Paid("h10", "Approval", 10, "bob", "pool", "usd") @@
  \* a contract creation that moves tokens
  "create"   :> [Paid("h11", "Transfer", 9, "carl", "bob", "usd") EXCEPT !.create = TRUE]

MCTx == DOMAIN MCData

\* The branches a and b of the tree are enough: they fork below the first entry.
MCBranches == {c \in MCChains : {c[n] : n \in DOMAIN c} \cap {"c3", "c4"} = {}}

\* b mines again what a did at height 2, one block later.  The transaction no log of
\* which can be processed is on a only, so that the node may leave it behind.
Mined2a == [natives |-> {}, logs |-> {"move", "deposit"}]
Mined3a == [natives |-> {"vaultpay"}, logs |-> {"withdraw", "create"}]
Mined4a == [natives |-> {"reverted"}, logs |-> {}]
Mined2b == [natives |-> {"in"}, logs |-> {}]
Mined4b == [natives |-> {}, logs |-> {"payout1", "payout2", "payin", "approve"}]

MinedIn ==
  "a2" :> Mined2a @@ "b3" :> Mined2a @@ "a3" :> Mined3a @@ "a4" :> Mined4a
  @@ "b2" :> Mined2b @@ "b4" :> Mined4b

MCNatives == [b \in MCBlock |-> IF b \in DOMAIN MinedIn THEN MinedIn[b].natives ELSE {}]
MCLogs == [b \in MCBlock |-> IF b \in DOMAIN MinedIn THEN MinedIn[b].logs ELSE {}]
===============================================================================
