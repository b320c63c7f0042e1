-------------------------------- MODULE Ledger --------------------------------
(***************************************************************************)
(* What the listener writes down about the transactions of a block: the    *)
(* deposits, withdraws, balance_histories, address_balances, transactions  *)
(* and events tables (listener_native_transfer.go, listener_event.go,      *)
(* listener_balance.go).                                                   *)
(*                                                                         *)
(* An element of Tx is here an entry of a block: one native transfer, or   *)
(* one log; several entries may belong to one transaction.  Processing an  *)
(* entry is a sequence of statements, each a database transaction of its   *)
(* own: the process can die between any two, and the block is then scanned *)
(* again from its first entry.                                             *)
(*                                                                         *)
(* The scan itself is cut more coarsely than in ChainScan: a header is     *)
(* fetched, compared with the last row and answered by a rollback in one   *)
(* step, and the three lookups processLog makes for a log are one.  The    *)
(* branch may change before, between and after all of these: the header,   *)
(* the transactions, the logs and the block each log is looked up in are   *)
(* read from the chain one after the other.                                *)
(*                                                                         *)
(* Places of the goroutine (stage): down, idle, header (fetched and        *)
(* compared), natives, logs.                                               *)
(***************************************************************************)
EXTENDS NodeChain, Storage, Sequences

CONSTANTS
  Data,           \* Data[e]: what the entry e says, see Entry
  Account, Token,
  Monitored,      \* accounts isAddressMonitored answers TRUE for
  OwnContract,    \* the contracts of the configuration (l.contracts)
  Code,           \* accounts with contract code (isContractAddress)
  WithdrawEOA,    \* the configured withdraw_eoa
  RollbackDepth,  \* how far handleReorg goes back
  StartBlock,     \* the configured start_block, a number or "earliest" (0)
  MaxFaults,      \* bound: returned errors
  MaxSwallowed,   \* bound: errors that are only logged
  MaxRestarts     \* bound: crashes

\* A log says who paid (from), who was paid (to), and in which token; its index is
\* its place in the block.  index 0 of a native transfer is the one the code makes
\* up.  "Deposit" and "Withdraw" stand for the ETH events too, whose token is "0x0";
\* the transaction of a deposit calls the contract that logs it.  create: the
\* transaction has no To address.  ok: it was not reverted.
Entry == [tx : STRING, name : STRING, index : Nat, sender : Account,
          from : Account, to : Account, token : Token, create : BOOLEAN, ok : BOOLEAN]

ASSUME LedgerAssumption ==
  /\ Data \in [Tx -> Entry]
  /\ Monitored \subseteq Account /\ OwnContract \subseteq Account /\ Code \subseteq Account
  /\ RollbackDepth \in Nat \ {0} /\ StartBlock \in Nat /\ MaxFaults \in Nat
  /\ MaxSwallowed \in Nat /\ MaxRestarts \in Nat
  /\ \A b \in Block : \A e \in Logs[b] : Data[e].ok

\* The genesis block has no transactions, its accounts have no history.
ASSUME GenesisAssumption == Natives[Genesis] = {} /\ Logs[Genesis] = {}

\* RawTxMap has one transfer per transaction hash, a log has its index to itself, and a
\* transaction is in one block of a chain, with all its entries.
ASSUME EntryAssumption ==
  /\ \A b \in Block :
       /\ \A e \in Natives[b] : Data[e].name = "NativeTransfer"
       /\ \A e \in Logs[b] : Data[e].name # "NativeTransfer"
       /\ \A e, f \in Natives[b] : Data[e].tx = Data[f].tx => e = f
       /\ \A e, f \in Logs[b] : Data[e].index = Data[f].index => e = f
  /\ \A c \in Chains : \A m, n \in DOMAIN c :
       m # n => \A e \in Natives[c[m]] \cup Logs[c[m]] : \A f \in Natives[c[n]] \cup Logs[c[n]] :
                  Data[e].tx # Data[f].tx

VARIABLES
  blocks,     \* blocks table
  deposits, withdraws,   \* <<transaction, from>> -> [block, to]
  history,    \* balance_histories: <<address, token, transaction>> -> [block, after]
  balances,   \* address_balances: <<address, token>> -> [block, value]
  txs,        \* transactions: transaction -> [block, live]
  events,     \* events: <<transaction, index>> -> [entry, block, live]
  stage, cursor, todo,   \* the goroutine: its place, height, entries left
  header,     \* processBlock's header, Genesis outside of it
  source,     \* the block FilterLogs answered from
  work,       \* statements left of the entry in hand
  mixed,      \* history variable: heights whose block the chain replaced while it
              \* was being written
  faults, swallowed, restarts,
  panicked    \* the process has died of a nil pointer

ledger == <<deposits, withdraws, history, balances, txs, events>>
control == <<blocks, stage, cursor, todo, header, source, mixed>>
deaths == <<restarts, panicked>>
counts == <<faults, swallowed, deaths>>
vars == <<chainVars, ledger, control, work, counts>>

Empty == [k \in {} |-> k]

Init ==
  /\ ChainInit
  /\ blocks = Empty /\ deposits = Empty /\ withdraws = Empty /\ history = Empty
  /\ balances = Empty /\ txs = Empty /\ events = Empty
  /\ stage = "down" /\ cursor = 0 /\ todo = {} /\ work = <<>>
  /\ header = Genesis /\ source = Genesis /\ mixed = {}
  /\ faults = 0 /\ swallowed = 0 /\ restarts = 0 /\ panicked = FALSE

Fault == faults < MaxFaults /\ faults' = faults + 1
Swallowed == swallowed < MaxSwallowed /\ swallowed' = swallowed + 1

------------------------------------------------------------------------------
(* What an entry makes the listener write. *)

\* The raw transaction spells its addresses in lower case, a log in the mixed case
\* of its checksum; the columns of the tables are text and keep the spelling.
Address == {"lower", "mixed"} \X Account
Spelled(e, account) == <<IF Data[e].name = "NativeTransfer" THEN "lower" ELSE "mixed", account>>

\* Mutant: the two parties are swapped.
MovementSwapped(do, e, from, to, b) ==
  [do |-> do, entry |-> e, block |-> b,
   key |-> Spelled(e, to), to |-> <<Data[e].tx, Spelled(e, from)>>,
   strict |-> Data[e].name \notin {"NativeTransfer", "Transfer"}]

\* A row of block b.  strict: the handler returns when the row cannot be saved.
Movement(do, e, from, to, b) ==
  [do |-> do, entry |-> e, block |-> b,
   key |-> <<Data[e].tx, Spelled(e, from)>>, to |-> Spelled(e, to),
   strict |-> Data[e].name \notin {"NativeTransfer", "Transfer"}]
Deposit(e, from, to, b) == Movement("deposit", e, from, to, b)
Withdraw(e, from, to, b) == Movement("withdraw", e, from, to, b)
Balance(e, account) ==
  [do |-> "balance", key |-> <<Spelled(e, account), Data[e].token>>, tx |-> Data[e].tx]
SaveTransaction(e, b) == [do |-> "transaction", key |-> Data[e].tx, block |-> b]
SaveEvent(e, b) ==
  [do |-> "event", key |-> <<Data[e].tx, Data[e].index>>, entry |-> e, block |-> b]
Panic == [do |-> "panic"]

When(condition, statements) == IF condition THEN statements ELSE <<>>

\* processNativeTransfersWithStandardRPC and saveNativeTransferFromAlchemy: every row
\* names the block of the header, whichever block the transfer was read from.
NativeWork(e, b) ==
  LET d == Data[e]
      isWithdraw == d.from = WithdrawEOA
      toMonitored == d.to \in Monitored
  IN When(isWithdraw, <<Withdraw(e, d.from, d.to, b), Balance(e, d.from)>>)
     \o When(toMonitored, <<Deposit(e, d.from, d.to, b), Balance(e, d.to)>>)
     \o When(isWithdraw \/ toMonitored, <<SaveEvent(e, b), SaveTransaction(e, b)>>)

\* isEventRelatedToMonitoredAddresses, and the rule of processLog that leaves the
\* transfers of the configured contracts to their business events.
Relevant(e) ==
  LET d == Data[e] IN
  CASE d.name = "Withdraw" -> TRUE
    [] d.name = "Transfer" -> /\ {d.from, d.to} \cap Monitored # {} \/ {d.from, d.to} \cap Code = {}
                              /\ {d.from, d.to} \cap OwnContract = {}
    [] d.name \in {"Deposit", "BatchPayinItem"} -> d.from \in Monitored
    [] d.name = "BatchPayoutItem" -> d.to \in Monitored
    [] OTHER -> {d.from, d.to} \cap Monitored # {}

\* The handlers of listener_event.go; in "Deposit" the payer is the sender of the
\* transaction, whoever the log names.  An event of any other name ("Approval") has
\* no handler.
HandlerWork(e, b) ==
  LET d == Data[e] IN
  CASE d.name = "Deposit" ->
         When(d.sender \in Monitored, <<Deposit(e, d.sender, d.to, b), Balance(e, d.sender)>>)
    [] d.name = "Withdraw" ->
         <<Withdraw(e, d.from, d.to, b)>> \o When(d.to \in Monitored, <<Balance(e, d.to)>>)
    [] d.name = "Transfer" ->
         When(d.from \in Monitored, <<Withdraw(e, d.from, d.to, b), Balance(e, d.from)>>)
         \o When(d.to \in Monitored, <<Deposit(e, d.from, d.to, b), Balance(e, d.to)>>)
    [] d.name = "BatchPayinItem" ->
         When(d.from \in Monitored, <<Deposit(e, d.from, d.to, b), Balance(e, d.from)>>)
    [] d.name = "BatchPayoutItem" ->
         When(d.to \in Monitored, <<Withdraw(e, d.from, d.to, b), Balance(e, d.to)>>)
    [] OTHER -> <<>>

\* processLog.  The handlers and SaveTransaction name the block found at the log's
\* height (info), the event row the one the log came with (logged).  tx.To() of a
\* contract creation is nil, and is dereferenced: by the deposit handler before it
\* saves anything, otherwise right before SaveEvent.
LogWork(e, info, logged) ==
  LET d == Data[e] IN
  IF ~Relevant(e) THEN <<>>
  ELSE IF d.create /\ d.name = "Deposit" /\ d.sender \in Monitored THEN <<Panic>>
  ELSE HandlerWork(e, info)
       \o <<SaveTransaction(e, info), IF d.create THEN Panic ELSE SaveEvent(e, logged)>>

Work(e, info, logged) ==
  IF Data[e].name = "NativeTransfer" THEN NativeWork(e, info) ELSE LogWork(e, info, logged)

\* The node's answer to BalanceAt or balanceOf at height n: a balance stands for
\* the set of movements that make it up.
BalanceAt(address, token, n) ==
  {e \in Tx :
     /\ Data[e].ok /\ Data[e].token = token
     /\ address[2] \in {Data[e].from, Data[e].to}
     /\ \E m \in DOMAIN canon : m <= n /\ e \in Natives[canon[m]] \cup Logs[canon[m]]}

------------------------------------------------------------------------------
(* The scan. *)

\* getStartBlock: behind the checkpoint, if there is one above block 0 ...
Resume ==
  /\ stage = "down" /\ stage' = "idle"
  /\ \E n \in DOMAIN blocks : n > 0 /\ IsLastRow(blocks, n) /\ cursor' = n + 1
  /\ UNCHANGED <<chainVars, ledger, blocks, todo, header, source, mixed, work, counts>>

\* ... or where the configuration says: there is none, or the query for it failed,
\* an error that is not looked at.
StartAfresh ==
  /\ stage = "down" /\ stage' = "idle"
  /\ cursor' = StartBlock
  /\ IF \E n \in DOMAIN blocks : n > 0 THEN Swallowed ELSE UNCHANGED swallowed
  /\ UNCHANGED <<chainVars, ledger, blocks, todo, header, source, mixed, work, faults, deaths>>

Mismatch == \E n \in DOMAIN blocks : IsLastRow(blocks, n) /\ blocks[n] # Parent[canon[cursor]]

\* processBlock up to its first entry: the parent fits.
BeginBlock ==
  /\ stage = "idle" /\ cursor \in DOMAIN canon
  /\ cursor > 0 => ~Mismatch
  /\ stage' = "header" /\ header' = canon[cursor]
  /\ UNCHANGED <<chainVars, ledger, blocks, cursor, todo, source, mixed, work, counts>>

\* The rows that are deleted for good leave nothing behind.
Below(table, target) == [k \in {j \in DOMAIN table : Number[table[j].block] <= target} |-> table[k]]

\* Mutant: the history is kept.
DeleteAboveNotHistory(target) ==
  /\ events' = RollbackEventRows(events, Number, target)
  /\ txs' = RollbackEventRows(txs, Number, target)
  /\ deposits' = Below(deposits, target) /\ withdraws' = Below(withdraws, target)
  /\ blocks' = RollbackBlockRows(blocks, target)
  /\ UNCHANGED <<history, balances>>

\* RollbackToBlock: events and transactions are deleted softly, the others for good,
\* address_balances not at all.
DeleteAbove(target) ==
  /\ events' = RollbackEventRows(events, Number, target)
  /\ txs' = RollbackEventRows(txs, Number, target)
  /\ deposits' = Below(deposits, target) /\ withdraws' = Below(withdraws, target)
  /\ history' = Below(history, target)
  /\ blocks' = RollbackBlockRows(blocks, target)
  /\ UNCHANGED balances

RollBackTo(target) ==
  /\ stage = "idle" /\ cursor \in DOMAIN canon /\ cursor > 0 /\ Mismatch
  /\ DeleteAbove(target)
  /\ cursor' = target + 1
  /\ mixed' = {n \in mixed : n <= target}
  /\ UNCHANGED <<chainVars, stage, todo, header, source, work, counts>>

\* processBlock and handleReorg: the parent does not fit.
Rollback == RollBackTo(IF cursor <= RollbackDepth THEN 0 ELSE cursor - RollbackDepth)

\* The transactions are fetched by height.
FetchNatives ==
  /\ stage = "header"
  /\ stage' = "natives" /\ todo' = NativesAt(cursor)
  /\ UNCHANGED <<chainVars, ledger, blocks, cursor, header, source, mixed, work, counts>>

\* They cannot be fetched: logged, and the block goes on without its native transfers.
FetchNativesFails ==
  /\ stage = "header" /\ stage' = "natives"
  /\ Swallowed
  /\ UNCHANGED <<chainVars, ledger, blocks, cursor, todo, header, source, mixed, work, faults, deaths>>

\* The native transfers come out of a Go map, in any order.
TakeNative(e) ==
  /\ stage = "natives" /\ work = <<>> /\ e \in todo
  /\ todo' = todo \ {e} /\ work' = Work(e, header, header)
  /\ UNCHANGED <<chainVars, ledger, blocks, stage, cursor, header, source, mixed, counts>>

\* The logs are fetched by height; there are none if the height has gone.
FetchLogs ==
  /\ stage = "natives" /\ work = <<>> /\ todo = {}
  /\ stage' = "logs" /\ todo' = LogsAt(cursor)
  /\ source' = IF cursor \in DOMAIN canon THEN canon[cursor] ELSE header
  /\ UNCHANGED <<chainVars, ledger, blocks, cursor, header, mixed, work, counts>>

\* Mutant: the error of FilterLogs is only logged.
FetchLogsErrorLogged ==
  /\ stage = "natives" /\ work = <<>> /\ todo = {}
  /\ Fault
  /\ stage' = "logs"
  /\ UNCHANGED <<chainVars, ledger, blocks, cursor, todo, header, source, mixed, work, swallowed, deaths>>

\* FilterLogs fails: the block is scanned again, with its native transfers.
FetchLogsFails ==
  /\ stage = "natives" /\ work = <<>> /\ todo = {}
  /\ Fault
  /\ stage' = "idle" /\ header' = Genesis
  /\ UNCHANGED <<chainVars, ledger, blocks, cursor, todo, source, mixed, work, swallowed, deaths>>

\* The first log left.
NextLog(e) ==
  /\ stage = "logs" /\ work = <<>> /\ e \in todo
  /\ \A f \in todo : Data[e].index <= Data[f].index
  /\ todo' = todo \ {e}
  /\ UNCHANGED <<chainVars, ledger, blocks, stage, cursor, header, source, mixed>>

\* TransactionByHash and TransactionReceipt find what the chain holds.
Executed(e) ==
  \E n \in DOMAIN canon : \E f \in Natives[canon[n]] \cup Logs[canon[n]] : Data[f].tx = Data[e].tx

\* The logs come in their order.  A transaction that is back among the pending ones,
\* or a height that has gone, makes processLog return without an error.
TakeLog(e) ==
  /\ NextLog(e)
  /\ work' = When(Executed(e) /\ cursor \in DOMAIN canon, Work(e, canon[cursor], source))
  /\ UNCHANGED counts

\* The transaction, its receipt or its header cannot be fetched: logged, and the
\* log is passed over.
SkipLog(e) ==
  /\ NextLog(e)
  /\ Swallowed
  /\ UNCHANGED <<work, faults, deaths>>

\* processBlock returns nil, and the next block is due.
Advance ==
  /\ stage = "logs" /\ work = <<>> /\ todo = {}
  /\ cursor' = cursor + 1 /\ stage' = "idle"
  /\ header' = Genesis /\ source' = Genesis
  /\ UNCHANGED <<chainVars, ledger, todo, mixed, work>>

SaveBlock ==
  /\ Advance
  /\ blocks' = SaveBlockRow(blocks, cursor, header)
  /\ UNCHANGED counts

\* The error is logged, and processBlock still returns nil.
SaveBlockFails == Advance /\ Swallowed /\ UNCHANGED <<blocks, faults, deaths>>

------------------------------------------------------------------------------
(* The statements. *)

\* The statement at the head of work is of the given kind.
Doing(do) == work # <<>> /\ Head(work).do = do /\ work' = Tail(work)

\* SaveDeposit and SaveWithdraw: ON CONFLICT the row keeps its data.
Record ==
  /\ LET s == Head(work)
         row == [block |-> s.block, to |-> s.to]
     IN \/ /\ Doing("deposit")
           /\ deposits' = InsertIfAbsent(deposits, s.key, row) /\ UNCHANGED withdraws
        \/ /\ Doing("withdraw")
           /\ withdraws' = InsertIfAbsent(withdraws, s.key, row) /\ UNCHANGED deposits
  /\ UNCHANGED <<chainVars, history, balances, txs, events, control, counts>>

\* UpdateAddressBalance with the balance at height n.  The tables keep the height
\* only; the block of a row is the one whose balance was asked for.  A second history
\* row for the same transaction undoes the whole update, and so it ends when the
\* height has gone.
SetBalance(n) ==
  /\ Doing("balance")
  /\ LET s == Head(work)
         key == <<s.key[1], s.key[2], s.tx>>
         value == BalanceAt(s.key[1], s.key[2], n)
     IN IF key \in DOMAIN history \/ cursor \notin DOMAIN canon
        THEN UNCHANGED <<history, balances>>
        ELSE /\ history' = InsertIfAbsent(history, key, [block |-> canon[cursor], after |-> value])
             /\ balances' = [k \in DOMAIN balances \cup {s.key} |->
                               IF k = s.key THEN [block |-> canon[cursor], value |-> value]
                               ELSE balances[k]]
  /\ UNCHANGED <<chainVars, deposits, withdraws, txs, events, control, counts>>

\* Mutant: the balance is asked for at the newest block.
UpdateBalanceLatest == SetBalance(MaxHeight)

\* updateBalanceFromEvent asks for the balance at the height of the block.
UpdateBalance == SetBalance(cursor)

\* SaveTransaction: ON CONFLICT (tx_hash) deleted_at is not touched.
RecordTransaction ==
  /\ Doing("transaction")
  /\ txs' = InsertIfAbsent(txs, Head(work).key, [block |-> Head(work).block, live |-> TRUE])
  /\ UNCHANGED <<chainVars, deposits, withdraws, history, balances, events, control, counts>>

\* SaveEvent, as in module Storage.
RecordEvent ==
  /\ Doing("event")
  /\ events' = InsertIfAbsent(events, Head(work).key,
                 [entry |-> Head(work).entry, block |-> Head(work).block, live |-> TRUE])
  /\ UNCHANGED <<chainVars, deposits, withdraws, history, balances, txs, control, counts>>

\* A failed statement is logged.  Most handlers give up at a failed save, and do
\* not update the balance; a transfer's goes on, and so do processLog and its caller.
StatementFails ==
  /\ work # <<>> /\ Head(work).do # "panic"
  /\ Swallowed
  /\ LET givesUp == /\ Head(work).do \in {"deposit", "withdraw"} /\ Head(work).strict
                    /\ Head(Tail(work)).do = "balance"
     IN work' = IF givesUp THEN Tail(Tail(work)) ELSE Tail(work)
  /\ UNCHANGED <<chainVars, ledger, control, faults, deaths>>

\* The process dies: by itself, or of the nil pointer.
Die ==
  /\ stage # "down" /\ stage' = "down"
  /\ cursor' = 0 /\ todo' = {} /\ header' = Genesis /\ source' = Genesis /\ work' = <<>>
  /\ UNCHANGED <<chainVars, ledger, blocks, mixed, faults, swallowed>>

Crash == Die /\ restarts < MaxRestarts /\ restarts' = restarts + 1 /\ UNCHANGED panicked
Panics == work # <<>> /\ Head(work).do = "panic" /\ Die /\ panicked' = TRUE /\ UNCHANGED restarts

Scanning ==
  \/ Resume \/ StartAfresh \/ BeginBlock \/ Rollback \/ FetchNatives \/ FetchLogs \/ SaveBlock
  \/ Record \/ UpdateBalance \/ RecordTransaction \/ RecordEvent \/ Panics
  \/ \E e \in Tx : TakeNative(e) \/ TakeLog(e)

Failing ==
  \/ FetchNativesFails \/ FetchLogsFails \/ StatementFails \/ SaveBlockFails \/ Crash
  \/ \E e \in Tx : SkipLog(e)

InBlock == stage \in {"header", "natives", "logs"}
Replaced == cursor \notin DOMAIN canon' \/ canon'[cursor] # header

\* The chain grows or switches at any moment.
Environment ==
  /\ ChainNext
  /\ mixed' = IF InBlock /\ Replaced THEN mixed \cup {cursor} ELSE mixed
  /\ UNCHANGED <<ledger, blocks, stage, cursor, todo, header, source, work, counts>>

Next == Scanning \/ Failing \/ Environment

Spec == Init /\ [][Next]_vars

------------------------------------------------------------------------------
(* Properties. *)

\* Every variable has its type.
TypeOK ==
  /\ blocks \in [DOMAIN blocks -> Block] /\ DOMAIN blocks \subseteq Nat
  /\ deposits \in [DOMAIN deposits -> [block : Block, to : Address]]
  /\ withdraws \in [DOMAIN withdraws -> [block : Block, to : Address]]
  /\ history \in [DOMAIN history -> [block : Block, after : SUBSET Tx]]
  /\ balances \in [DOMAIN balances -> [block : Block, value : SUBSET Tx]]
  /\ txs \in [DOMAIN txs -> [block : Block, live : BOOLEAN]]
  /\ events \in [DOMAIN events -> [entry : Tx, block : Block, live : BOOLEAN]]
  /\ stage \in {"down", "idle", "header", "natives", "logs"} /\ cursor \in Nat /\ todo \subseteq Tx
  /\ header \in Block /\ source \in Block /\ mixed \subseteq Nat
  /\ faults \in 0..MaxFaults /\ swallowed \in 0..MaxSwallowed /\ restarts \in 0..MaxRestarts
  /\ panicked \in BOOLEAN

\* The entries of the stored blocks.
Stored == UNION {Natives[blocks[n]] \cup Logs[blocks[n]] : n \in DOMAIN blocks}
BlockOf(e) == CHOOSE b \in {blocks[n] : n \in DOMAIN blocks} : e \in Natives[b] \cup Logs[b]

\* Native transfers come before the logs, logs in their order.
Rank(e) == IF e \in Natives[BlockOf(e)] THEN 0 ELSE Data[e].index + 1

\* The statements of one kind that take effect in a single scan of the stored
\* blocks: for every key the one of the first entry that has it.
First(do) ==
  LET workOf(e) == Work(e, BlockOf(e), BlockOf(e))
      wanted == {s \in UNION {{workOf(e)[i] : i \in DOMAIN workOf(e)} : e \in Stored} : s.do = do}
  IN {s \in wanted : \A r \in wanted : r.key = s.key => Rank(s.entry) <= Rank(r.entry)}

\* The keys of a table that belong to stored blocks.
KeysStored(table) == {k \in DOMAIN table : Number[table[k].block] \in DOMAIN blocks}

\* What a table of movements says of the stored blocks is what a single scan says.
MovementsOnce(table, do) ==
  {<<k, table[k].block, table[k].to>> : k \in KeysStored(table)}
    = {<<s.key, s.block, s.to>> : s \in First(do)}

\* Wherever the process dies or an error ends the block, and however often it is
\* scanned again: the deposits, withdraws and events of the stored blocks are those
\* of one uninterrupted scan, none missing, none twice, and none of a block that is
\* not there.  Errors that are only logged lose rows, and the soft-deleted rows of a
\* rollback keep their keys; without those it holds.
AsIfScannedOnce ==
  reorgs = 0 /\ swallowed = 0 =>
    /\ MovementsOnce(deposits, "deposit") /\ MovementsOnce(withdraws, "withdraw")
    /\ {<<k, events[k].entry>> : k \in KeysStored(events)}
         = {<<s.key, s.entry>> : s \in First("event")}

\* The rows of the table at heights that were not mixed are of the stored blocks.
OnBranch(table) ==
  \A k \in DOMAIN table :
    LET b == table[k].block IN
    Number[b] \in DOMAIN blocks \ mixed => b = blocks[Number[b]]

\* The node may switch to another branch between the header, the transactions, the
\* logs and the lookups of one block, whose rows are then of either.  Wherever that
\* did not happen the deposits, withdraws and balance histories of a stored height are
\* those of the stored block, and not of one that a rollback took away; and where it
\* did, no block is stored above before a rollback has taken the rows away, unless the
\* chain came back to the branch of the header (a second change of branch).
\* A returned error, a crash or a nil pointer leaves a block half written, with rows
\* that no stored block answers for; without one it holds.
NoOrphanRows ==
  faults = 0 /\ restarts = 0 /\ ~panicked =>
    /\ OnBranch(deposits) /\ OnBranch(withdraws) /\ OnBranch(history)
    /\ \A n \in mixed \cap DOMAIN blocks : (\E m \in DOMAIN blocks : m > n) => reorgs > 1

\* The address balance is the one the chain has at the height it was asked for, and no
\* younger history row exists: "Update or create the current balance record"
\* (UpdateAddressBalance).  Until the branch changes, whose rollback deletes the
\* history and keeps the balance, it holds whatever statement, query or save of a block
\* fails, as long as the process does not die too: after the save of the start block
\* or GetLastBlock failed, a new process scans older blocks again and puts their
\* balance over the newer one.
BalancesAreOnChain ==
  reorgs = 0 /\ (swallowed = 0 \/ (restarts = 0 /\ ~panicked)) =>
    \A k \in DOMAIN balances :
      LET n == Number[balances[k].block] IN
      /\ balances[k].value = BalanceAt(k[1], k[2], n)
      /\ \A h \in DOMAIN history : <<h[1], h[2]>> = k => Number[history[h].block] <= n
===============================================================================
