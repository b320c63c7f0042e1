# A formal model of ChainScan-Sync

ChainScan-Sync follows EVM chains block by block, writes what concerns a set of
monitored addresses into PostgreSQL, undoes it when the chain reorganises, and
tells webhook endpoints about it. This directory holds TLA+ modules of the parts
that decide what is written and told, TLC configurations that check them on small
instances, and theorems that TLAPS proves for every value of the constants.

    tlc -config ScanSafety.cfg MCChainScan.tla     # a run
    tlapm ChainScan_proofs.tla                     # the proofs of one module

`PROJECT.json` lists the runs, which definition models which lines, the hazards
behind the properties, and the findings. A definition whose comment begins with
"Mutant:" is a plausible bug of the definition next to it; it is not part of any
specification and serves to show that a property notices it.

## 1. The system

Line numbers are those of the files in the repository.

| Part | Where | State it keeps | Operations |
|---|---|---|---|
| Polling loop | `internal/listener/evm/listener_connection.go`, `listener_block.go` | `currentBlock`, `latestBlock`: locals of one goroutine per chain; the `blocks` table is its checkpoint | `getStartBlock`, tick, `processBlock` |
| WebSocket loop | `listener_connection.go` (`listenWithWebSocket`) | a subscription; no checkpoint | take a log, `processLog` |
| Reorganisation handling | `listener_reorg.go`, `database/block_storage.go` | none of its own | `detectReorg` (the last stored hash against the parent hash), `handleReorg` (notices, `RollbackToBlock`) |
| Tables | `internal/database` | `blocks`, `events`, `transactions`, `deposits`, `withdraws`, `balance_histories`, `address_balances` | upserts with conflict targets, soft deletion |
| Event routing and ledger | `listener_event.go`, `listener_native_transfer.go`, `listener_balance.go` | none | which rows an entry of a block causes, and in which order |
| Confirmation updater | `internal/confirmation` | `currentBlock` between RPC and UPDATE | finalises event rows by height |
| Notification loops | `internal/manager/manager.go`, `notify_storage.go` | `notify_status`, `notify_retry_count` of a row | first sending and retry, each a goroutine |
| Webhook notifier | `internal/notifier` | none | `Notify`, `NotifyRollback` |
| RPC failover | `rpc_failover.go` | current endpoint; health, error count and last error of each | report, switch, health check goroutine |
| Monitored addresses | `listener_address.go`, `monitor_storage.go` | Bloom filter, answer cache, pause flag | `isAddressMonitored`, `ReloadMonitorAddresses` |
| API server | `internal/api` | the HTTP server | reload request, shutdown |
| Lifecycle | `manager.go`, `listener.go`, `cmd/relayer/main.go` | contexts, wait groups, `l.mu`, `errorChan` | `Start`, `Stop` |
| Retry helper | `pkg/utils/retry.go` | attempt and interval of one loop | attempts with growing waits |

How they interact: the scanner calls the node several times for one block (header,
receipts, logs, transactions), asks the address part about every address, writes
rows one statement at a time and the block row last. A parent hash that does not
fit makes it send rollback notices, delete everything above a target and go back.
A chain configured with a WebSocket has no scanner: its goroutine saves the logs the
node sends, looks at no parent hash and stores no block. The updater, one goroutine
for all chains, marks rows final by height. The notification loops read final rows,
call the notifier, which asks every endpoint in a retry loop of its own, and write the
outcome back. The API replaces the filter and the cache under the scanner's feet.
`Start` starts the workers, the API and the listeners in this order; `Stop` cancels
one context and waits for all of them.

What is hard, and where it is modelled:

* several calls to a node that may switch branches between any two, several
  statements without a common transaction, crashes between any two: ChainScan, Ledger
* errors that are logged and errors that are returned have different effects: the
  former advance the checkpoint, the latter repeat the block: ChainScan, Ledger
* rows that are deleted softly but keep their unique key: Storage
* two workers and the scanner on the same rows, endpoints that process a request
  whose answer is lost: EventNotify
* a cache, a filter and a flag under three different locks or none: AddressFilter
* logs that arrive while nobody is subscribed, and a head that is another chain's or
  lower than before: WebSocketScan, Confirmations
* requests that time out and are processed all the same, endpoints that fail one by one,
  an amount that passes through two narrower types: Webhook
* a stop that waits with a lock held, a start that fails half way, a reload during either:
  Shutdown
* errors charged to an endpoint that did not cause them, a health check that races
  the switch: Failover

## 2. Modules

| Module | Models |
|---|---|
| `NodeChain` | external: the node. A block stands for its hash; `Parent` and `Number` make a tree, `canon` is the branch the node answers from. `Grow` and `Reorg` |
| `Storage` | the statements on the tables, one operator per database transaction: insert on conflict, `SaveEvent`, `GetLastBlock`, `RollbackToBlock`, the updater's UPDATE |
| `ChainScan` | the listen goroutine with its failures and restarts, the updater, the `blocks` and `events` tables |
| `Checkpoint` | abstract: a hash-linked record of one branch that grows by a child of its last block and shrinks from its end |
| `Ledger` | the deposits, withdraws, balances, transactions and events an entry of a block causes, statement by statement |
| `EventNotify` | both notification loops, the notifier, the rollback notices |
| `AddressFilter` | `isAddressMonitored` against reload requests |
| `WebSocketScan` | the listen goroutine in WebSocket mode and the node's log subscription |
| `Confirmations` | the updater over the rows of a WebSocket chain, with the head of this chain or of another one |
| `Delivery` | abstract: one event, the endpoints it is for, and a call that comes back |
| `Retry` | the loop of `pkg/utils/retry.go` |
| `Webhook` | one `Notify`: the endpoints in turn, their attempts, the answers, the amount sent |
| `Shutdown` | `Manager.Start`, `Manager.Stop`, `EVMListener.Start` and `EVMListener.Stop` against every goroutine |
| `Failover` | endpoint switch and health check |
| `ChainScan_proofs`, `Ledger_proofs`, `EventNotify_proofs`, `AddressFilter_proofs`, `Shutdown_proofs`, `Failover_proofs`, `Webhook_proofs`, `Confirmations_proofs` | theorems on the module of that name |
| `MCTree`, `MC...` | the constants of the runs |

ChainScan composes NodeChain and Storage, and so do Ledger and WebSocketScan; Checkpoint
is the abstract specification ChainScan implements with `log <- blocks`. Confirmations
composes WebSocketScan with the updater. Webhook composes the loop of Retry with the
endpoints and implements Delivery, which is what EventNotify takes one call for: who has
processed the event, and what the call says. EventNotify takes
from the scanner the three things it does to a row (save it, finalise it, roll it
back), AddressFilter the question it asks, Shutdown the places at which it can
block.

### ChainScan

`phase` is the place of the goroutine; the goroutine is cut at every call to the
node and every database transaction, because there another actor can step in.

| Action | Code |
|---|---|
| `Resume`, `StartAfresh`, `StartFails` | `getStartBlock`; the error of `GetLastBlock` falls through to the configured start |
| `Tick`, `Advance`, `Abandon` | the loops of `listenWithPolling`; an error ends the batch and keeps the height |
| `ReadHeader`, `ReadHeaderFails` | `HeaderByNumber` and `detectReorg` |
| `SendRollbackNotices`, `Rollback`, `RollbackFails` | `handleReorg`, and the `reorg:` error that moves the cursor |
| `ReadReceipts`, `SaveNative` | the native transfers; their rows carry the header's hash |
| `FilterLogs`, `SaveLog` | the logs; their rows carry the hash the node gives with them |
| `SkipRow`, `ReadReceiptsFails`, `SaveBlockFails` | the errors that are only logged |
| `ReadHeadHeight`, `UpdateConfirmations` | the updater |
| `Stop` | crash or shutdown: tables stay, locals go |

An event row has a key (its transaction), the block it came from, `live`
(`deleted_at IS NULL`) and `final`. `SaveEventRow` leaves the table alone when the
key is taken: by a visible row, which `FirstOrCreate` finds, or by a soft-deleted
one, on which the INSERT fails.

### Ledger

An element of `Tx` is one entry of a block: a native transfer or one log. `Work(e)`
is the sequence of statements the code runs for it; `Record`, `UpdateBalance`,
`RecordTransaction` and `RecordEvent` run its head, `StatementFails` logs and goes
on the way the handler does, `Panics` is the nil pointer of a contract creation, after which
`panicked` remembers that a block was left half written.
An amount stands for the movement that makes it; a balance of the node is the set of
movements of that address up to a height, so that "the right balance" can be told
from a stale one. "Deposit" and "Withdraw" stand for the ETH events as well.

| Action | Code |
|---|---|
| `Resume`, `StartAfresh` | `getStartBlock`: behind the checkpoint; or at the configured block when there is none, when it is block 0, or when the error of `GetLastBlock` is taken for none |
| `BeginBlock`, `Rollback` | the header and `detectReorg`; `handleReorg` |
| `FetchNatives`, `FetchNativesFails`, `TakeNative` | the transactions of the block, or the logged error; the loop over them |
| `FetchLogs`, `FetchLogsFails`, `TakeLog`, `SkipLog` | `FilterLogs`, whose error ends the block; the loop over the logs, and the logged error of one of the lookups |
| `SaveBlock`, `SaveBlockFails` | the checkpoint, or the logged error; the next block is due in both cases |
| `Crash` | the process ends between any two statements |

The scan is cut more coarsely than in ChainScan: a header is fetched, compared and
answered by a rollback in one step, in which nobody but this goroutine and the database
takes part once the header is there, and the three lookups `processLog` makes for one log
are one. `Environment` lets the branch change at any moment in between, so that the
transactions, the logs and the block a log is looked up in may be of another branch than
the header: a native row names the header, an event row the block its log came with
(`source`), the rows of a handler the block found at the height at that moment. The history
variable `mixed` remembers the heights at which that happened. Whether an address is
monitored does not change here (`AddressFilter` is about that), and the start at `latest`
is ChainScan's.

### EventNotify

`UpdateEventsNotifyStatus` is two statements for `retrying` and `failed` (counter,
then status) and one for `notified`, and each is an action. `Notify` chooses which
endpoints process a request and which of those are heard.

A row may join its transaction at any time: after the others are final, when fewer
confirmations are configured than a block takes to scan or when a rescan finds what was
skipped; and after they were rolled back, since a log that is mined again usually has
another index in its block, and with it another id and another unique key. `SaveEvent` has
therefore no guard but that the very same id was never there. What the two workers rely on
is that the rows of a transaction are of one piece, and nothing in the code says so: the
history variable `disturbed` holds the transactions where it is not the case, those that
got a row after others were final and those that were rolled back while a worker held
their hash. A rollback with no worker at it ends the matter, and `attempts` is counted
anew.

### WebSocketScan and Confirmations

`feed` is what the node has sent and the goroutine not yet taken up: when the branch
changes the node sends the logs that are gone, from the lowest block on, and then the new
ones. `TakeNotice` treats both alike, because `processLog` does not look at
`vLog.Removed`; a log whose transaction is no longer mined is dropped by `LookUp`, one
whose transaction was mined again meets the row that holds its key. `unheard` collects
the blocks whose logs were sent to nobody or were under way when the subscription broke.
`LoseSubscription` is an error of the subscription, after which the goroutine is `ended`
for good while the status says running; `Stop` and `Start` are a restart of the process.

`initializeConfirmationUpdater` takes the node and the confirmations of the first enabled
chain. `first` says whether that is this chain. `ReadHeadHeight` and `UpdateConfirmations`
are cut apart, because the head may move and rows may arrive between the two;
`OtherMoves` lets the other chain's head drop as well.

### Retry and Webhook

| Action | Code |
|---|---|
| `BeginEndpoint` | `sendToEndpointWithRetry` up to the loop: 3 attempts, or 5 with `retry` |
| `TryAgain` | the check of the context, then the request goes out |
| `Skip` | an event name that `sendToEndpoint` does not know: nothing is sent, no error |
| `AnswerOK`, `AnswerError`, `LoseAnswer`, `TimeOut` | 200; another status or no connection; processed but no answer; the client's 30 seconds are over and the request is still under way |
| `ProcessLate` | the endpoint processes such a request, perhaps when the call has come back |
| `WaitOver`, `CancelledEndpoint` | the `select` between two attempts |
| `Return` | the last error, or nil |

`Float` and `ToInt` are what `encoding/json` and `int64(amt)` do to the amount: rounding
to the significand's width, ties to even, and a conversion whose result beyond the range
is the processor's (`saturates`).

### AddressFilter

The scanner reads the filter under `l.mu`, then looks at the cache, asks the filter
it has read, queries the table and stores the answer, each a step. A reload puts up
the flag, waits 100 ms, takes the lock, clears the cache, queries, replaces the
filter and fills it. Nothing makes the batch in progress end within the wait, and the
flag is one bit for all requests; `raced` remembers whether a reload met a scan or
another request.

### Shutdown

A listener's goroutine is reduced to the places at which it can block, see its
context cancelled or want `l.mu`. A call under the context succeeds only while the
context is live. The API request needs no context and can outlive the five seconds
the server waits. `start` is the place of `Manager.Start`; `EVMListener.Start` holds `l.mu`
while it connects (`connect`), and a WebSocket that cannot be dialled makes the listener
poll. `Exit` is a start that fails, or a signal that `main` does not catch yet: the
process is gone without `Stop`.

### Failover

The listener calls the endpoint it is pinned to and reports to the current one.
`ReportError` is cut in three because it releases the lock twice.

## 3. Runs

All passing runs are exhaustive. A run that is expected to be violated documents a
disagreement between the code and what the repository says of it; section 5 has
them.

| Run | Checks | Shows |
|---|---|---|
| ScanSafety | `BlocksLinked` | the stored blocks are one branch without holes |
| | `CheckpointAfterRows` | no stored block misses a row |
| | `RolledBackIsRescanned` | no height is lost behind the cursor |
| | `ReorgIsReal` | a reorganisation is handled only when there was one, or after a swallowed error |
| | `OrphansAreInvisible` | nothing of an abandoned branch stays visible |
| | `RollbackIsAtomic` | a rollback takes all or nothing |
| ScanConverges | `TypeOK`, `Converges` (liveness), `ImplementsCheckpoint` | from a start at `latest` the scanner reaches the head with the right table; refinement of `Checkpoint` |
| LedgerSafety | `TypeOK`, `AsIfScannedOnce` | crashes and errors leave the rows of one scan |
| | `BalancesAreOnChain` | a balance is the chain's, and the newest |
| | `NoOrphanRows` | no row of another branch at a stored height, unless the branch changed while it was written; then a rollback follows |
| NotifyExclusive | `ExclusiveHands`, `NotifiedIsFinal`, `NotifiedWasTried` | the status column alone keeps the workers apart while a transaction is undisturbed |
| | `AttemptsBounded` | a transaction is sent as often as the counter plans |
| | `NotifiedHasDelivery` | notified means delivered, whatever is disturbed |
| NotifySettles | `TypeOK`, `Settles` (liveness) | every final row is decided |
| FilterSafety | `TypeOK`, `StableAddressesAreSeen` | no reload makes a stable address invisible |
| | `AddressesTakeEffect`, `ScanIsResumed` (liveness) | a reload takes effect, and the pause ends |
| LiveSafety | `TypeOK`, `MissedOnlyUnheard` | in WebSocket mode nothing is missed but what was sent to nobody |
| | `FinalIsForGood`, `RowsSettle` (liveness) | final is final; every row gets there if the first chain is far enough |
| WebhookSafety | `TypeOK`, `ImplementsDelivery` (refinement, with liveness) | a call comes back, and says ok only if all addressed endpoints have the event |
| | `AskedUntilAnswered` | no endpoint is given up before its last attempt, or because of another one |
| | `AmountsArrive` | all endpoints are told the same amount, and how far it is from the chain's |
| StopSafety | `TypeOK`, `ClosedAfterUse`, `StopReturnsOrEntangles` (liveness) | nothing is closed under a user; one deadlock, and no other endless wait |
| | `ReloadsAreAnswered` (liveness) | a reload request is answered, also during a start or a stop |
| FailoverSafety | `TypeOK`, `CurrentIsHealthy`, `GivenUpForErrors`, `EndpointsRecover` (liveness) | switch and health check do not disturb each other; nobody is given up for older errors; endpoints come back |
| ScanLostEvents, NotifyInFlight | one property each | section 5 |

Several properties carry a condition on the failures that have happened (`swallowed = 0`,
`reorgs = 0`, `reorgs <= 1`, `faults = 0`, `restarts = 0`, `skips = 0`, `~panicked`) or an
exception (`disturbed`, `mixed`, `raced`, `Entangled`, `unheard`). The conditions are the
results: TLC violates each property without its condition, which names a place
where the code gives the property up. Section 5 says where.

### Bounds, and why they are enough

* **Chain.** Three branches up to height 4: two fork above height 1, the third forks
  from the first one block later. A reorganisation can so be shallower or deeper
  than the rollback depth of 2 (`MinReorgDepth`, 10 in the code, is a constant) and can
  shorten the chain. One transaction is mined on two
  branches at different heights, one on two branches at the same height, one on one
  branch only. `Reorg` stops at the bounded height: after the last block is mined
  nothing would ever show a scanner that the branch had changed, while a real chain
  always mines another block.
* **Failures.** `MaxFaults` returned errors, `MaxSwallowed` logged ones,
  `MaxRestarts` crashes, `MaxReorgs` changes of branch: one of each, in every order and
  at every step. The properties relate one block, or one rollback, to its rows, so one
  failure of each kind meets every state of it; a repetition of the same failure starts
  from a state that the first one has already produced.
* **ScanConverges** has one log on one branch, because it is about blocks, and a start at
  `latest`, where a rollback can go below everything that is stored.
* **Ledger.** A native transfer, a reverted one, a deposit with the transfer it consists
  of, sent by somebody else than the log names, a withdrawal whose native transfer shares
  its event key, two payouts of one batch, a batch payin, an event without a handler and a
  contract creation. Two branches (`MCBranches`), which differ from height 2 on, and a scan
  from there: the deposit is at height 2 of one and at height 3 of the other, so that a
  change of branch in the middle of a block mixes its rows with others or leaves some out.
  One failure of each kind and one change of branch, at every step. What the condition of
  `BalancesAreOnChain` excludes takes two logged errors and a crash, which TLC finds with
  `MaxSwallowed` 2; the theorem is for every bound.
* **Notifications.** NotifyExclusive: one transaction (`PairTx`) of two rows, which may come
  in any order, late, or one after the rollback of the other, `RetryLimit` 5 as in the code,
  with a fault, a restart and a rollback. A batch is taken up some time after it was
  selected, so that one transaction is enough for a stale one. NotifySettles: a second
  transaction whose event no endpoint is told about, so that a worker has more than one
  to do, `RetryLimit` 2, which one retry passes, and no rollback, since a row that is rolled
  back has nothing to settle. One endpoint: with two, an event is accepted by one and not
  by the other, which is one more way to fail and changes no other step.
* **Addresses.** One that stays and one that comes and goes, two reload requests,
  two changes of the table, one failing query.
* **Live.** Two branches of the tree of the other runs, one reorganisation, one log on
  both branches at different heights and two in one block. `Required` is 1, so that a row
  is unconfirmed, counted and final in turn; the other chain grows to 3 and drops once,
  which reaches a row of height 2 from below, and again after it is final. One skipped log
  and one restart. The conditions on heights in `RowsSettle` are those of the bounds.
* **Webhook.** Two endpoints, one with `retry` and one without, with the 5 and 3 attempts
  and the waits of the code. The widths are scaled from 53 and 64 bits to 3 and 6, and
  the amounts lie on both sides of the significand's width, halfway between two floats, at
  the last integer and beyond it.
* **Shutdown.** Two listeners, one of them with a WebSocket, so that one can be stopped or
  started while the other is reloaded, a `processErrors` for each, and one more worker. No
  counter is bounded: the state space is finite.
* **Failover.** Three endpoints and the threshold of three errors, as in the code.

`CHECK_DEADLOCK FALSE` is set where the system may stop: the scanner of Ledger at the
bounded head, the workers of EventNotify with nothing to send, a call that has come back,
and a stopped process.

### Fairness

* ChainScan: weak fairness of the goroutine's successful steps taken together (a Go
  scheduler and a ticker), of the start (a supervisor restarts the process) and of
  mining. Failures and reorganisations are bounded and never forced.
* EventNotify: weak fairness of each worker; each has its own ticker.
* AddressFilter: a handler that has begun runs on. Its lock is strongly fair because
  Go's `RWMutex` does not starve a writer.
* Confirmations: the updater's ticker, the start of the process, and the growth of the
  chains up to their bounds. Nothing makes the goroutine take up what it was sent: the
  properties do not need it.
* Webhook: weak fairness of the call's own steps; a request ends because the client has a
  timeout, a wait because it is a timer. No endpoint is required ever to answer.
* Shutdown: weak fairness of every goroutine, and of `Manager.Start` (a dial ends), but not
  of a log that arrives at a subscription. Weak fairness of the updater takes for granted that
  its `eth_blockNumber` comes back: it is called under `context.Background` without a
  timeout (`checker.go:25`, `:111`), so that a node that keeps the connection open and
  never answers would hold up a stop for good. Strong fairness of the choice of
  `ctx.Done` in a `select` (Go chooses at random among ready cases), of the end of a
  block's finite lists, and of the writer's lock.
* Failover: the health check's ticker, and the passing of `recoveryTime`. An endpoint
  recovers only if its node stays up from some point on.

## 4. Proofs

| Module | Theorem | States |
|---|---|---|
| `ChainScan_proofs` | `TypeCorrect` | `Spec => []TypeOK` |
| | `BlocksAlwaysLinked` | `Spec => []BlocksLinked` |
| | `RollbacksAreAtomic` | `Spec => RollbackIsAtomic` |
| | `ChainScanImplementsCheckpoint` | `Spec => ImplementsCheckpoint` |
| | `CheckpointsAreComplete` | `Spec => []CheckpointAfterRows` |
| | `ReorgsAreReal` | `Spec => []ReorgIsReal` |
| | `RolledBackHeightsAreRescanned` | `StartBlock = 0` gives `Spec => []RolledBackIsRescanned` |
| | `OrphansStayInvisible` | `Spec => []OrphansAreInvisible` |
| `Ledger_proofs` | `TypeCorrect` | `Spec => []TypeOK` |
| | `RowsFollowTheBranch` | `Spec => []NoOrphanRows` |
| | `BalancesFollowTheChain` | `Spec => []BalancesAreOnChain` |
| | `ScansAmountToOne` | `Spec => []AsIfScannedOnce` |
| `EventNotify_proofs` | `TypeCorrect` | `Spec => []TypeOK` |
| | `NotifiedIsBacked` | `Spec => []NotifiedHasDelivery` |
| | `HandsAreExclusive` | `Spec => []ExclusiveHands` |
| | `NotifiedForGood` | `Spec => NotifiedIsFinal` |
| | `NotifiedWereTried` | `Spec => []NotifiedWasTried` |
| | `AttemptsAreBounded` | `Spec => []AttemptsBounded` |
| `AddressFilter_proofs` | `TypeCorrect` | `Spec => []TypeOK` |
| | `StableAlwaysSeen` | `Spec => []StableAddressesAreSeen` |
| | `ReloadsTakeEffect` | `Spec => []AddressesTakeEffect` |
| `Shutdown_proofs` | `TypeCorrect` | `Spec => []TypeOK` |
| | `NothingClosedInUse` | `Spec => []ClosedAfterUse` |
| `Failover_proofs` | `TypeCorrect` | `Spec => []TypeOK` |
| | `CurrentAlwaysHealthy` | `Spec => []CurrentIsHealthy` |
| | `SwitchesAreEarned` | `Spec => GivenUpForErrors` |
| `Webhook_proofs` | `TypeCorrect` | `Spec => []TypeOK` |
| | `CallDelivers` | `Spec => Promise!Init /\ [][Promise!Next]_(Promise!vars)` |
| | `AlwaysAskedUntilAnswered` | `Spec => []AskedUntilAnswered` |
| | `AmountsAlwaysArrive` | `Spec => []AmountsArrive` |
| `Confirmations_proofs` | `TypeCorrect` | `Spec => []TypeOK` |
| | `FinalStaysForGood` | `Spec => FinalIsForGood` |
| | `OnlyUnheardIsMissed` | `Spec => []MissedOnlyUnheard` |

Every safety property that a passing run checks is one of them; what is left to TLC is
liveness. They hold for every value of the constants that satisfies the assumptions the modules
name: any block tree, any configuration, any number of addresses, requests, listeners,
workers and endpoints, any list of endpoints to notify, any entries of the blocks, any
widths of the number types, any retry limit, and any bound.

### ChainScan

The assumptions: blocks form a tree in which a child is one higher than its parent
(`BlockAssumption`), the node answers from one branch at a time (`ChainAssumption`),
a chain executes a transaction once (`MinedOnceAssumption`), and the configuration has its
types (`ConfigAssumption`). They say what a hash commits to and what one RPC answer can be;
nothing is assumed of when the branch changes.

`BlocksLinked` is not inductive: between `ReadHeader`, which compares the parent, and
`SaveBlock`, which writes, any number of steps may happen, and the invariant must
remember the comparison. The invariant is

    IInv == TypeOK /\ LinkedTable(blocks) /\ HeaderFits

`LinkedTable` says that the table is a contiguous piece of one branch (with row 0, which
is written unchecked, allowed apart from it). `HeaderFits` says that in the phases
after the comparison the header in hand is at the cursor's height and is a child of the
last row. It is kept because only this goroutine writes the table. `ExtendLinked` and
`RollbackKeepsLinked` are the two ways the table changes; a save is the first one, or
no change when the height is already there. The refinement uses the same invariant:
`SaveBlock` maps to `Append` or `StoreRoot`, `Rollback` to `Truncate`, the rest stutters.

The events table needs three more invariants, one per condition under which it is right.

* `QuietInv`, while the node stays on its branch and no error is only logged:
  `BlockInHand` says which rows of the block in hand are there in which phase, and that
  they carry its hash; `CursorFollows` that the cursor is right behind the last row;
  `CanonicalBlocks` and `CanonicalRows` that both tables are of the branch.
  `CheckpointAfterRows` is one of its parts; `ReorgIsReal` follows because the parent check
  then always succeeds.
* `CoveredInv`, from a start at 0 and until an error is only logged: below the cursor, and
  below any stored block, every height is stored. So whatever a rollback made invisible is
  ahead of the cursor or stored anew.
* `OneSwitchInv`, while nothing fails and the branch changes at most once: a visible row is
  of the block stored at its height or, since the change, of the new branch (`RowFits`);
  the same of the block in hand and of the hash its rows get (`StampFits`). That a row of
  the height at the cursor exists only while the block is being scanned is what a failure
  would break.

### Ledger

The assumptions on the entries (`LedgerAssumption`, `EntryAssumption`) are those of the
data: there is one native transfer per transaction, the log index is unique in its block,
and a transaction with all its entries is in one block of a chain. `IInv` adds to the types
that the header in hand is of the cursor's height and still on the chain, unless that height
is `mixed` (`PlaceOK`), and that the statements of an entry are of that height and end with
its event, its transaction or the panic (`WorkOK`), which is what `StatementFails` needs to
find a statement behind the one it leaves out.

* `NoOrphanRows`: `InPlace` says of each table that a row is at the height in hand or below
  it, and where the branch was not replaced while the height was written it is of the
  header or of the stored block (`AllInPlace`). A rollback deletes rows and blocks down to
  the same height. For the other heights `MixedInv` follows one change of branch: the
  header that was replaced is on no chain the node can still grow into (`OffChain`), the row
  that is stored for it is the last one, and so the next header has another parent and is
  answered by a rollback (`MixedBegin`).
* `BalancesAreOnChain`: without a change of branch the stored blocks are the chain's
  (`OnChain`), and a chain that only grows goes on giving the same answer for a height
  (`GrowFacts`). That no younger history row exists has two reasons, one for each half of
  the condition. A process that does not die has written no history above the height where
  it stands (`AliveInv`), also after the rollback that follows upon a block whose save
  failed. And when nothing is swallowed, the stored blocks are all those from the first one
  to the height in hand (`ScannedTo`), so that nothing is rolled back (`NoMismatch`) and a
  new process goes on where the old one stood.
* `AsIfScannedOnce`: every row comes from a statement of an entry of its block, and from the
  first one with its key (`Origin`), whichever of the scans that were cut short wrote
  it; whatever the scan in progress has taken up of its block is in the tables or still
  ahead (`Covered`), so that a block is stored with all its rows (`Complete`). The first
  half is the hard one. When a statement writes a new row, no earlier entry can have had
  its key, or the row would be there: the entries of lower rank have been taken up
  (`EntryInHand`, `TodoInBlock`), in this scan, whatever earlier ones did
  (`NewRowIsFirst`). `OnceForAll` then takes the rows of the stored blocks to `First` and
  back; two entries with one key have one transaction, so one block, and different ranks
  (`EntryFacts`).

### EventNotify

`NotifiedHasDelivery` holds of every table: `SuccessIsDelivery` says that the local
`success` is never left over from another transaction, `DoneIsSuccess` that the outcome is
written on it only.

The others speak of undisturbed transactions. `TableInv` says that the visible rows of one
such transaction agree in everything and that nothing is done before they are final;
`HandsInv` that what a worker holds of them is final and has the status it was chosen for,
or one the worker itself has set (`HeldIsClaimed`). The statuses of the two workers are
disjoint, so their transactions are (`ExclusiveHands`), and neither chooses a notified one
(`NotifiedIsFinal`). `SentWasTried` follows the events a worker has yet to send from the
query to the outcome. `DisturbedSteps` says which steps change `disturbed`, and
`HeldStaysDisturbed` that a transaction does not leave it while a worker holds its hash.

For `AttemptsBounded` each row has an account (`AccountOf`): attempts made against retries
counted, exact at each place of either worker, up to what `Lost` failures and restarts may
have kept from the table. Before the first outcome every attempt but the one under way was
lost; afterwards there is one attempt for two counts. A query for retries below the limit
then bounds the attempts, and a status `failed` that is past the limit bounds them from
below.

### AddressFilter

A check reads five things at five moments, so `StableAddressesAreSeen` says nothing
about most of the places a wrong answer may come from. The invariant follows a stable
address (one that is in the account table throughout) through all of them: the table,
the rows a reload has read of it, the filter, the filter a check has in hand, the
cache, and the result of its query. The one exception is a filter that is being filled
(`FilterHasStable`), and there the lock matters: `LockIsHeld` says that the request that
fills it holds `l.mu`, and a check that takes the filter finds the lock free. Nothing is
needed of the pause flag, which is why the property survives overlapping reloads and
`AddressesTakeEffect` does not.

`EffectInv` is for `AddressesTakeEffect`, and only until a reload meets a scan or another
request: then nobody else works while a request holds the lock, the cache it cleared stays
empty until it has read the table and filled the filter (`ScanStandsStill`), and from then
on, until the table changes again, the cache, the answer in hand and the filter agree with
the table (`AnswersAreCurrent`, `FilterIsCurrent`). Assumed: `Stable` is a set of addresses, and the markers
`NoOne` and `NoAddress` are neither requests nor addresses.

### Shutdown

`Accounted` says that a listener whose error channel is closed is neither waiting to be
stopped nor being stopped, `InHand` that `Manager.Stop` has nobody left when it goes on
to the workers, and `ClosedHasEnded` that a channel is closed only behind its goroutine,
which never runs again (`ScanStep`: no step leaves the end). `ClosedLast` is the same for
the database and the workers. Without `Accounted` and `InHand` the database could be
closed with a listener forgotten. `Starting` says that nothing is stopped or closed before
`Manager.Start` has returned; without it, a listener that is started behind the back of
`Stop` would run on over a closed database. Assumed: `NoListener` is not a listener, and a
listener's goroutine is not one of the workers.

### Failover

Only the current endpoint has a count (`OthersAreClean`): the others were given up, or
came back with none. A report is about the current endpoint until it is over
(`ReportIsCurrent`), because nobody but the listener switches, although `ReportError`
releases the lock in between; the count reaches the threshold only on the way to a
switch (`CountBelowThreshold`); and it is that of the errors reported since the endpoint was
taken or last succeeded (`CountIsStreak`), because whoever is taken comes without one and
the health check looks at given up endpoints only. That is what `SwitchesAreEarned` needs.
`AheadIsAnother` is the arithmetic of the round robin. Assumed: there is an endpoint, and the threshold is positive.

### Webhook

`ImplementsDelivery` is a refinement and a liveness property. `CallDelivers` is its safety
part: initial states and steps. That `Return` says ok only when all have the event needs
`ThroughHaveIt` (as long as there was no error, whoever the call is through with has it),
which needs `LoopHasEndpoint` (an answer is always for the endpoint at `position`) and, for
the late answers, that only addressed endpoints have requests under way (`Typed`).

`AskedUntilAnswered` speaks of the endpoints behind `position`; the invariant has to follow
the current one there. `Progressed` relates attempt, interval, requests and time waited:
the interval after the n-th attempt and the sum of the waits before it are the n-th entries
of two short tables, so that the last attempt (`Exhausted`) leaves exactly `Patience(e)`.
`NotYetAsked` says that the endpoints ahead are untouched, for which `Order` must not
repeat one: that is the assumption on the constants, together with its being a list of
all endpoints.

`ToldInv` is all that `AmountsArrive` needs of the behaviour: whoever has processed the
event was told `AmountSent`. The rest is arithmetic. `TwoTo` is a recursive function, and its
laws are proved without the induction theorems, of the least number for which they would be
false (`LeastElement`): first that there is such a function (`DoublesExist`,
`DoublesAgree`), then its laws (`TwoToFacts`, `TwoToGrows`, `TwoToOrder`). An amount lies
between two powers (`DigitsFacts`), the unit of its float is so small that half of one
times 2^53 is at most the amount, and rounding costs half a unit (`RoundFacts`,
`FloatFacts`); `SentFacts` adds the conversion. Assumed: the integer is wider by more than
one digit than the significand (64 and 53).

### Confirmations

`FinalIsForGood` needs no invariant. The table is written by two actions: `SaveLog` leaves
every row that is there alone (`SavingSparesRows`), and the WHERE clause leaves out final
rows (`CountingSparesFinal`).

`MissedOnlyUnheard` is inductive on top of the types and of `HandOK` (a log is in hand
exactly while it is looked up or saved). Its step for a change of branch is about
sequences: two chains agree up to the height where they part (`ForkFacts`, which takes the
least height at which they differ), and the notices name the blocks above it and no other
(`ConcatNotices`, `AboveFacts`, `AnnouncedFacts`). What is then forgotten was in the feed or
in hand when the subscription broke, and is put in `unheard` by the same step. Assumed
of the constants: the bounds are numbers, and `NoLog` is no log.

### Only model-checked

Liveness: `Converges`, `Settles`, `ScanIsResumed`, `RowsSettle`, `StopReturnsOrEntangles`,
`ReloadsAreAnswered`, `EndpointsRecover`, and the fairness of `ImplementsDelivery`. The
provers have no rule for `ENABLED`, and so none for fairness.

The theorem under a hypothesis (`StartBlock = 0`) is checked by the run with that constant;
what happens without it is in section 5. A property's own condition
on failures is part of the theorem as well.

## 5. Where the code and what is said of it disagree

Two are runs whose one property TLC violates; the quotes are in `PROJECT.json`.

| Run | What happens |
|---|---|
| ScanLostEvents | an event mined on both branches stays soft-deleted: `SaveEvent` does not see the row, and the unique index does |
| NotifyInFlight | a delivery whose status is not yet written when a rollback begins is never revoked |

The others are the conditions of the properties, or visible in a definition:

* `ReorgIsReal`, `swallowed > 0`: `processBlock` only logs an error of `SaveBlock`
  (`listener_block.go:166`), and the hole it leaves makes the next parent hash not fit.
* `RolledBackIsRescanned`, a start at 0: with `start_block: latest`, or a number above 0,
  a rollback to an empty table and a restart before the next block is stored skip heights
  (`getStartBlock`, `listener_connection.go:224`).
* `OrphansAreInvisible`, `NoOrphanRows`, no faults, no restarts and no panic: rows of a block
  that was left half way belong to no stored block, and outlive a change of branch.
* `NoOrphanRows`, `mixed`: the node may switch between the header and the logs of a block,
  whose rows are then of another branch than the stored hash (`listener_block.go:27`, `:68`),
  until the next block makes a rollback take them away; a chain that switches back in the
  meantime leaves them for good.
* `OrphansAreInvisible`, `reorgs <= 1`: when the node leaves a branch between the header and
  the logs of a block and is back before the next block is looked at, the parent hash fits
  (`listener_reorg.go:34`) and the rows of the other branch stay.
* `CheckpointAfterRows`, `AsIfScannedOnce`, no swallowed errors and no reorganisation:
  a row that could not be saved is only logged (`listener_block.go:93`), the calls for one
  block may be answered from two branches, and a soft-deleted row keeps its key.
  `SaveTransaction` has the same trait (`transaction_storage.go:14`).
* `BalancesAreOnChain`, `reorgs = 0`: `RollbackToBlock` deletes histories and keeps
  `address_balances` (`block_storage.go:146`).
* `BalancesAreOnChain`, no swallowed error together with a death of the process: when the
  block row of the first block cannot be saved (`listener_block.go:166`), or the query for the
  last block fails at the start (`listener_connection.go:227`), a new process scans older
  blocks once more, and puts their balance over the newer one.
* `Spelled`: a native transfer and a log spell one address differently
  (`listener_native_transfer.go:276`), so that it has two balances.
* `NativeWork` does not look at the receipt's status (`listener_native_transfer.go:295`);
  its event takes the key of log 0 of the transaction (`:318`).
* `Panics`: `tx.To()` of a contract creation is nil (`listener_event.go:205`); the block
  is met again after every restart.
* `AttemptsBounded`: the counter goes up twice per retry, so that "Retry up to 5 times"
  (`notify_storage.go:75`) are two.
* `Settles`, no faults and no restarts: a transaction left `retrying` is in no query.
* `ExclusiveHands`, `NotifiedIsFinal`, `AttemptsBounded`, `NotifiedWasTried`, `disturbed`: the
  queries select a transaction by one of its rows and the outcome is written to all of them
  by hash (`notify_storage.go:60`). A row that joins the others late, or is mined again under
  the hands of a worker, is pending while they are failed or retrying: both workers then
  take the transaction, one writes `failed` over the other's `notified`, it is sent more
  often than planned, and the new row is marked without having been sent.
* `AddressesTakeEffect`, `~raced`: a check that outlasts the wait writes into the new
  cache (`listener_address.go:183`), and the reload that ends first lifts the pause of the
  other (`:111`).
* `Pinned`: the clients of the listener are those of the first endpoint for good, though
  `listener.go:34` says they point to the current one. Every error is therefore one of the
  first endpoint, and another one is given up for errors it has not made;
  `GivenUpForErrors` counts what was reported while it was current. The check that a switch triggers
  passes over the endpoint it is for, whose error is younger than `recoveryTime`
  (`Suspect`).
* `Entangled`: `EVMListener.Stop`, which "stops the listener" (`listener.go:186`), waits at
  `:199` with `l.mu` locked for a goroutine that may be about to take it in
  `isAddressMonitored` or `updateStatus`. Both then wait for ever, and a reload request with
  them. `StopReturnsOrEntangles` says that this is the only way a stop does not return.
* `AsIfScannedOnce` compares with one scan of the code, not with the chain: two payouts of
  a batch share the conflict target of `SaveWithdraw` (`deposit_withdraw_storage.go:20`), and
  the second leaves no record, although `listener_event.go:786` says "Only record payouts
  for monitored addresses".
* `MissedOnlyUnheard`, `unheard`: after a lost subscription or a restart a WebSocket
  listener does not ask for what it has missed, and nothing subscribes again while the
  status goes on saying running. Notices of removed logs are taken for logs
  (`listener_connection.go:88`), so that a row keeps the block it was first seen in.
* A WebSocket listener also records events that concern no monitored address: only
  `processBlock` asks for that (`listener_block.go:115`).
* `RowsSettle`, `FirstChainEnds`: the rows of every chain become final by the height and the
  confirmations of the first enabled one (`updater.go:84`, `manager.go:191`).
* `AmountsArrive`: an amount above 2^53 is rounded, and one of 2^63 or more, which is
  about 9.2 ETH in wei, arrives as the largest or the smallest 64-bit number
  (`webhook_notifier.go:176`).
* `Begin`: a configuration with `max_attempts: 0`, which is valid (`config.go:335`), never
  dials the WebSocket; the listener polls.
* `Exit`: a start that fails ends the process without `Stop` (`main.go:51`).
* `Converges`, `phase = "dead"`: an error of the very first call ends the goroutine.

## 6. Not modelled

Configuration (its results are the assumptions on the constants), calldata parsing
(pure decoding), explorer queries (read only, not called), the two registered handlers
and `BatchNotify` (never called), the separate withdraw and deposit notification
functions of the manager (never started), the unused methods of the checker, and
logging. Gas, decimals and formats are abstracted; an amount is a number only in Webhook.
`RetryWithResult`, which dials the WebSocket, is one step of Shutdown: with nothing but the
dial inside, its attempts change nothing anybody sees.

## 7. Plan

The safety of every component is proved. What could be added:

1. Lower bounds on what happens, as far as they are safety: what a worker of EventNotify
   leaves behind when it goes to sleep, what a stop has stopped when it returns.
2. Abstract specifications for EventNotify (an outbox: a row is pending, then decided) and for
   Failover, shown to be implemented step by step, as Checkpoint and Delivery are.
3. Lemmas on the statements of `Storage` shared by ChainScan and Ledger, in place of those
   each of the two has of its own.
