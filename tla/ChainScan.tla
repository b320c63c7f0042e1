------------------------------ MODULE ChainScan ------------------------------
(***************************************************************************)
(* The polling listener of one EVM chain (internal/listener/evm) with the  *)
(* block and event tables it writes and the confirmation updater that      *)
(* finalises event rows.                                                   *)
(*                                                                         *)
(* The listen goroutine is cut where another actor can step in between:    *)
(* at every call to the node and at every database transaction.  `phase'   *)
(* is its place in listenWithPolling / processBlock:                       *)
(*                                                                         *)
(*   down     not running (before Start, after a crash or a shutdown)      *)
(*   dead     getStartBlock returned an error, the goroutine has ended     *)
(*   idle     waiting for the ticker                                       *)
(*   header   at the top of processBlock(cursor)                           *)
(*   reorg    in handleReorg, before the rollback notices                  *)
(*   rollback in handleReorg, before RollbackToBlock                       *)
(*   receipts before the block's transactions are fetched                  *)
(*   natives  saving the native transfers in todo                          *)
(*   filter   before FilterLogs                                            *)
(*   logs     saving the logs in todo                                      *)
(*   save     before SaveBlock                                             *)
(*                                                                         *)
(* Two kinds of failure are told apart, because the code treats them       *)
(* differently: a returned error ends the batch and the block is tried     *)
(* again at the next tick; a swallowed one is logged and the scan goes on. *)
(***************************************************************************)
EXTENDS NodeChain, Storage

CONSTANTS
  StartBlock,     \* config start_block: a number, or Latest
  Latest,         \* the setting "latest"
  Confirmations,  \* config confirmations
  MinReorgDepth,  \* the literal 10 of handleReorg
  NoHead,         \* the updater holds no head
  MaxFaults,      \* bound: returned errors
  MaxSwallowed,   \* bound: swallowed errors
  MaxRestarts     \* bound: crashes and shutdowns

ASSUME ConfigAssumption ==
  /\ StartBlock \in 0..MaxHeight \cup {Latest}
  /\ Latest \notin Nat /\ NoHead \notin Nat
  /\ Confirmations \in Nat /\ MinReorgDepth \in Nat \ {0}
  /\ MaxReorgs \in Nat /\ MaxFaults \in Nat
  /\ MaxSwallowed \in Nat /\ MaxRestarts \in Nat

VARIABLES
  blocks,     \* blocks table: height -> block
  events,     \* events table: transaction -> row
  phase, cursor, latest, header, stamp, todo,  \* locals of the listen goroutine
  seenHead,   \* the updater's currentBlock between its RPC call and its UPDATE
  faults, swallowed, restarts                  \* failures used up so far

tables  == <<blocks, events>>
locals  == <<phase, cursor, latest, header, stamp, todo>>
counts  == <<faults, swallowed, restarts>>
vars    == <<chainVars, tables, locals, seenHead, counts>>

Phases == {"down", "dead", "idle", "header", "reorg", "rollback", "receipts",
           "natives", "filter", "logs", "save"}

Fault     == faults < MaxFaults /\ faults' = faults + 1 /\ UNCHANGED <<swallowed, restarts>>
Swallowed == swallowed < MaxSwallowed /\ swallowed' = swallowed + 1 /\ UNCHANGED <<faults, restarts>>
NoFault   == UNCHANGED counts

\* The listener, its updater and the volatile state they lose when the process ends.
Init ==
  /\ ChainInit
  /\ blocks = [n \in {} |-> Genesis]
  /\ events = [t \in {} |-> EventRow(Genesis)]
  /\ phase = "down" /\ cursor = 0 /\ latest = 0
  /\ header = Genesis /\ stamp = Genesis /\ todo = {}
  /\ seenHead = NoHead
  /\ faults = 0 /\ swallowed = 0 /\ restarts = 0

------------------------------------------------------------------------------
(* getStartBlock and the ticker. *)

\* The checkpoint, if there is one above block 0.
HasCheckpoint == \E n \in DOMAIN blocks : n > 0

Begin(n) ==
  /\ phase' = "idle" /\ cursor' = n
  /\ UNCHANGED <<chainVars, tables, latest, header, stamp, todo, seenHead>>

Resume ==
  /\ phase = "down"
  /\ \E n \in DOMAIN blocks : n > 0 /\ IsLastRow(blocks, n) /\ Begin(n + 1)
  /\ NoFault

\* No checkpoint, or the query for it failed: that error is not looked at.
StartAfresh ==
  /\ phase = "down"
  /\ IF HasCheckpoint THEN Swallowed ELSE NoFault
  /\ Begin(IF StartBlock = Latest THEN HeadHeight(canon) ELSE StartBlock)

\* The node does not answer "latest": listenWithPolling reports and returns.
StartFails ==
  /\ phase = "down" /\ ~HasCheckpoint /\ StartBlock = Latest
  /\ Fault
  /\ phase' = "dead"
  /\ UNCHANGED <<chainVars, tables, cursor, latest, header, stamp, todo, seenHead>>

\* A tick at which there is something to scan.
Tick ==
  /\ phase = "idle" /\ cursor <= HeadHeight(canon)
  /\ phase' = "header" /\ latest' = HeadHeight(canon)
  /\ NoFault
  /\ UNCHANGED <<chainVars, tables, cursor, header, stamp, todo, seenHead>>

\* Mutant: the block that failed is not tried again.
AbandonAdvances ==
  /\ phase' = "idle" /\ todo' = {} /\ cursor' = cursor + 1
  /\ UNCHANGED <<chainVars, tables, latest, header, stamp, seenHead>>

\* An error returned by processBlock ends the batch; cursor stays.
Abandon ==
  /\ phase' = "idle" /\ todo' = {}
  /\ UNCHANGED <<chainVars, tables, cursor, latest, header, stamp, seenHead>>

------------------------------------------------------------------------------
(* processBlock: header, detectReorg, handleReorg. *)

\* Mutant: the parent is compared only with a row of the height right below.
ParentMismatchNextOnly(b) ==
  \E n \in DOMAIN blocks : IsLastRow(blocks, n) /\ n + 1 = Number[b] /\ blocks[n] # Parent[b]

\* detectReorg: the last stored hash is not the block's parent hash.
ParentMismatch(b) ==
  \E n \in DOMAIN blocks : IsLastRow(blocks, n) /\ blocks[n] # Parent[b]

ReadHeader ==
  /\ phase = "header" /\ cursor \in DOMAIN canon
  /\ header' = canon[cursor]
  /\ phase' = IF cursor > 0 /\ ParentMismatch(canon[cursor]) THEN "reorg" ELSE "receipts"
  /\ NoFault
  /\ UNCHANGED <<chainVars, tables, cursor, latest, stamp, todo, seenHead>>

\* The height is gone from the chain, or the node or GetLastBlock failed.
ReadHeaderFails ==
  /\ phase = "header"
  /\ (cursor \notin DOMAIN canon /\ NoFault) \/ Fault
  /\ Abandon

Depth == IF Confirmations < MinReorgDepth THEN MinReorgDepth ELSE Confirmations
RollbackTarget(n) == IF n <= Depth THEN 0 ELSE n - Depth

\* GetNotifiedEventsAfterBlock and NotifyRollback; what they tell the outside
\* world is the subject of module EventNotify.
SendRollbackNotices ==
  /\ phase = "reorg"
  /\ phase' = "rollback"
  /\ NoFault
  /\ UNCHANGED <<chainVars, tables, cursor, latest, header, stamp, todo, seenHead>>

\* Mutant: the scan goes on where it was.
RollbackNoRewind ==
  /\ phase = "rollback"
  /\ blocks' = RollbackBlockRows(blocks, RollbackTarget(cursor))
  /\ events' = RollbackEventRows(events, Number, RollbackTarget(cursor))
  /\ phase' = "idle"
  /\ NoFault
  /\ UNCHANGED <<chainVars, cursor, latest, header, stamp, todo, seenHead>>

\* Mutant: the scan goes on before the target instead of behind it.
RollbackBeforeTarget ==
  /\ phase = "rollback"
  /\ blocks' = RollbackBlockRows(blocks, RollbackTarget(cursor))
  /\ events' = RollbackEventRows(events, Number, RollbackTarget(cursor))
  /\ cursor' = RollbackTarget(cursor) - 1
  /\ phase' = "idle"
  /\ NoFault
  /\ UNCHANGED <<chainVars, latest, header, stamp, todo, seenHead>>

\* Mutant: the scan goes on one block too late.
RollbackSkipsOne ==
  /\ phase = "rollback"
  /\ blocks' = RollbackBlockRows(blocks, RollbackTarget(cursor))
  /\ events' = RollbackEventRows(events, Number, RollbackTarget(cursor))
  /\ cursor' = RollbackTarget(cursor) + 2
  /\ phase' = "idle"
  /\ NoFault
  /\ UNCHANGED <<chainVars, latest, header, stamp, todo, seenHead>>

\* Mutant: the rows right above the target stay visible.
RollbackSparesRows ==
  /\ phase = "rollback"
  /\ blocks' = RollbackBlockRows(blocks, RollbackTarget(cursor))
  /\ events' = RollbackEventRows(events, Number, RollbackTarget(cursor) + 1)
  /\ cursor' = RollbackTarget(cursor) + 1
  /\ phase' = "idle"
  /\ NoFault
  /\ UNCHANGED <<chainVars, latest, header, stamp, todo, seenHead>>

\* RollbackToBlock commits, and the polling loop restarts behind its target.
Rollback ==
  /\ phase = "rollback"
  /\ blocks' = RollbackBlockRows(blocks, RollbackTarget(cursor))
  /\ events' = RollbackEventRows(events, Number, RollbackTarget(cursor))
  /\ cursor' = RollbackTarget(cursor) + 1
  /\ phase' = "idle"
  /\ NoFault
  /\ UNCHANGED <<chainVars, latest, header, stamp, todo, seenHead>>

RollbackFails == phase = "rollback" /\ Fault /\ Abandon

------------------------------------------------------------------------------
(* processBlock: native transfers, logs, the block row. *)

\* Go to `busy' with the transactions ts to save, or past it when there are none.
Load(ts, busy, done) ==
  /\ todo' = ts
  /\ phase' = IF ts = {} THEN done ELSE busy

\* The transactions are fetched by height, their rows carry the header's hash.
ReadReceipts ==
  /\ phase = "receipts"
  /\ Load(NativesAt(cursor), "natives", "filter")
  /\ stamp' = header
  /\ NoFault
  /\ UNCHANGED <<chainVars, tables, cursor, latest, header, seenHead>>

\* The block's native transfers are only warned about.
ReadReceiptsFails ==
  /\ phase = "receipts"
  /\ Swallowed
  /\ phase' = "filter"
  /\ UNCHANGED <<chainVars, tables, cursor, latest, header, stamp, todo, seenHead>>

\* One row less to save; the last one moves the goroutine on.
Done(t) ==
  /\ Load(todo \ {t}, phase, IF phase = "natives" THEN "filter" ELSE "save")
  /\ UNCHANGED <<chainVars, blocks, cursor, latest, header, stamp, seenHead>>

SaveNative(t) ==
  /\ phase = "natives" /\ t \in todo
  /\ events' = SaveEventRow(events, t, stamp)
  /\ NoFault
  /\ Done(t)

\* The logs are fetched by height too, and carry the hash the node gives them.
FilterLogs ==
  /\ phase = "filter"
  /\ Load(LogsAt(cursor), "logs", "save")
  /\ stamp' = IF cursor \in DOMAIN canon THEN canon[cursor] ELSE header
  /\ NoFault
  /\ UNCHANGED <<chainVars, tables, cursor, latest, header, seenHead>>

\* Mutant: the error of FilterLogs is only logged.
FilterLogsErrorLogged ==
  /\ phase = "filter" /\ Fault
  /\ phase' = "save"
  /\ UNCHANGED <<chainVars, tables, cursor, latest, header, stamp, todo, seenHead>>

FilterLogsFails == phase = "filter" /\ Fault /\ Abandon

\* processLog fetches the receipt by hash before it saves the row; if it finds
\* none the log is passed over without an error.
SaveLog(t) ==
  /\ phase = "logs" /\ t \in todo
  /\ events' = IF Mined(t) THEN SaveEventRow(events, t, stamp) ELSE events
  /\ NoFault
  /\ Done(t)

\* A log's transaction, its receipt or the header of its block could not be fetched, or
\* the INSERT failed: logged, the row is missing, the scan goes on.
SkipRow(t) ==
  /\ phase \in {"natives", "logs"} /\ t \in todo
  /\ Swallowed
  /\ Done(t)
  /\ UNCHANGED events

Advance ==
  /\ cursor' = cursor + 1
  /\ phase' = IF cursor + 1 <= latest THEN "header" ELSE "idle"
  /\ UNCHANGED <<chainVars, events, latest, header, stamp, todo, seenHead>>

SaveBlock ==
  /\ phase = "save"
  /\ blocks' = SaveBlockRow(blocks, cursor, header)
  /\ NoFault
  /\ Advance

\* processBlock logs the error and still returns nil.
SaveBlockFails == phase = "save" /\ Swallowed /\ UNCHANGED blocks /\ Advance

------------------------------------------------------------------------------
(* The confirmation updater, a goroutine of the manager, and the process. *)

ReadHeadHeight ==
  /\ phase # "down" /\ seenHead = NoHead
  /\ seenHead' = HeadHeight(canon)
  /\ NoFault
  /\ UNCHANGED <<chainVars, tables, locals>>

UpdateConfirmations ==
  /\ seenHead # NoHead
  /\ events' = FinalizeEventRows(events, Number, seenHead, Confirmations)
  /\ seenHead' = NoHead
  /\ NoFault
  /\ UNCHANGED <<chainVars, blocks, locals>>

\* A crash, or a shutdown: the context is cancelled and every call returns.
Stop ==
  /\ phase # "down" /\ restarts < MaxRestarts
  /\ restarts' = restarts + 1 /\ UNCHANGED <<faults, swallowed>>
  /\ phase' = "down" /\ cursor' = 0 /\ latest' = 0
  /\ header' = Genesis /\ stamp' = Genesis /\ todo' = {}
  /\ seenHead' = NoHead
  /\ UNCHANGED <<chainVars, tables>>

\* The steps the goroutine takes when nothing fails.
Progress ==
  \/ Tick \/ ReadHeader \/ SendRollbackNotices \/ Rollback
  \/ ReadReceipts \/ FilterLogs \/ SaveBlock
  \/ \E t \in Tx : SaveNative(t) \/ SaveLog(t)

Failure ==
  \/ StartFails \/ ReadHeaderFails \/ RollbackFails \/ ReadReceiptsFails
  \/ FilterLogsFails \/ SaveBlockFails
  \/ \E t \in Tx : SkipRow(t)

Updater == ReadHeadHeight \/ UpdateConfirmations

Environment == ChainNext /\ UNCHANGED <<tables, locals, seenHead, counts>>

Next ==
  \/ Environment \/ Resume \/ StartAfresh \/ Progress \/ Failure \/ Updater \/ Stop

Spec == Init /\ [][Next]_vars

\* The goroutine keeps running and the process is started again; the node mines
\* up to the bound.  Nothing makes a failure, a reorganisation or a stop happen.
Fairness ==
  /\ WF_vars(Progress)
  /\ WF_vars(Resume \/ StartAfresh)
  /\ WF_vars(Grow /\ UNCHANGED <<tables, locals, seenHead, counts>>)

FairSpec == Spec /\ Fairness

------------------------------------------------------------------------------
(* Properties. *)

\* Every variable has its type: tables are partial functions, locals are in range.
TypeOK ==
  /\ canon \in Chains /\ reorgs \in 0..MaxReorgs
  /\ DOMAIN blocks \subseteq Nat /\ blocks \in [DOMAIN blocks -> Block]
  /\ DOMAIN events \subseteq Tx
  /\ events \in [DOMAIN events -> [block : Block, live : BOOLEAN, final : BOOLEAN]]
  /\ phase \in Phases /\ cursor \in Nat /\ latest \in Nat
  /\ header \in Block /\ stamp \in Block /\ todo \subseteq Tx
  /\ seenHead \in Nat \cup {NoHead}
  /\ faults \in 0..MaxFaults /\ swallowed \in 0..MaxSwallowed
  /\ restarts \in 0..MaxRestarts

\* The stored blocks are one branch of the tree without holes: "block continuity,
\* which is crucial for reliable reorganization detection" (processBlock).  This
\* holds although the node may switch branches between any two calls, SaveBlock
\* may fail unnoticed and a restart may begin at the wrong height.  Row 0 is
\* written without the parent check, so a hole right above it is possible.
Linked ==
  \A n \in DOMAIN blocks :
     /\ Number[blocks[n]] = n
     /\ n > 0 /\ n - 1 \in DOMAIN blocks => blocks[n-1] = Parent[blocks[n]]

Contiguous ==
  \A m, n \in DOMAIN blocks : \A k \in m..n : m > 0 => k \in DOMAIN blocks

BlocksLinked == Linked /\ Contiguous

\* A checkpoint is written after the rows of its block: a crash or a returned
\* error in the middle of processBlock never leaves a stored block behind whose
\* transactions have no row.  Errors that are only logged lose rows, and so does a
\* switch of branches inside processBlock; until then it holds.
CheckpointAfterRows ==
  swallowed = 0 /\ reorgs = 0 =>
    \A n \in DOMAIN blocks :
       \A t \in Natives[blocks[n]] \cup Logs[blocks[n]] :
          t \in DOMAIN events /\ events[t].live /\ events[t].block = blocks[n]

\* Whatever a rollback makes invisible is scanned again: the height of an
\* invisible row is still ahead of the cursor or has been stored anew, with crashes
\* and further reorganisations in between.  (A SaveBlock that fails unnoticed leaves
\* a gap until the next block is looked at.  With a start_block above 0 or "latest" a
\* restart from an empty table may skip the height; the run that checks this has 0.)
RolledBackIsRescanned ==
  phase = "idle" /\ swallowed = 0 =>
    \A t \in DOMAIN events :
       LET n == Number[events[t].block] IN
       ~events[t].live => cursor <= n \/ n \in DOMAIN blocks

\* A row leaves the events table only together with every block row of its height
\* and above: RollbackToBlock is all or nothing.
RollbackIsAtomic ==
  [][\A t \in DOMAIN events :
        events[t].live /\ ~events'[t].live =>
          /\ \A n \in DOMAIN blocks' : n < Number[events[t].block]
          /\ \A u \in DOMAIN events' :
               events'[u].live => Number[events'[u].block] < cursor'
          /\ cursor' <= Number[events[t].block]]_vars

\* However deep the reorganisations were and whatever failed, once the chain is
\* quiet the scanner reaches its head with a table that agrees with it.  Only an
\* error at the very start keeps it from that: the goroutine has ended.
Converges ==
  \/ <>[](/\ cursor > MaxHeight
          /\ \A n \in DOMAIN blocks : blocks[n] = canon[n])
  \/ <>[](phase = "dead")

\* "Save all blocks to ensure blockchain continuity, which is crucial for reliable
\* reorganization detection" (processBlock): a reorganisation is only handled when
\* there was one, or after an error that was only logged (a SaveBlock that fails
\* makes the next block look like one).
ReorgIsReal == phase = "reorg" => reorgs > 0 \/ swallowed > 0

\* When the stored blocks are the canonical ones again, no visible row at their
\* heights is of another branch.  This needs every block to be written in one go:
\* the rows of a block that failed half way are of no stored block, and outlive it.
\* And it needs the node not to come back to a branch: when it leaves one between
\* the header and the logs of a block and returns before the next block is looked at,
\* the block fits again and the rows of the other branch stay.
OrphansAreInvisible ==
  (/\ phase = "idle" /\ faults = 0 /\ restarts = 0 /\ reorgs <= 1
   /\ \A n \in DOMAIN blocks : n \in DOMAIN canon /\ blocks[n] = canon[n]) =>
     \A t \in DOMAIN events :
        LET b == events[t].block IN
        events[t].live /\ Number[b] \in DOMAIN blocks => b = canon[Number[b]]

\* "Save or update event" (SaveEvent): once the scanner has stored the canonical
\* chain up to its head, every transaction of it has a visible row.
CanonicalEventsRecorded ==
  \A n \in DOMAIN blocks \cap DOMAIN canon :
     blocks[n] = canon[n] =>
       \A t \in Natives[blocks[n]] \cup Logs[blocks[n]] :
          t \in DOMAIN events /\ events[t].live

\* The blocks table implements the abstract record of module Checkpoint: it only
\* ever grows by a child of its last row and shrinks from the end.
CheckpointLog == INSTANCE Checkpoint WITH log <- blocks
ImplementsCheckpoint == CheckpointLog!Spec
==============================================================================
