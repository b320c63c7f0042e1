----------------------------- MODULE WebSocketScan -----------------------------
(***************************************************************************)
(* The listener of one EVM chain in WebSocket mode                         *)
(* (listenWithWebSocket): it subscribes once to the logs of its contracts  *)
(* and saves what the node sends.  It reads no blocks, stores no block and *)
(* compares no parent hash: there is no checkpoint to resume from and      *)
(* nothing to roll back.                                                   *)
(*                                                                         *)
(* Places of the goroutine: down (no process), subscribe, wait (in         *)
(* select), look (in processLog, before the transaction of the log in hand *)
(* is fetched), save (before SaveEvent), ended (it has returned; the       *)
(* status goes on saying that the listener runs).                          *)
(*                                                                         *)
(* Logs[b] are here all logs of the configured contracts in block b:       *)
(* processLog does not ask isEventRelatedToMonitoredAddresses, as          *)
(* processBlock does before it calls it.                                   *)
(***************************************************************************)
EXTENDS NodeChain, Storage, Sequences

CONSTANTS
  NoLog,          \* no log is in hand
  MaxSkips,       \* bound: lookups and INSERTs that fail and are only logged
  MaxRestarts     \* bound: crashes and shutdowns

ASSUME WebSocketAssumption ==
  MaxReorgs \in Nat /\ MaxSkips \in Nat /\ MaxRestarts \in Nat /\ NoLog \notin Tx

VARIABLES
  rows,       \* events table: transaction -> row
  place,      \* of the listen goroutine
  feed,       \* what the node has sent and the goroutine not yet taken up: per block
              \* its logs, or the notice that they are gone from the chain
  todo,       \* logs left of the block in hand
  inHand,     \* the log in processLog
  block,      \* the block it is of
  unheard,    \* blocks whose logs the node sent to nobody, or to a lost subscription
  skips, restarts

listener == <<rows, place, feed, todo, inHand, block, unheard, skips, restarts>>

Places == {"down", "subscribe", "wait", "look", "save", "ended"}
Subscribed == place \in {"wait", "look", "save"}

\* A row as SaveEvent inserts it, with the column confirmations.
NewRow(b) == [block |-> b, live |-> TRUE, final |-> FALSE, confirmations |-> 0]

ListenerInit ==
  /\ rows = [t \in {} |-> NewRow(Genesis)]
  /\ place = "down" /\ feed = <<>> /\ todo = {} /\ inHand = NoLog /\ block = Genesis
  /\ unheard = {canon[n] : n \in DOMAIN canon} /\ skips = 0 /\ restarts = 0

------------------------------------------------------------------------------
(* The node: what it sends when its chain changes. *)

\* The height below which two chains agree.
Fork(c, d) == CHOOSE n \in DOMAIN c \cap DOMAIN d :
                /\ c[n] = d[n]
                /\ n + 1 \in DOMAIN c \cap DOMAIN d => c[n + 1] # d[n + 1]

\* The blocks of c above height n, from the lowest on.
Above(c, n, removed) ==
  [i \in 1..(HeadHeight(c) - n) |-> [block |-> c[n + i], removed |-> removed]]

\* First the logs that are gone, then those that are new.
Announced(from, to) ==
  LET n == Fork(from, to) IN Above(from, n, TRUE) \o Above(to, n, FALSE)

New(notices) == {notices[i].block : i \in {j \in DOMAIN notices : ~notices[j].removed}}
Gone(notices) == {notices[i].block : i \in {j \in DOMAIN notices : notices[j].removed}}

NodeMoves ==
  /\ ChainNext
  /\ LET notices == Announced(canon, canon') IN
       IF Subscribed
       THEN /\ feed' = feed \o notices
            /\ unheard' = unheard \ (Gone(notices) \cup New(notices))
       ELSE /\ unheard' = (unheard \ Gone(notices)) \cup New(notices)
            /\ UNCHANGED feed
  /\ UNCHANGED <<rows, place, todo, inHand, block, skips, restarts>>

------------------------------------------------------------------------------
(* The goroutine. *)

Start ==
  /\ place = "down" /\ place' = "subscribe"
  /\ UNCHANGED <<chainVars, rows, feed, todo, inHand, block, unheard, skips, restarts>>

\* Only logs of blocks to come are sent.
Subscribe ==
  /\ place = "subscribe" /\ place' = "wait"
  /\ UNCHANGED <<chainVars, rows, feed, todo, inHand, block, unheard, skips, restarts>>

\* What was sent and not taken up is lost, with the rest of the block in hand.
Unsaved == New(feed) \cup (IF todo # {} \/ inHand # NoLog THEN {block} ELSE {})

Forget ==
  /\ unheard' = unheard \cup Unsaved
  /\ feed' = <<>> /\ todo' = {} /\ inHand' = NoLog /\ block' = Genesis

\* The subscription could not be taken out, or has ended: the goroutine says so on
\* errorChan and returns.  select may prefer the error to a log that is ready.
LoseSubscription ==
  /\ place \in {"subscribe", "wait"} /\ place' = "ended"
  /\ Forget
  /\ UNCHANGED <<chainVars, rows, skips, restarts>>

\* Mutant: a block that is not above the last one is taken for a repetition.
TakeNoticeOnceAHeight ==
  /\ place = "wait" /\ todo = {} /\ feed # <<>>
  /\ todo' = IF Number[Head(feed).block] > Number[block] THEN Logs[Head(feed).block] ELSE {}
  /\ block' = Head(feed).block
  /\ feed' = Tail(feed)
  /\ UNCHANGED <<chainVars, rows, place, inHand, unheard, skips, restarts>>

\* The next block's logs; vLog.Removed is not looked at.
TakeNotice ==
  /\ place = "wait" /\ todo = {} /\ feed # <<>>
  /\ todo' = Logs[Head(feed).block] /\ block' = Head(feed).block
  /\ feed' = Tail(feed)
  /\ UNCHANGED <<chainVars, rows, place, inHand, unheard, skips, restarts>>

TakeLog(t) ==
  /\ place = "wait" /\ t \in todo
  /\ todo' = todo \ {t} /\ inHand' = t /\ place' = "look"
  /\ UNCHANGED <<chainVars, rows, feed, block, unheard, skips, restarts>>

BackToWait == place' = "wait" /\ inHand' = NoLog /\ UNCHANGED <<feed, todo, block, unheard>>

\* TransactionByHash, TransactionReceipt and HeaderByNumber: the log of a
\* transaction that is not on the chain is passed over.
LookUp ==
  /\ place = "look"
  /\ IF Mined(inHand) THEN /\ place' = "save"
                           /\ UNCHANGED <<feed, todo, inHand, block, unheard>>
     ELSE BackToWait
  /\ UNCHANGED <<chainVars, rows, skips, restarts>>

\* SaveEvent: the row of another height keeps the key, as in module Storage.
SaveLog ==
  /\ place = "save"
  /\ rows' = InsertIfAbsent(rows, inHand, NewRow(block))
  /\ BackToWait
  /\ UNCHANGED <<chainVars, skips, restarts>>

\* A lookup or the INSERT fails: logged, the log is passed over.
SkipLog ==
  /\ place \in {"look", "save"}
  /\ skips < MaxSkips /\ skips' = skips + 1
  /\ BackToWait
  /\ UNCHANGED <<chainVars, rows, restarts>>

\* The process ends, and with it the subscription.
Stop ==
  /\ place # "down" /\ restarts < MaxRestarts
  /\ restarts' = restarts + 1 /\ place' = "down"
  /\ Forget
  /\ UNCHANGED <<chainVars, rows, skips>>

Listen == TakeNotice \/ LookUp \/ SaveLog \/ \E t \in Tx : TakeLog(t)
==============================================================================
