------------------------------ MODULE EventNotify ------------------------------
(***************************************************************************)
(* The delivery of event notifications (internal/manager, the webhook      *)
(* notifier and the notify_status column of the events table).             *)
(*                                                                         *)
(* Two goroutines of the manager work on transactions: `pending' sends the *)
(* first time (processEventNotifications), `retry' sends what failed       *)
(* (processFailedNotifications).  Each takes a batch of transaction hashes *)
(* from the table and then, transaction by transaction, reads its rows,    *)
(* sends them and writes the outcome back to every row of the transaction. *)
(* They are cut at each database statement and each Notify call, since the *)
(* other worker, the listener and the updater run in between:              *)
(*                                                                         *)
(*   sleep      waiting for the ticker                                     *)
(*   next       between two transactions of the batch                      *)
(*   bumpRetry, markRetry  the two statements that set `retrying'          *)
(*   read       before GetEventsByTxHash                                   *)
(*   send       sending the events in unsent                               *)
(*   bumpFail, markFail    the two statements that set `failed'            *)
(*   markDone   the statement that sets `notified'                         *)
(*                                                                         *)
(* The listener's part (SaveEvent, handleReorg) and the updater's          *)
(* (is_finalized) are here as the actions on the rows that they take.      *)
(***************************************************************************)
EXTENDS Naturals, FiniteSets

CONSTANTS
  Tx, Event,     \* transactions and their event rows
  NoTx,          \* a worker with no transaction in hand
  TxOf,          \* TxOf[e] is e's transaction
  Endpoint,      \* webhook endpoints of the configuration
  Silent,        \* events whose name sendToEndpoint does not know: nothing is sent
  RetryLimit,    \* the literal 5 of GetFailedNotifyTxHashes
  MaxFaults,     \* bound: failed database statements
  MaxRestarts,   \* bound: crashes and shutdowns
  MaxRollbacks   \* bound: rolled back transactions

ASSUME NotifyAssumption ==
  /\ NoTx \notin Tx /\ TxOf \in [Event -> Tx] /\ Silent \subseteq Event
  /\ Endpoint # {}
  /\ RetryLimit \in Nat /\ MaxFaults \in Nat
  /\ MaxRestarts \in Nat /\ MaxRollbacks \in Nat

VARIABLES
  rows,       \* events table: event -> row
  phase, batch, current, unsent, success,     \* locals of the two workers
  rolling,    \* transactions whose rollback notices are out, rows not yet deleted
  accepted,   \* <<endpoint, event>>: requests an endpoint has processed
  revoked,    \* <<endpoint, event>>: rollback notices an endpoint has processed
  attempts,   \* attempts[t]: how often the rows t has now were sent
  tried,      \* events Notify was called for
  disturbed,  \* history: transactions whose rows a worker may take for other rows
  faults, restarts, rollbacks

vars == <<rows, phase, batch, current, unsent, success, rolling, accepted, revoked,
          attempts, tried, disturbed, faults, restarts, rollbacks>>
work == <<phase, batch, current, unsent, success>>
world == <<accepted, revoked, attempts, tried>>
scan == <<rolling, rollbacks, disturbed>>

Worker == {"pending", "retry"}
Phases == {"sleep", "next", "bumpRetry", "markRetry", "read", "send",
           "bumpFail", "markFail", "markDone"}
Status == {"pending", "notified", "failed", "retrying"}
Row == [status : Status, retries : Nat, final : BOOLEAN, live : BOOLEAN]

EventsOf(t) == {e \in Event : TxOf[e] = t}
\* gorm leaves soft-deleted rows out of every query and update.
Visible == {e \in DOMAIN rows : rows[e].live}
RowsOf(t) == {e \in Visible : TxOf[e] = t}
\* The transactions of w's batch and the one it works on.
Hands(w) == batch[w] \cup ({current[w]} \ {NoTx})

Init ==
  /\ rows = [e \in {} |-> [status |-> "pending", retries |-> 0, final |-> FALSE, live |-> TRUE]]
  /\ phase = [w \in Worker |-> "sleep"]
  /\ batch = [w \in Worker |-> {}]
  /\ current = [w \in Worker |-> NoTx]
  /\ unsent = [w \in Worker |-> {}]
  /\ success = [w \in Worker |-> FALSE]
  /\ rolling = {} /\ accepted = {} /\ revoked = {}
  /\ attempts = [t \in Tx |-> 0] /\ tried = {} /\ disturbed = {}
  /\ faults = 0 /\ restarts = 0 /\ rollbacks = 0

Fault == faults < MaxFaults /\ faults' = faults + 1
NoFault == UNCHANGED faults

------------------------------------------------------------------------------
(* The listener and the updater. *)

\* SaveEvent of a row that was never there: FirstOrCreate looks for the id, and a
\* soft-deleted row still holds its keys.  Rows may join a transaction at any time:
\* a log that is mined again has another log index, hence another id, and becomes a
\* fresh row; a rescan may add one to rows that are already final.
SaveEvent(e) ==
  /\ e \notin DOMAIN rows
  /\ rows' = [f \in DOMAIN rows \cup {e} |->
                IF f = e THEN [status |-> "pending", retries |-> 0,
                               final |-> FALSE, live |-> TRUE]
                ELSE rows[f]]
  /\ disturbed' = disturbed \cup {t \in {TxOf[e]} : \E f \in RowsOf(t) : rows[f].final}
  /\ NoFault
  /\ UNCHANGED <<work, rolling, rollbacks, world, restarts>>

\* updateEventConfirmations once t's block is deep enough.
Finalize(t) ==
  /\ \E e \in RowsOf(t) : ~rows[e].final
  /\ rows' = [e \in DOMAIN rows |->
                IF e \in RowsOf(t) THEN [rows[e] EXCEPT !.final = TRUE] ELSE rows[e]]
  /\ NoFault
  /\ UNCHANGED <<work, scan, world, restarts>>

\* handleReorg before the deletion: GetNotifiedEventsAfterBlock and one rollback
\* notice per endpoint; a notice that gets lost is only logged.
SendRollbackNotices(t) ==
  /\ RowsOf(t) # {} /\ t \notin rolling /\ rollbacks < MaxRollbacks
  /\ rollbacks' = rollbacks + 1
  /\ rolling' = rolling \cup {t}
  /\ \E reached \in SUBSET Endpoint :
       /\ IF reached = Endpoint THEN NoFault ELSE Fault
       /\ revoked' = revoked \cup (reached \X {e \in RowsOf(t) : rows[e].status = "notified"})
  /\ UNCHANGED <<rows, work, accepted, attempts, tried, disturbed, restarts>>

\* RollbackToBlock deletes the rows softly.  What comes after is counted anew; a
\* worker that holds t goes on with it, whatever rows it has by then.
RollbackRows(t) ==
  /\ t \in rolling
  /\ rolling' = rolling \ {t}
  /\ rows' = [e \in DOMAIN rows |->
                IF TxOf[e] = t THEN [rows[e] EXCEPT !.live = FALSE] ELSE rows[e]]
  /\ attempts' = [attempts EXCEPT ![t] = 0]
  /\ disturbed' = (disturbed \ {t}) \cup {u \in {t} : \E w \in Worker : u \in Hands(w)}
  /\ NoFault
  /\ UNCHANGED <<work, accepted, revoked, tried, rollbacks, restarts>>

\* RollbackToBlock fails; the block is tried again later, notices included.
RollbackFails(t) ==
  /\ t \in rolling /\ Fault
  /\ rolling' = rolling \ {t}
  /\ UNCHANGED <<rows, work, world, rollbacks, disturbed, restarts>>

------------------------------------------------------------------------------
(* The workers. *)

\* Take worker w's place: phase p, the other locals as before.
Go(w, p) == phase' = [phase EXCEPT ![w] = p]
At(w, p) == phase[w] = p

\* Mutant: the retry worker also takes what is pending.
WantedAlsoPending(w, e) ==
  /\ rows[e].final
  /\ \/ rows[e].status = "pending"
     \/ w = "retry" /\ rows[e].status = "failed" /\ rows[e].retries < RetryLimit

\* Mutant: the limit is off by one.
WantedOneLess(w, e) ==
  /\ rows[e].final
  /\ IF w = "pending" THEN rows[e].status = "pending"
     ELSE rows[e].status = "failed" /\ rows[e].retries + 1 < RetryLimit

\* Mutant: the retry worker takes whatever is not pending.
WantedNotPending(w, e) ==
  /\ rows[e].final
  /\ IF w = "pending" THEN rows[e].status = "pending"
     ELSE rows[e].status # "pending" /\ rows[e].retries < RetryLimit

\* GetPendingNotifyTxHashes and GetFailedNotifyTxHashes.
Wanted(w, e) ==
  /\ rows[e].final
  /\ IF w = "pending" THEN rows[e].status = "pending"
     ELSE rows[e].status = "failed" /\ rows[e].retries < RetryLimit

Select(w) ==
  /\ At(w, "sleep")
  /\ \E e \in Visible : Wanted(w, e)
  /\ batch' = [batch EXCEPT ![w] = {TxOf[e] : e \in {f \in Visible : Wanted(w, f)}}]
  /\ Go(w, "next")
  /\ NoFault
  /\ UNCHANGED <<rows, current, unsent, success, scan, world, restarts>>

\* The next transaction of the batch, or the end of it.
TakeTx(w, t) ==
  /\ At(w, "next") /\ t \in batch[w]
  /\ batch' = [batch EXCEPT ![w] = @ \ {t}]
  /\ current' = [current EXCEPT ![w] = t]
  /\ Go(w, IF w = "retry" THEN "bumpRetry" ELSE "read")
  /\ NoFault
  /\ UNCHANGED <<rows, unsent, success, scan, world, restarts>>

BatchDone(w) ==
  /\ At(w, "next") /\ batch[w] = {}
  /\ Go(w, "sleep")
  /\ NoFault
  /\ UNCHANGED <<rows, batch, current, unsent, success, scan, world, restarts>>

\* Leave the current transaction.
Drop(w) ==
  /\ Go(w, "next")
  /\ current' = [current EXCEPT ![w] = NoTx]
  /\ unsent' = [unsent EXCEPT ![w] = {}]
  /\ success' = [success EXCEPT ![w] = FALSE]
  /\ UNCHANGED batch

\* The two UPDATEs of UpdateEventsNotifyStatus write every visible row of the
\* transaction.
CountRetry(t) ==
  rows' = [e \in DOMAIN rows |-> [rows[e] EXCEPT !.retries = IF e \in RowsOf(t) THEN @ + 1 ELSE @]]
SetStatus(t, status) ==
  rows' = [e \in DOMAIN rows |-> [rows[e] EXCEPT !.status = IF e \in RowsOf(t) THEN status ELSE @]]

\* Mutant: the counter is not written.
BumpRetriesNot(w) ==
  /\ phase[w] \in {"bumpRetry", "bumpFail"}
  /\ Go(w, IF At(w, "bumpRetry") THEN "markRetry" ELSE "markFail")
  /\ NoFault
  /\ UNCHANGED <<rows, batch, current, unsent, success, scan, world, restarts>>

\* Its first statement for `retrying' and `failed'.
BumpRetries(w) ==
  /\ phase[w] \in {"bumpRetry", "bumpFail"}
  /\ CountRetry(current[w])
  /\ Go(w, IF At(w, "bumpRetry") THEN "markRetry" ELSE "markFail")
  /\ NoFault
  /\ UNCHANGED <<batch, current, unsent, success, scan, world, restarts>>

\* Its second statement for `retrying'; the transaction is sent afterwards.
MarkRetrying(w) ==
  /\ At(w, "markRetry")
  /\ SetStatus(current[w], "retrying")
  /\ Go(w, "read")
  /\ NoFault
  /\ UNCHANGED <<batch, current, unsent, success, scan, world, restarts>>

\* Mutant: a status no query knows is written for a failure.
MarkOutcomeUnknown(w) ==
  /\ phase[w] \in {"markFail", "markDone"}
  /\ SetStatus(current[w], IF At(w, "markFail") THEN "error" ELSE "notified")
  /\ Drop(w)
  /\ NoFault
  /\ UNCHANGED <<scan, world, restarts>>

\* The last statement of notifyTransactionEvents.
MarkOutcome(w) ==
  /\ phase[w] \in {"markFail", "markDone"}
  /\ SetStatus(current[w], IF At(w, "markFail") THEN "failed" ELSE "notified")
  /\ Drop(w)
  /\ NoFault
  /\ UNCHANGED <<scan, world, restarts>>

\* A statement failed: the error is logged, the transaction is left as it is.
StatementFails(w) ==
  /\ phase[w] \in {"bumpRetry", "markRetry", "read", "bumpFail", "markFail", "markDone"}
  /\ Fault
  /\ Drop(w)
  /\ UNCHANGED <<rows, scan, world, restarts>>

\* GetEventsByTxHash: every visible row, whatever its status; none ends the work.
ReadEvents(w) ==
  /\ At(w, "read")
  /\ IF RowsOf(current[w]) = {} THEN Drop(w) /\ UNCHANGED attempts
     ELSE /\ unsent' = [unsent EXCEPT ![w] = RowsOf(current[w])]
          /\ attempts' = [attempts EXCEPT ![current[w]] = @ + 1]
          /\ Go(w, "send")
          /\ UNCHANGED <<batch, current, success>>
  /\ NoFault
  /\ UNCHANGED <<rows, scan, accepted, revoked, tried, restarts>>

\* Notify posts to every endpoint and fails unless all answer 200.  An endpoint
\* may process a request whose answer is lost.
Notify(w, e) ==
  /\ At(w, "send") /\ e \in unsent[w]
  /\ \E processed \in SUBSET (IF e \in Silent THEN {} ELSE Endpoint) :
     \E answered \in SUBSET processed :
       /\ accepted' = accepted \cup (processed \X {e})
       /\ success' = [success EXCEPT ![w] = @ \/ answered = Endpoint \/ e \in Silent]
  /\ unsent' = [unsent EXCEPT ![w] = @ \ {e}]
  /\ tried' = tried \cup {e}
  /\ NoFault
  /\ UNCHANGED <<rows, phase, batch, current, scan, revoked, attempts, restarts>>

\* Mutant: the loop ends at the first success.
ConcludeEarly(w) ==
  /\ At(w, "send") /\ (unsent[w] = {} \/ success[w])
  /\ Go(w, IF success[w] THEN "markDone" ELSE "bumpFail")
  /\ NoFault
  /\ UNCHANGED <<rows, batch, current, unsent, success, scan, world, restarts>>

\* Mutant: the outcome of Notify is ignored.
ConcludeAlwaysDone(w) ==
  /\ At(w, "send") /\ unsent[w] = {}
  /\ Go(w, "markDone")
  /\ NoFault
  /\ UNCHANGED <<rows, batch, current, unsent, success, scan, world, restarts>>

\* All events were tried: one success is enough.
Conclude(w) ==
  /\ At(w, "send") /\ unsent[w] = {}
  /\ Go(w, IF success[w] THEN "markDone" ELSE "bumpFail")
  /\ NoFault
  /\ UNCHANGED <<rows, batch, current, unsent, success, scan, world, restarts>>

\* The process ends; the table and the outside world stay as they are.
Restart ==
  /\ restarts < MaxRestarts /\ restarts' = restarts + 1
  /\ phase' = [w \in Worker |-> "sleep"]
  /\ batch' = [w \in Worker |-> {}]
  /\ current' = [w \in Worker |-> NoTx]
  /\ unsent' = [w \in Worker |-> {}]
  /\ success' = [w \in Worker |-> FALSE]
  /\ rolling' = {}
  /\ NoFault
  /\ UNCHANGED <<rows, world, rollbacks, disturbed>>

WorkerStep(w) ==
  \/ Select(w) \/ BatchDone(w) \/ BumpRetries(w) \/ MarkRetrying(w) \/ MarkOutcome(w)
  \/ ReadEvents(w) \/ Conclude(w)
  \/ \E t \in Tx : TakeTx(w, t)
  \/ \E e \in Event : Notify(w, e)

TableStep ==
  \/ \E e \in Event : SaveEvent(e)
  \/ \E t \in Tx : Finalize(t) \/ SendRollbackNotices(t) \/ RollbackRows(t) \/ RollbackFails(t)

Next ==
  \/ \E w \in Worker : WorkerStep(w) \/ StatementFails(w)
  \/ TableStep \/ Restart

Spec == Init /\ [][Next]_vars

\* Both workers have a ticker of their own and run until the process ends.
FairSpec == Spec /\ \A w \in Worker : WF_vars(WorkerStep(w))

------------------------------------------------------------------------------
(* Properties. *)

\* Every variable has its type.
TypeOK ==
  /\ DOMAIN rows \subseteq Event /\ rows \in [DOMAIN rows -> Row]
  /\ phase \in [Worker -> Phases] /\ batch \in [Worker -> SUBSET Tx]
  /\ current \in [Worker -> Tx \cup {NoTx}] /\ unsent \in [Worker -> SUBSET Event]
  /\ success \in [Worker -> BOOLEAN]
  /\ rolling \subseteq Tx
  /\ accepted \subseteq Endpoint \X Event /\ revoked \subseteq Endpoint \X Event
  /\ attempts \in [Tx -> Nat] /\ tried \subseteq Event /\ disturbed \subseteq Tx
  /\ faults \in 0..MaxFaults /\ restarts \in 0..MaxRestarts
  /\ rollbacks \in 0..MaxRollbacks

\* An event every endpoint has processed, or that is none of their business.
Delivered(e) == e \in Silent \/ \A p \in Endpoint : <<p, e>> \in accepted

\* "Considered successful if at least one event is successful": a row is only
\* marked notified when some event of its transaction reached every endpoint,
\* whatever the two workers and the rollbacks do in between.
NotifiedHasDelivery ==
  \A e \in DOMAIN rows :
    rows[e].status = "notified" => \E f \in EventsOf(TxOf[e]) : Delivered(f)

\* The two workers never have the same transaction in hand, although nothing locks
\* it: the status column alone keeps them apart.  That needs the transaction's rows to
\* be of one piece: it fails for a transaction in `disturbed', one that got a row after
\* its others were final, or was rolled back while a worker held its hash, until it is
\* rolled back with no worker on it.
ExclusiveHands ==
  current["pending"] \notin disturbed \cup {NoTx} => current["pending"] # current["retry"]

\* Under the same condition what was notified is not sent again: the status is
\* final.
NotifiedIsFinal ==
  [][\A e \in DOMAIN rows :
       rows[e].status = "notified" /\ TxOf[e] \notin disturbed => rows'[e].status = "notified"]_vars

\* Each failed retry costs two of the RetryLimit: setting `retrying' counts one and
\* setting `failed' another.  The rows of a transaction (those a rollback brings back
\* are counted anew) are therefore sent at most 1 + RetryLimit \div 2 times, and once
\* more for each outcome that a crash or a failed statement kept from the table; and
\* they are not given up before, but for the counts that such a failure left behind
\* without an attempt.  (Between the statement that counts its last retry and the
\* attempt a row only looks given up.)  The condition is that of ExclusiveHands.
GivenUp(e) == rows[e].status = "failed" /\ rows[e].retries >= RetryLimit

AttemptsBounded ==
  LET planned == 1 + RetryLimit \div 2 IN
  \A t \in Tx \ disturbed :
    /\ attempts[t] <= planned + faults + restarts
    /\ \A e \in RowsOf(t) : GivenUp(e) /\ current["retry"] # t =>
         attempts[t] + faults + restarts >= planned

\* A final row does not stay undecided: unless it is rolled back it is notified, or
\* its retries are used up.  A crash or a failed statement may leave it `retrying',
\* which no query looks for; without one it settles.
Settles ==
  \A e \in Event :
    (e \in DOMAIN rows /\ rows[e].final) ~>
      \/ e \in DOMAIN rows /\ (~rows[e].live \/ rows[e].status = "notified" \/ GivenUp(e))
      \/ faults > 0 \/ restarts > 0

\* "When a blockchain reorganization occurs, notify external services to revoke
\* previous transactions" (NotifyRollback): when the rows of a transaction are gone
\* and no worker holds it any more, every endpoint that processed one of its events
\* has also processed its revocation.
DeliveriesAreRevoked ==
  \A e \in DOMAIN rows : \A p \in Endpoint :
     (~rows[e].live /\ <<p, e>> \in accepted /\ \A w \in Worker : current[w] # TxOf[e])
        => <<p, e>> \in revoked

\* "Sends notifications for all events of a specified transaction"
\* (notifyTransactionEvents): a row marked notified was handed to the notifier itself,
\* under the condition of ExclusiveHands; a row that joins its transaction after the
\* worker has read it is marked with the others.
NotifiedWasTried ==
  \A e \in Visible :
    rows[e].status = "notified" /\ TxOf[e] \notin disturbed => e \in tried
==============================================================================
