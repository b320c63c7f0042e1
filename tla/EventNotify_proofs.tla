--------------------------- MODULE EventNotify_proofs ---------------------------
(***************************************************************************)
(* For any transactions, events and endpoints, any retry limit and any     *)
(* number of failed statements, crashes and rollbacks: what the two        *)
(* notification workers write is backed by a delivery, and as long as the  *)
(* rows of a transaction are of one piece (not in `disturbed'), the status *)
(* column alone keeps the workers apart and their attempts few.            *)
(***************************************************************************)
EXTENDS EventNotify, TLAPS

(* The part of the invariant that holds of every table.                             *)

\* A worker has a transaction in hand from the choice to the outcome.
HandsMatchPhases == \A w \in Worker : (phase[w] \in {"sleep", "next"}) <=> current[w] = NoTx

UnsentIsCurrents == \A w \in Worker : unsent[w] \subseteq EventsOf(current[w])

\* The local `success' is never left over from another transaction.
SuccessIsDelivery ==
  \A w \in Worker : success[w] => \E f \in EventsOf(current[w]) : Delivered(f)

DoneIsSuccess == \A w \in Worker : phase[w] = "markDone" => success[w]

(* The part that speaks of the visible rows of the undisturbed transactions.        *)

\* The statements write all rows of a transaction, and none comes too late for one.
RowsAgree ==
  \A e, f \in Visible : TxOf[e] = TxOf[f] /\ TxOf[e] \notin disturbed => rows[e] = rows[f]

\* Nothing is done before a row is final.
UntouchedUntilFinal ==
  \A e \in Visible :
    TxOf[e] \notin disturbed /\ ~rows[e].final => rows[e].status = "pending" /\ rows[e].retries = 0

HeldIsFinal ==
  \A w \in Worker : \A t \in Hands(w) \ disturbed : \E e \in RowsOf(t) : rows[e].final

\* What a worker holds has the status it was chosen for, or the one the worker set.
Claimed(w) == IF w = "pending" THEN {"pending"} ELSE {"failed", "retrying"}

HeldIsClaimed ==
  \A w \in Worker : \A e \in Visible :
    TxOf[e] \in Hands(w) \ disturbed => rows[e].status \in Claimed(w)

TakenOnce == \A w \in Worker : current[w] \notin batch[w]

OnlyRetryMarks == phase["pending"] \notin {"bumpRetry", "markRetry"}

TableInv == RowsAgree /\ UntouchedUntilFinal
HandsInv == HeldIsFinal /\ HeldIsClaimed /\ TakenOnce /\ OnlyRetryMarks

\* What is not in `unsent' any more was handed to the notifier.
SentPhases == {"send", "bumpFail", "markFail", "markDone"}

SentWasTried ==
  \A w \in Worker : phase[w] \in SentPhases =>
    /\ current[w] \notin disturbed => RowsOf(current[w]) \ unsent[w] \subseteq tried
    /\ phase[w] # "send" => unsent[w] = {}

(* The account of attempts and retries, per row, while the row is visible.  `lost'  *)
(* counts what may have kept an outcome from the table.                             *)
Lost == faults + restarts

\* Worker w has e's transaction in hand and stands at one of the places.
On(w, e, places) == current[w] = TxOf[e] /\ phase[w] \in places

\* Before the first outcome is written every attempt but the one under way was lost.
FirstAccount(e) ==
  LET a == attempts[TxOf[e]]  r == rows[e].retries IN
  IF On("pending", e, SentPhases)
  THEN /\ a <= Lost + 1
       /\ IF On("pending", e, {"markFail"}) THEN r >= 1 /\ r + 1 <= 2 * (a + Lost)
          ELSE r + 2 <= 2 * (a + Lost)
  ELSE a <= Lost /\ r <= 2 * (a + Lost)

\* Afterwards there is one attempt for two counts, and a loss may cost one of either.
RetryAccount(e) ==
  LET a == attempts[TxOf[e]]  r == rows[e].retries IN
  IF On("retry", e, {"markRetry", "read"})
  THEN 2 * a <= r + 2 * Lost /\ r <= 2 * (a + Lost) /\ r <= RetryLimit
  ELSE IF On("retry", e, {"send", "bumpFail", "markDone"})
  THEN 2 * a <= r + 2 + 2 * Lost /\ r + 2 <= 2 * (a + Lost)
  ELSE /\ TxOf[e] \in Hands("retry") \/ rows[e].status = "failed" =>
            2 * a <= r + 1 + 2 * Lost /\ r + 1 <= 2 * (a + Lost)
       /\ TxOf[e] \in Hands("retry") /\ ~On("retry", e, {"markFail"}) => r < RetryLimit

AccountOf(e) ==
  /\ rows[e].status = "pending" => FirstAccount(e)
  /\ rows[e].status \in {"failed", "retrying"} => RetryAccount(e)

Accounted == \A e \in Visible : TxOf[e] \notin disturbed => AccountOf(e)

UntriedUntilFinal ==
  \A t \in Tx \ disturbed : attempts[t] > 0 => \E e \in RowsOf(t) : rows[e].final

AttemptsCapped == \A t \in Tx \ disturbed : attempts[t] <= 1 + RetryLimit \div 2 + Lost

AccountInv == Accounted /\ UntriedUntilFinal /\ AttemptsCapped

------------------------------------------------------------------------------
(* Types. *)

LEMMA RowsOfTyped == TypeOK => \A t : RowsOf(t) \subseteq DOMAIN rows /\ RowsOf(t) \subseteq Event
BY DEF TypeOK, RowsOf, Visible

LEMMA NoRowsOfNoTx == TypeOK => RowsOf(NoTx) = {} /\ EventsOf(NoTx) = {}
BY NotifyAssumption DEF TypeOK, RowsOf, Visible, EventsOf

\* What the two statements of UpdateEventsNotifyStatus leave of a row.
LEMMA CountRetryRows ==
  ASSUME TypeOK, NEW t, CountRetry(t)
  PROVE  /\ DOMAIN rows' = DOMAIN rows
         /\ rows' \in [DOMAIN rows -> Row]
         /\ \A e \in DOMAIN rows :
              /\ rows'[e].status = rows[e].status
              /\ rows'[e].final = rows[e].final /\ rows'[e].live = rows[e].live
              /\ e \in RowsOf(t) => rows'[e].retries = rows[e].retries + 1
              /\ e \notin RowsOf(t) => rows'[e] = rows[e]
BY DEF TypeOK, CountRetry, Row

LEMMA SetStatusRows ==
  ASSUME TypeOK, NEW t, NEW s \in Status, SetStatus(t, s)
  PROVE  /\ DOMAIN rows' = DOMAIN rows
         /\ rows' \in [DOMAIN rows -> Row]
         /\ \A e \in DOMAIN rows :
              /\ rows'[e].retries = rows[e].retries
              /\ rows'[e].final = rows[e].final /\ rows'[e].live = rows[e].live
              /\ e \in RowsOf(t) => rows'[e].status = s
              /\ e \notin RowsOf(t) => rows'[e] = rows[e]
BY DEF TypeOK, SetStatus, Row

\* The last statement writes the outcome to the rows of the transaction in hand.
LEMMA OutcomeRows ==
  ASSUME TypeOK, NEW w \in Worker, MarkOutcome(w)
  PROVE  /\ DOMAIN rows' = DOMAIN rows
         /\ \A e \in DOMAIN rows :
              /\ rows'[e].retries = rows[e].retries
              /\ rows'[e].final = rows[e].final /\ rows'[e].live = rows[e].live
              /\ e \in RowsOf(current[w]) =>
                   rows'[e].status = IF phase[w] = "markFail" THEN "failed" ELSE "notified"
              /\ e \notin RowsOf(current[w]) => rows'[e] = rows[e]
<1>1. PICK s \in Status : SetStatus(current[w], s)
                          /\ s = IF phase[w] = "markFail" THEN "failed" ELSE "notified"
  BY DEF MarkOutcome, At, Status
<1> QED
  BY <1>1, SetStatusRows

\* What the listener and the updater do to the rows.
LEMMA SaveEventRows ==
  ASSUME TypeOK, NEW e \in Event, SaveEvent(e)
  PROVE  /\ DOMAIN rows' = DOMAIN rows \cup {e} /\ e \notin DOMAIN rows
         /\ rows' \in [DOMAIN rows' -> Row]
         /\ \A f \in DOMAIN rows : rows'[f] = rows[f]
         /\ rows'[e] = [status |-> "pending", retries |-> 0, final |-> FALSE, live |-> TRUE]
         /\ rows'[e].status = "pending" /\ rows'[e].retries = 0
         /\ rows'[e].final = FALSE /\ rows'[e].live = TRUE
         /\ disturbed \subseteq disturbed' /\ disturbed' \subseteq disturbed \cup {TxOf[e]}
BY DEF TypeOK, SaveEvent, Row, Status

LEMMA FinalizeRows ==
  ASSUME TypeOK, NEW t \in Tx, Finalize(t)
  PROVE  /\ DOMAIN rows' = DOMAIN rows
         /\ rows' \in [DOMAIN rows -> Row]
         /\ \A e \in DOMAIN rows :
              /\ rows'[e] = IF e \in RowsOf(t) THEN [rows[e] EXCEPT !.final = TRUE] ELSE rows[e]
              /\ rows'[e].status = rows[e].status /\ rows'[e].retries = rows[e].retries
              /\ rows'[e].live = rows[e].live
              /\ rows'[e].final = (rows[e].final \/ e \in RowsOf(t))
BY DEF TypeOK, Finalize, Row

LEMMA RollbackRowsRows ==
  ASSUME TypeOK, NEW t \in Tx, RollbackRows(t)
  PROVE  /\ DOMAIN rows' = DOMAIN rows
         /\ rows' \in [DOMAIN rows -> Row]
         /\ \A e \in DOMAIN rows :
              /\ rows'[e] = IF TxOf[e] = t THEN [rows[e] EXCEPT !.live = FALSE] ELSE rows[e]
              /\ rows'[e].status = rows[e].status /\ rows'[e].retries = rows[e].retries
              /\ rows'[e].final = rows[e].final
              /\ rows'[e].live = (rows[e].live /\ TxOf[e] # t)
BY DEF TypeOK, RollbackRows, Row

\* A transaction that was rolled back is undisturbed if no worker holds it.
LEMMA RollbackDisturbs ==
  ASSUME TypeOK, NEW t \in Tx, RollbackRows(t)
  PROVE  /\ \A u : u # t => (u \in disturbed' <=> u \in disturbed)
         /\ t \notin disturbed' => \A w \in Worker : t \notin Hands(w)
         /\ disturbed' \subseteq Tx
         /\ attempts' = [attempts EXCEPT ![t] = 0] /\ attempts' \in [Tx -> Nat]
BY DEF TypeOK, RollbackRows

\* Leaving a transaction clears the locals of one worker.
LEMMA DropTyped ==
  ASSUME TypeOK, NEW w \in Worker, Drop(w)
  PROVE  /\ phase' = [phase EXCEPT ![w] = "next"] /\ phase' \in [Worker -> Phases]
         /\ batch' = batch
         /\ current' = [current EXCEPT ![w] = NoTx] /\ current' \in [Worker -> Tx \cup {NoTx}]
         /\ unsent' = [unsent EXCEPT ![w] = {}] /\ unsent' \in [Worker -> SUBSET Event]
         /\ success' = [success EXCEPT ![w] = FALSE] /\ success' \in [Worker -> BOOLEAN]
BY DEF TypeOK, Drop, Go, Phases

LEMMA FaultTyped == TypeOK /\ (Fault \/ NoFault) => faults' \in 0..MaxFaults /\ faults <= faults'
BY NotifyAssumption DEF TypeOK, Fault, NoFault

LEMMA InitTyped == Init => TypeOK
BY NotifyAssumption DEF Init, TypeOK, Worker, Phases

LEMMA NextTyped == TypeOK /\ [Next]_vars => TypeOK'
<1> SUFFICES ASSUME TypeOK, [Next]_vars
             PROVE  TypeOK'
  OBVIOUS
<1> USE NotifyAssumption
<1>1. ASSUME NEW e \in Event, SaveEvent(e)
      PROVE  TypeOK'
  <2>1. TxOf[e] \in Tx
    BY NotifyAssumption
  <2> QED
    BY <1>1, <2>1, SaveEventRows, FaultTyped DEF TypeOK, SaveEvent, work, world
<1>2. ASSUME NEW t \in Tx, Finalize(t)
      PROVE  TypeOK'
  BY <1>2, FinalizeRows, FaultTyped DEF TypeOK, Finalize, work, world, scan
<1>3. ASSUME NEW t \in Tx, SendRollbackNotices(t)
      PROVE  TypeOK'
  <2>1. rollbacks' \in 0..MaxRollbacks /\ rolling' \subseteq Tx
    BY <1>3 DEF TypeOK, SendRollbackNotices
  <2>2. revoked' \subseteq Endpoint \X Event
    BY <1>3, RowsOfTyped DEF TypeOK, SendRollbackNotices
  <2>3. faults' \in 0..MaxFaults
    BY <1>3, FaultTyped DEF SendRollbackNotices
  <2> QED
    BY <1>3, <2>1, <2>2, <2>3 DEF TypeOK, SendRollbackNotices, work
<1>4. ASSUME NEW t \in Tx, RollbackRows(t)
      PROVE  TypeOK'
  BY <1>4, RollbackRowsRows, RollbackDisturbs, FaultTyped DEF TypeOK, RollbackRows, work
<1>5. ASSUME NEW t \in Tx, RollbackFails(t)
      PROVE  TypeOK'
  BY <1>5, FaultTyped DEF TypeOK, RollbackFails, work, world
<1>6. ASSUME NEW w \in Worker, Select(w)
      PROVE  TypeOK'
  <2>1. {TxOf[e] : e \in {f \in Visible : Wanted(w, f)}} \subseteq Tx
    BY DEF TypeOK, Visible
  <2> QED
    BY <1>6, <2>1, FaultTyped DEF TypeOK, Select, Go, Phases, world, scan
<1>7. ASSUME NEW w \in Worker, NEW t \in Tx, TakeTx(w, t)
      PROVE  TypeOK'
  BY <1>7, FaultTyped DEF TypeOK, TakeTx, Go, Phases, world, scan
<1>8. ASSUME NEW w \in Worker, BatchDone(w) \/ Conclude(w)
      PROVE  TypeOK'
  BY <1>8, FaultTyped DEF TypeOK, BatchDone, Conclude, Go, Phases, world, scan
<1>9. ASSUME NEW w \in Worker, BumpRetries(w)
      PROVE  TypeOK'
  BY <1>9, CountRetryRows, FaultTyped DEF TypeOK, BumpRetries, Go, Phases, world, scan
<1>10. ASSUME NEW w \in Worker, MarkRetrying(w)
       PROVE  TypeOK'
  BY <1>10, SetStatusRows, FaultTyped DEF TypeOK, MarkRetrying, Go, Phases, Status, world, scan
<1>11. ASSUME NEW w \in Worker, MarkOutcome(w)
       PROVE  TypeOK'
  BY <1>11, SetStatusRows, DropTyped, FaultTyped DEF TypeOK, MarkOutcome, Status, world, scan
<1>12. ASSUME NEW w \in Worker, StatementFails(w)
       PROVE  TypeOK'
  BY <1>12, DropTyped, FaultTyped DEF TypeOK, StatementFails, world, scan
<1>13. ASSUME NEW w \in Worker, ReadEvents(w)
       PROVE  TypeOK'
  <2>1. CASE RowsOf(current[w]) = {}
    BY <1>13, <2>1, DropTyped, FaultTyped DEF TypeOK, ReadEvents, scan
  <2>2. CASE RowsOf(current[w]) # {}
    BY <1>13, <2>2, RowsOfTyped, NoRowsOfNoTx, FaultTyped DEF TypeOK, ReadEvents, Go, Phases, scan
  <2> QED
    BY <2>1, <2>2
<1>14. ASSUME NEW w \in Worker, NEW e \in Event, Notify(w, e)
       PROVE  TypeOK'
  <2>1. accepted' \subseteq Endpoint \X Event
    BY <1>14 DEF TypeOK, Notify
  <2>2. success' \in [Worker -> BOOLEAN]
    BY <1>14 DEF TypeOK, Notify
  <2> QED
    BY <1>14, <2>1, <2>2, FaultTyped DEF TypeOK, Notify, scan
<1>15. CASE Restart
  BY <1>15, FaultTyped DEF TypeOK, Restart, Phases, world
<1>16. CASE UNCHANGED vars
  BY <1>16 DEF TypeOK, vars
<1> QED
  BY <1>1, <1>2, <1>3, <1>4, <1>5, <1>6, <1>7, <1>8, <1>9, <1>10, <1>11, <1>12, <1>13, <1>14,
     <1>15, <1>16 DEF Next, TableStep, WorkerStep

\* Every variable keeps its type, whatever fails and whoever restarts.
THEOREM TypeCorrect == Spec => []TypeOK
<1> QED
  BY InitTyped, NextTyped, PTL DEF Spec

------------------------------------------------------------------------------
(* The outcome a worker writes is backed by a delivery. *)

\* What an endpoint processed stays processed, and what was tried stays tried.
LEMMA HistoryGrows == [Next]_vars => accepted \subseteq accepted' /\ tried \subseteq tried'
<1> SUFFICES ASSUME [Next]_vars
             PROVE  accepted \subseteq accepted' /\ tried \subseteq tried'
  OBVIOUS
<1>1. CASE \E w \in Worker, e \in Event : Notify(w, e)
  BY <1>1 DEF Notify
<1>2. CASE \E w \in Worker : ReadEvents(w)
  BY <1>2 DEF ReadEvents
<1>3. CASE TableStep
  BY <1>3 DEF TableStep, SaveEvent, Finalize, SendRollbackNotices, RollbackRows, RollbackFails, world
<1>4. ASSUME NEW w \in Worker,
             \/ Select(w) \/ BatchDone(w) \/ BumpRetries(w) \/ MarkRetrying(w) \/ MarkOutcome(w)
             \/ Conclude(w) \/ StatementFails(w) \/ \E t \in Tx : TakeTx(w, t)
      PROVE  accepted \subseteq accepted' /\ tried \subseteq tried'
  BY <1>4 DEF Select, BatchDone, BumpRetries, MarkRetrying, MarkOutcome, Conclude,
              StatementFails, TakeTx, world
<1>5. CASE Restart \/ UNCHANGED vars
  BY <1>5 DEF Restart, world, vars
<1> QED
  BY <1>1, <1>2, <1>3, <1>4, <1>5 DEF Next, WorkerStep

\* The steps that write the events table.
LEMMA RowSteps ==
  [Next]_vars =>
    \/ UNCHANGED rows
    \/ \E e \in Event : SaveEvent(e)
    \/ \E t \in Tx : Finalize(t) \/ RollbackRows(t)
    \/ \E w \in Worker : BumpRetries(w) \/ MarkRetrying(w) \/ MarkOutcome(w)
<1>1. ASSUME NEW w \in Worker,
             \/ Select(w) \/ BatchDone(w) \/ ReadEvents(w) \/ Conclude(w) \/ StatementFails(w)
             \/ (\E t \in Tx : TakeTx(w, t)) \/ \E f \in Event : Notify(w, f)
      PROVE  UNCHANGED rows
  BY <1>1 DEF Select, BatchDone, ReadEvents, Conclude, StatementFails, TakeTx, Notify
<1>2. CASE \E t \in Tx : SendRollbackNotices(t) \/ RollbackFails(t)
  BY <1>2 DEF SendRollbackNotices, RollbackFails
<1>3. CASE Restart \/ UNCHANGED vars
  BY <1>3 DEF Restart, vars
<1> QED
  BY <1>1, <1>2, <1>3 DEF Next, TableStep, WorkerStep

\* Only the last statement of a successful worker marks a row notified.
LEMMA NotifiedOrigin ==
  ASSUME TypeOK, [Next]_vars, NEW e \in DOMAIN rows', rows'[e].status = "notified"
  PROVE  \/ e \in DOMAIN rows /\ rows[e].status = "notified"
         \/ \E w \in Worker : phase[w] = "markDone" /\ e \in RowsOf(current[w]) /\ MarkOutcome(w)
<1>1. ASSUME NEW f \in Event, SaveEvent(f)
      PROVE  e \in DOMAIN rows /\ rows[e].status = "notified"
  BY <1>1, SaveEventRows
<1>2. ASSUME NEW t \in Tx, Finalize(t) \/ RollbackRows(t)
      PROVE  e \in DOMAIN rows /\ rows[e].status = "notified"
  BY <1>2, FinalizeRows, RollbackRowsRows
<1>3. ASSUME NEW w \in Worker, BumpRetries(w)
      PROVE  e \in DOMAIN rows /\ rows[e].status = "notified"
  BY <1>3, CountRetryRows DEF BumpRetries
<1>4. ASSUME NEW w \in Worker, MarkRetrying(w)
      PROVE  e \in DOMAIN rows /\ rows[e].status = "notified"
  BY <1>4, SetStatusRows DEF MarkRetrying, Status
<1>5. ASSUME NEW w \in Worker, MarkOutcome(w)
      PROVE  \/ e \in DOMAIN rows /\ rows[e].status = "notified"
             \/ phase[w] = "markDone" /\ e \in RowsOf(current[w])
  BY <1>5, OutcomeRows DEF MarkOutcome
<1> QED
  BY <1>1, <1>2, <1>3, <1>4, <1>5, RowSteps

LEMMA DeliveredStays == [Next]_vars => \A f : Delivered(f) => Delivered(f)'
BY HistoryGrows DEF Delivered

\* The locals of the workers, but for `success': hand, events left and place agree.
Locals == HandsMatchPhases /\ UnsentIsCurrents /\ SuccessIsDelivery /\ DoneIsSuccess

LEMMA LocalsStep ==
  ASSUME TypeOK, Locals, [Next]_vars
  PROVE  Locals'
<1> USE DEF Locals, HandsMatchPhases, UnsentIsCurrents, SuccessIsDelivery, DoneIsSuccess
<1>0. \A f : Delivered(f) => Delivered(f)'
  BY DeliveredStays
<1>1. CASE UNCHANGED work
  BY <1>0, <1>1 DEF work, EventsOf
<1>2. CASE TableStep
  BY <1>1, <1>2 DEF TableStep, SaveEvent, Finalize, SendRollbackNotices, RollbackRows, RollbackFails
<1>3. ASSUME NEW w \in Worker, Select(w) \/ BatchDone(w)
      PROVE  Locals'
  BY <1>0, <1>3 DEF Select, BatchDone, Go, At, TypeOK, EventsOf
<1>4. ASSUME NEW w \in Worker, NEW t \in Tx, TakeTx(w, t)
      PROVE  Locals'
  <2>1. ~success[w] /\ unsent[w] = {}
    BY <1>4, NoRowsOfNoTx DEF TakeTx, At
  <2> QED
    BY <1>0, <1>4, <2>1, NotifyAssumption DEF TakeTx, Go, At, TypeOK, EventsOf
<1>5. ASSUME NEW w \in Worker, BumpRetries(w) \/ MarkRetrying(w)
      PROVE  Locals'
  BY <1>0, <1>5 DEF BumpRetries, MarkRetrying, Go, At, TypeOK, EventsOf
<1>6. ASSUME NEW w \in Worker, Drop(w)
      PROVE  Locals'
  BY <1>0, <1>6, DropTyped DEF TypeOK, EventsOf
<1>7. ASSUME NEW w \in Worker, MarkOutcome(w) \/ StatementFails(w)
      PROVE  Locals'
  BY <1>6, <1>7 DEF MarkOutcome, StatementFails
<1>8. ASSUME NEW w \in Worker, ReadEvents(w)
      PROVE  Locals'
  <2>1. CASE RowsOf(current[w]) = {}
    BY <1>6, <1>8, <2>1 DEF ReadEvents
  <2>2. CASE RowsOf(current[w]) # {}
    <3>1. RowsOf(current[w]) \subseteq EventsOf(current[w])
      BY DEF TypeOK, RowsOf, Visible, EventsOf
    <3> QED
      BY <1>0, <1>8, <2>2, <3>1 DEF ReadEvents, Go, At, TypeOK, EventsOf
  <2> QED
    BY <2>1, <2>2
<1>9. ASSUME NEW w \in Worker, NEW e \in Event, Notify(w, e)
      PROVE  Locals'
  <2>1. e \in EventsOf(current[w])
    BY <1>9 DEF Notify
  <2>2. success'[w] => success[w] \/ Delivered(e)'
    BY <1>9 DEF Notify, Delivered, TypeOK
  <2>3. \A v \in Worker : v # w => success'[v] = success[v]
    BY <1>9 DEF Notify, TypeOK
  <2>4. UNCHANGED <<phase, current>> /\ \A v \in Worker : unsent'[v] \subseteq unsent[v]
    BY <1>9 DEF Notify, TypeOK
  <2>5. SuccessIsDelivery'
    BY <1>0, <2>1, <2>2, <2>3, <2>4 DEF EventsOf
  <2>6. At(w, "send") /\ \A v \in Worker : phase[v] = "markDone" => v # w
    BY <1>9 DEF Notify, At
  <2> QED
    BY <2>3, <2>4, <2>5, <2>6 DEF EventsOf
<1>10. ASSUME NEW w \in Worker, Conclude(w)
       PROVE  Locals'
  BY <1>0, <1>10 DEF Conclude, Go, At, TypeOK, EventsOf
<1>11. CASE Restart
  BY <1>11 DEF Restart
<1>12. CASE UNCHANGED vars
  BY <1>1, <1>12 DEF vars, work
<1> QED
  BY <1>2, <1>3, <1>4, <1>5, <1>7, <1>8, <1>9, <1>10, <1>11, <1>12 DEF Next, WorkerStep

LEMMA NotifiedStep ==
  ASSUME TypeOK, Locals, NotifiedHasDelivery, [Next]_vars
  PROVE  NotifiedHasDelivery'
<1> SUFFICES ASSUME NEW e \in DOMAIN rows', rows'[e].status = "notified"
             PROVE  \E f \in EventsOf(TxOf[e]) : Delivered(f)'
  BY DEF NotifiedHasDelivery, EventsOf
<1>1. CASE e \in DOMAIN rows /\ rows[e].status = "notified"
  BY <1>1, DeliveredStays DEF NotifiedHasDelivery
<1>2. CASE \E w \in Worker : phase[w] = "markDone" /\ e \in RowsOf(current[w])
  BY <1>2, DeliveredStays DEF Locals, DoneIsSuccess, SuccessIsDelivery, RowsOf
<1> QED
  BY <1>1, <1>2, NotifiedOrigin

\* Whatever the two workers, the rollbacks and the crashes do in between: a row is
\* marked notified only when an event of its transaction reached every endpoint.
THEOREM NotifiedIsBacked == Spec => []NotifiedHasDelivery
<1> DEFINE DInv == TypeOK /\ Locals /\ NotifiedHasDelivery
<1>1. Init => DInv
  BY InitTyped DEF Init, Locals, HandsMatchPhases, UnsentIsCurrents, SuccessIsDelivery,
                   DoneIsSuccess, NotifiedHasDelivery
<1>2. DInv /\ [Next]_vars => DInv'
  BY NextTyped, LocalsStep, NotifiedStep
<1> QED
  BY <1>1, <1>2, PTL DEF Spec

------------------------------------------------------------------------------
(* The two workers and the undisturbed rows they write. *)

ExclInv == TypeOK /\ HandsMatchPhases /\ UnsentIsCurrents /\ TableInv /\ HandsInv

\* No transaction is in the hands of both: its rows would have two statuses.
LEMMA HandsDisjoint ==
  ASSUME TypeOK, HeldIsFinal, HeldIsClaimed
  PROVE  \A t : t \notin disturbed => ~(t \in Hands("pending") /\ t \in Hands("retry"))
<1> SUFFICES ASSUME NEW t, t \notin disturbed, t \in Hands("pending"), t \in Hands("retry")
             PROVE  FALSE
  OBVIOUS
<1>1. PICK e \in RowsOf(t) : rows[e].final
  BY DEF HeldIsFinal, Worker
<1>2. e \in Visible /\ TxOf[e] = t
  BY <1>1 DEF RowsOf
<1> QED
  BY <1>2 DEF HeldIsClaimed, Claimed, Worker

LEMMA CurrentIsHeld ==
  ASSUME TypeOK, NEW w \in Worker, NEW e \in RowsOf(current[w])
  PROVE  /\ current[w] = TxOf[e] /\ TxOf[e] \in Tx /\ TxOf[e] \in Hands(w)
         /\ e \in DOMAIN rows /\ rows[e].live
BY NotifyAssumption DEF TypeOK, RowsOf, Visible, Hands

\* A row that leaves its transaction undisturbed comes before any of it is final.
LEMMA SavedIsNew ==
  ASSUME TypeOK, NEW e \in Event, SaveEvent(e), TxOf[e] \notin disturbed'
  PROVE  TxOf[e] \notin disturbed /\ \A f \in RowsOf(TxOf[e]) : ~rows[f].final
BY DEF SaveEvent

LEMMA DisturbedSteps ==
  [Next]_vars =>
    \/ UNCHANGED disturbed
    \/ \E e \in Event : SaveEvent(e)
    \/ \E t \in Tx : RollbackRows(t)
<1>1. ASSUME NEW w \in Worker, WorkerStep(w) \/ StatementFails(w)
      PROVE  UNCHANGED disturbed
  BY <1>1 DEF WorkerStep, Select, BatchDone, ReadEvents, Conclude, StatementFails, TakeTx, Notify,
              BumpRetries, MarkRetrying, MarkOutcome, scan
<1>2. CASE \E t \in Tx : Finalize(t) \/ SendRollbackNotices(t) \/ RollbackFails(t)
  BY <1>2 DEF Finalize, SendRollbackNotices, RollbackFails, scan
<1>3. CASE Restart \/ UNCHANGED vars
  BY <1>3 DEF Restart, vars
<1> QED
  BY <1>1, <1>2, <1>3 DEF Next, TableStep

\* What a step does to the visible rows of a transaction it leaves undisturbed.
LEMMA RowsStay ==
  ASSUME TypeOK, [Next]_vars, NEW e \in Visible', TxOf[e] \notin disturbed'
  PROVE  \/ /\ e \in Visible /\ TxOf[e] \notin disturbed
            /\ rows[e].final => rows'[e].final
            /\ ~\E t \in Tx : RollbackRows(t) /\ t = TxOf[e]
         \/ /\ SaveEvent(e) /\ e \notin DOMAIN rows /\ e \in Event /\ TxOf[e] \notin disturbed
            /\ rows'[e] = [status |-> "pending", retries |-> 0, final |-> FALSE, live |-> TRUE]
            /\ \A f \in RowsOf(TxOf[e]) : ~rows[f].final
<1> USE DEF Visible
<1>1. ASSUME NEW f \in Event, SaveEvent(f)
      PROVE  \/ /\ e \in Visible /\ TxOf[e] \notin disturbed
                /\ rows[e].final => rows'[e].final
             \/ e = f /\ TxOf[e] \notin disturbed
  <2>1. /\ DOMAIN rows' = DOMAIN rows \cup {f} /\ \A g \in DOMAIN rows : rows'[g] = rows[g]
        /\ disturbed \subseteq disturbed'
    BY <1>1, SaveEventRows
  <2>2. TxOf[e] \notin disturbed
    BY <2>1
  <2>3. CASE e # f
    <3>1. e \in DOMAIN rows
      BY <2>1, <2>3
    <3>2. e \in Visible /\ rows'[e] = rows[e]
      BY <2>1, <3>1
    <3> QED
      BY <2>2, <3>2
  <2> QED
    BY <2>2, <2>3
<1>2. ASSUME NEW t \in Tx, RollbackRows(t)
      PROVE  /\ e \in Visible /\ TxOf[e] \notin disturbed /\ t # TxOf[e]
             /\ rows[e].final => rows'[e].final
  BY <1>2, RollbackRowsRows, RollbackDisturbs
<1>3. ASSUME NEW t \in Tx, Finalize(t)
      PROVE  e \in Visible /\ (rows[e].final => rows'[e].final)
  BY <1>3, FinalizeRows
<1>4. ASSUME NEW w \in Worker, BumpRetries(w) \/ MarkRetrying(w) \/ MarkOutcome(w)
      PROVE  e \in Visible /\ (rows[e].final => rows'[e].final)
  BY <1>4, CountRetryRows, SetStatusRows, OutcomeRows DEF BumpRetries, MarkRetrying, Status
<1>5. ASSUME NEW f \in Event, SaveEvent(f), e = f
      PROVE  /\ SaveEvent(e) /\ e \notin DOMAIN rows /\ e \in Event
             /\ rows'[e] = [status |-> "pending", retries |-> 0, final |-> FALSE, live |-> TRUE]
             /\ \A g \in RowsOf(TxOf[e]) : ~rows[g].final
  BY <1>5, SaveEventRows, SavedIsNew
<1>6. CASE \E t \in Tx : RollbackRows(t)
  <2>1. PICK t \in Tx : RollbackRows(t)
    BY <1>6
  <2>2. \A u \in Tx : RollbackRows(u) => u # TxOf[e]
    BY <1>2
  <2> QED
    BY <1>2, <2>1, <2>2
<1>7. CASE ~\E t \in Tx : RollbackRows(t)
  <2>1. CASE \E f \in Event : SaveEvent(f)
    BY <1>1, <1>5, <1>7, <2>1
  <2>2. CASE ~\E f \in Event : SaveEvent(f)
    <3>1. UNCHANGED disturbed
      BY <1>7, <2>2, DisturbedSteps
    <3>2. e \in Visible /\ (rows[e].final => rows'[e].final)
      BY <1>3, <1>4, <1>7, <2>2, RowSteps
    <3> QED
      BY <1>7, <3>1, <3>2
  <2> QED
    BY <2>1, <2>2
<1> QED
  BY <1>6, <1>7

\* Conversely, the final rows of a transaction stay as long as it is not rolled back.
LEMMA FinalStays ==
  ASSUME TypeOK, [Next]_vars, NEW e \in Visible, rows[e].final,
         ~\E t \in Tx : RollbackRows(t) /\ t = TxOf[e]
  PROVE  e \in Visible' /\ rows'[e].final
<1> USE DEF Visible
<1>1. ASSUME NEW f \in Event, SaveEvent(f)
      PROVE  e \in Visible' /\ rows'[e].final
  BY <1>1, SaveEventRows
<1>2. ASSUME NEW t \in Tx, Finalize(t) \/ RollbackRows(t)
      PROVE  e \in Visible' /\ rows'[e].final
  BY <1>2, FinalizeRows, RollbackRowsRows
<1>3. ASSUME NEW w \in Worker, BumpRetries(w) \/ MarkRetrying(w) \/ MarkOutcome(w)
      PROVE  e \in Visible' /\ rows'[e].final
  BY <1>3, CountRetryRows, SetStatusRows, OutcomeRows DEF BumpRetries, MarkRetrying, Status
<1> QED
  BY <1>1, <1>2, <1>3, RowSteps

\* The rows of a transaction are written together, by the statements of the
\* workers, the updater and the rollback.
LEMMA AgreeStep ==
  ASSUME TypeOK, TableInv, [Next]_vars
  PROVE  RowsAgree'
<1> SUFFICES ASSUME NEW e \in Visible', NEW f \in Visible', TxOf[e] = TxOf[f],
                    TxOf[e] \notin disturbed'
             PROVE  rows'[e] = rows'[f]
  BY DEF RowsAgree
<1> DEFINE fresh == [status |-> "pending", retries |-> 0, final |-> FALSE, live |-> TRUE]
<1>1. ASSUME NEW g \in Visible, NEW h \in Visible', TxOf[g] = TxOf[h], SaveEvent(h), h \in Event,
             TxOf[h] \notin disturbed'
      PROVE  g \in DOMAIN rows /\ rows'[g] = fresh
  <2>1. g \in RowsOf(TxOf[h]) /\ g \in DOMAIN rows /\ rows[g].live
    BY <1>1 DEF RowsOf, Visible
  <2>2. ~rows[g].final /\ TxOf[g] \notin disturbed
    BY <1>1, <2>1, SavedIsNew
  <2>3. rows[g] = fresh
    BY <2>1, <2>2 DEF TableInv, UntouchedUntilFinal, TypeOK, Row
  <2> QED
    BY <1>1, <2>1, <2>3, SaveEventRows
<1>2. CASE e \notin Visible \/ f \notin Visible
  BY <1>1, <1>2, RowsStay
<1>3. CASE e \in Visible /\ f \in Visible
  <2>0. TxOf[e] \notin disturbed /\ e \in DOMAIN rows /\ f \in DOMAIN rows
    BY <1>3, RowsStay DEF Visible
  <2>1. rows[e] = rows[f]
    BY <1>3, <2>0 DEF TableInv, RowsAgree
  <2>2. \A t : e \in RowsOf(t) <=> f \in RowsOf(t)
    BY <1>3 DEF RowsOf
  <2>3. ASSUME NEW g \in Event, SaveEvent(g)
        PROVE  rows'[e] = rows'[f]
    BY <2>0, <2>1, <2>3, SaveEventRows
  <2>4. ASSUME NEW t \in Tx, Finalize(t)
        PROVE  rows'[e] = rows'[f]
    <3>1. \A h \in DOMAIN rows :
            rows'[h] = IF h \in RowsOf(t) THEN [rows[h] EXCEPT !.final = TRUE] ELSE rows[h]
      BY <2>4, FinalizeRows
    <3> QED
      BY <2>0, <2>1, <2>2, <3>1
  <2>5. ASSUME NEW t \in Tx, RollbackRows(t)
        PROVE  rows'[e] = rows'[f]
    <3>1. \A h \in DOMAIN rows :
            rows'[h] = IF TxOf[h] = t THEN [rows[h] EXCEPT !.live = FALSE] ELSE rows[h]
      BY <2>5, RollbackRowsRows
    <3> QED
      BY <2>0, <2>1, <3>1
  <2>6. ASSUME NEW w \in Worker, BumpRetries(w)
        PROVE  rows'[e] = rows'[f]
    BY <2>0, <2>1, <2>2, <2>6, CountRetryRows DEF BumpRetries, CountRetry
  <2>7. ASSUME NEW w \in Worker, MarkRetrying(w)
        PROVE  rows'[e] = rows'[f]
    BY <2>0, <2>1, <2>2, <2>7, SetStatusRows DEF MarkRetrying, SetStatus, Status
  <2>8. ASSUME NEW w \in Worker, MarkOutcome(w)
        PROVE  rows'[e] = rows'[f]
    BY <2>0, <2>1, <2>2, <2>8, OutcomeRows DEF MarkOutcome, SetStatus
  <2>9. CASE UNCHANGED rows
    BY <2>1, <2>9
  <2> QED
    BY <2>3, <2>4, <2>5, <2>6, <2>7, <2>8, <2>9, RowSteps
<1> QED
  BY <1>2, <1>3

\* The workers write no row that is not final.
LEMMA HeldRowsAreFinal ==
  ASSUME TypeOK, TableInv, HeldIsFinal, NEW w \in Worker, NEW e \in RowsOf(current[w]),
         TxOf[e] \notin disturbed
  PROVE  rows[e].final
<1>1. current[w] = TxOf[e] /\ TxOf[e] \in Hands(w) /\ e \in Visible
  BY CurrentIsHeld DEF RowsOf
<1>2. PICK f \in RowsOf(TxOf[e]) : rows[f].final
  BY <1>1 DEF HeldIsFinal
<1>3. f \in Visible /\ TxOf[f] = TxOf[e]
  BY <1>2 DEF RowsOf
<1> QED
  BY <1>1, <1>2, <1>3 DEF TableInv, RowsAgree

LEMMA TableInvStep ==
  ASSUME TypeOK, TableInv, HeldIsFinal, [Next]_vars
  PROVE  TableInv'
<1>1. RowsAgree'
  BY AgreeStep
<1>2. UntouchedUntilFinal'
  <2> SUFFICES ASSUME NEW e \in Visible', TxOf[e] \notin disturbed', ~rows'[e].final
               PROVE  rows'[e].status = "pending" /\ rows'[e].retries = 0
    BY DEF UntouchedUntilFinal
  <2>1. CASE e \notin Visible
    BY <2>1, RowsStay
  <2>2. CASE e \in Visible
    <3>0. TxOf[e] \notin disturbed /\ ~rows[e].final /\ e \in DOMAIN rows
      BY <2>2, RowsStay DEF Visible
    <3>1. rows[e].status = "pending" /\ rows[e].retries = 0
      BY <2>2, <3>0 DEF TableInv, UntouchedUntilFinal
    <3>2. \A w \in Worker : e \notin RowsOf(current[w])
      BY <3>0, HeldRowsAreFinal DEF RowsOf
    <3>3. ASSUME NEW g \in Event, SaveEvent(g)
          PROVE  rows'[e] = rows[e]
      BY <3>0, <3>3, SaveEventRows
    <3>4. ASSUME NEW t \in Tx, Finalize(t) \/ RollbackRows(t)
          PROVE  rows'[e].status = rows[e].status /\ rows'[e].retries = rows[e].retries
      BY <3>0, <3>4, FinalizeRows, RollbackRowsRows
    <3>5. ASSUME NEW w \in Worker, BumpRetries(w) \/ MarkRetrying(w) \/ MarkOutcome(w)
          PROVE  rows'[e] = rows[e]
      BY <3>0, <3>2, <3>5, CountRetryRows, SetStatusRows, OutcomeRows
         DEF BumpRetries, MarkRetrying, Status
    <3> QED
      BY <3>1, <3>3, <3>4, <3>5, RowSteps
  <2> QED
    BY <2>1, <2>2
<1> QED
  BY <1>1, <1>2 DEF TableInv

\* Hands only grow when a batch is selected, and lose what they are through with.
LEMMA HandsStep ==
  ASSUME TypeOK, HandsMatchPhases, [Next]_vars
  PROVE  \A w \in Worker : ~Select(w) => Hands(w)' \subseteq Hands(w)
<1> USE DEF Hands
<1>1. CASE UNCHANGED work
  BY <1>1 DEF work
<1>2. CASE TableStep \/ UNCHANGED vars
  BY <1>1, <1>2 DEF TableStep, SaveEvent, Finalize, SendRollbackNotices, RollbackRows,
                    RollbackFails, vars, work
<1>3. ASSUME NEW w \in Worker, NEW t \in Tx, TakeTx(w, t)
      PROVE  \A v \in Worker : Hands(v)' \subseteq Hands(v)
  BY <1>3 DEF TakeTx, TypeOK
<1>4. ASSUME NEW w \in Worker, Drop(w)
      PROVE  \A v \in Worker : Hands(v)' \subseteq Hands(v)
  BY <1>4, DropTyped DEF TypeOK
<1>5. ASSUME NEW w \in Worker,
             \/ BatchDone(w) \/ BumpRetries(w) \/ MarkRetrying(w) \/ MarkOutcome(w)
             \/ ReadEvents(w) \/ Conclude(w) \/ StatementFails(w) \/ \E e \in Event : Notify(w, e)
      PROVE  \A v \in Worker : Hands(v)' \subseteq Hands(v)
  BY <1>4, <1>5 DEF BatchDone, BumpRetries, MarkRetrying, MarkOutcome, ReadEvents, Conclude,
                    StatementFails, Notify
<1>6. ASSUME NEW w \in Worker, Select(w)
      PROVE  \A v \in Worker : v # w => Hands(v)' = Hands(v)
  BY <1>6 DEF Select, TypeOK
<1>7. CASE Restart
  BY <1>7 DEF Restart
<1> QED
  BY <1>2, <1>3, <1>5, <1>6, <1>7 DEF Next, WorkerStep

LEMMA SelectedHands ==
  ASSUME TypeOK, HandsMatchPhases, NEW w \in Worker, Select(w)
  PROVE  /\ UNCHANGED rows
         /\ \A t \in Hands(w)' : \E e \in Visible : TxOf[e] = t /\ Wanted(w, e)
BY NotifyAssumption DEF Select, Hands, At, HandsMatchPhases, TypeOK, Visible

LEMMA HeldStep ==
  ASSUME ExclInv, [Next]_vars
  PROVE  HeldIsFinal' /\ HeldIsClaimed'
<1> USE DEF ExclInv, HandsInv, TableInv
<1>0. ASSUME NEW w \in Worker, Select(w)
      PROVE  /\ \A t \in Hands(w)' : \E e \in RowsOf(t)' :
                   rows'[e].final /\ rows'[e].status \in Claimed(w)
             /\ UNCHANGED <<rows, disturbed>>
  <2>1. \A e \in Visible : Wanted(w, e) => rows[e].final /\ rows[e].status \in Claimed(w)
    BY DEF Wanted, Claimed
  <2>2. UNCHANGED <<rows, disturbed>>
    BY <1>0 DEF Select, scan
  <2>3. \A t : RowsOf(t)' = RowsOf(t)
    BY <2>2 DEF RowsOf, Visible
  <2>4. \A t \in Hands(w)' : \E e \in Visible : TxOf[e] = t /\ Wanted(w, e)
    BY <1>0, SelectedHands
  <2> QED
    BY <2>1, <2>2, <2>3, <2>4 DEF RowsOf
<1>1. ASSUME NEW w \in Worker, Select(w), NEW e \in Visible',
             TxOf[e] \in Hands(w)' \ disturbed'
      PROVE  rows'[e].status \in Claimed(w)
  <2>1. PICK f \in RowsOf(TxOf[e])' : rows'[f].status \in Claimed(w)
    BY <1>0, <1>1
  <2>2. /\ f \in Visible /\ e \in Visible /\ TxOf[f] = TxOf[e] /\ TxOf[e] \notin disturbed
        /\ UNCHANGED rows
    BY <1>0, <1>1, <2>1 DEF RowsOf, Visible
  <2> QED
    BY <2>1, <2>2 DEF RowsAgree
<1>2. ASSUME NEW w \in Worker, Hands(w)' \subseteq Hands(w), NEW t \in Hands(w)' \ disturbed'
      PROVE  /\ t \notin disturbed /\ \E e \in RowsOf(t)' : rows'[e].final
             /\ \E e \in RowsOf(t) : rows[e].final
             /\ ~RollbackRows(t)
  <2>0. t \in Tx
    <3>1. \A v \in Worker : Hands(v) \subseteq Tx
      BY DEF Hands, TypeOK
    <3> QED
      BY <1>2, <3>1
  <2>1. ~RollbackRows(t)
    <3>1. t \in Hands(w)
      BY <1>2
    <3> QED
      BY <1>2, <2>0, <3>1, RollbackDisturbs
  <2>2. t \notin disturbed
    BY <1>2, <2>0, <2>1, DisturbedSteps, SaveEventRows, RollbackDisturbs
  <2>3. PICK e \in RowsOf(t) : rows[e].final
    BY <1>2, <2>2 DEF HeldIsFinal
  <2>4. e \in Visible /\ TxOf[e] = t
    BY <2>3 DEF RowsOf
  <2>5. e \in Visible' /\ rows'[e].final
    BY <2>1, <2>3, <2>4, FinalStays
  <2> QED
    BY <2>1, <2>2, <2>3, <2>4, <2>5 DEF RowsOf
<1>3. HeldIsFinal'
  BY <1>0, <1>2, HandsStep DEF HeldIsFinal
<1>4. ASSUME NEW w \in Worker, Hands(w)' \subseteq Hands(w),
             NEW e \in Visible', TxOf[e] \in Hands(w)' \ disturbed'
      PROVE  rows'[e].status \in Claimed(w)
  <2>0. TxOf[e] \notin disturbed /\ \E f \in RowsOf(TxOf[e]) : rows[f].final
    BY <1>2, <1>4
  <2>1. e \in Visible /\ e \in DOMAIN rows /\ TxOf[e] \in Hands(w)
    BY <1>4, <2>0, RowsStay DEF Visible
  <2>2. rows[e].status \in Claimed(w)
    BY <2>0, <2>1 DEF HeldIsClaimed
  <2>3. ASSUME NEW g \in Event, SaveEvent(g)
        PROVE  rows'[e].status \in Claimed(w)
    BY <2>1, <2>2, <2>3, SaveEventRows
  <2>4. ASSUME NEW t \in Tx, Finalize(t) \/ RollbackRows(t)
        PROVE  rows'[e].status \in Claimed(w)
    BY <2>1, <2>2, <2>4, FinalizeRows, RollbackRowsRows
  <2>5. ASSUME NEW v \in Worker, BumpRetries(v)
        PROVE  rows'[e].status \in Claimed(w)
    BY <2>1, <2>2, <2>5, CountRetryRows DEF BumpRetries
  <2>6. ASSUME NEW v \in Worker, v # w
        PROVE  e \notin RowsOf(current[v])
    BY <2>0, <2>1, <2>6, CurrentIsHeld, HandsDisjoint DEF Worker
  <2>7. ASSUME NEW v \in Worker, MarkRetrying(v)
        PROVE  rows'[e].status \in Claimed(w)
    <3>1. v = "retry"
      BY <2>7 DEF MarkRetrying, At, OnlyRetryMarks, Worker
    <3>2. CASE w = v
      BY <2>1, <2>2, <2>7, <3>1, <3>2, SetStatusRows DEF MarkRetrying, Status, Claimed
    <3>3. CASE w # v
      BY <2>1, <2>2, <2>6, <2>7, <3>3, SetStatusRows DEF MarkRetrying, Status
    <3> QED
      BY <3>2, <3>3
  <2>8. ASSUME NEW v \in Worker, MarkOutcome(v)
        PROVE  rows'[e].status \in Claimed(w)
    <3>1. ASSUME w = v
          PROVE  e \notin RowsOf(current[v])
      <4>1. Hands(v)' \subseteq batch[v]
        BY <2>8, DropTyped DEF MarkOutcome, Hands, TypeOK
      <4> QED
        BY <1>4, <3>1, <4>1, CurrentIsHeld DEF TakenOnce
    <3> QED
      BY <2>1, <2>2, <2>6, <2>8, <3>1, OutcomeRows
  <2> QED
    BY <2>1, <2>2, <2>3, <2>4, <2>5, <2>7, <2>8, RowSteps
<1> QED
  BY <1>1, <1>3, <1>4, HandsStep DEF HeldIsClaimed

LEMMA ChoiceStep ==
  ASSUME ExclInv, [Next]_vars
  PROVE  TakenOnce' /\ OnlyRetryMarks'
<1> USE DEF TakenOnce, OnlyRetryMarks
<1>0. TypeOK /\ HandsMatchPhases /\ TakenOnce /\ OnlyRetryMarks
  BY DEF ExclInv, HandsInv
<1>1. CASE UNCHANGED work
  BY <1>0, <1>1 DEF work
<1>2. CASE TableStep \/ UNCHANGED vars
  BY <1>1, <1>2 DEF TableStep, SaveEvent, Finalize, SendRollbackNotices, RollbackRows,
                    RollbackFails, vars, work
<1>3. ASSUME NEW w \in Worker, NEW t \in Tx, TakeTx(w, t)
      PROVE  TakenOnce' /\ OnlyRetryMarks'
  BY <1>0, <1>3 DEF TakeTx, Go, TypeOK, Worker
<1>4. ASSUME NEW w \in Worker, Drop(w)
      PROVE  TakenOnce' /\ OnlyRetryMarks'
  BY <1>0, <1>4, DropTyped, NotifyAssumption DEF TypeOK, Worker
<1>5. ASSUME NEW w \in Worker, MarkOutcome(w) \/ StatementFails(w)
      PROVE  TakenOnce' /\ OnlyRetryMarks'
  BY <1>4, <1>5 DEF MarkOutcome, StatementFails
<1>6. ASSUME NEW w \in Worker, ReadEvents(w)
      PROVE  TakenOnce' /\ OnlyRetryMarks'
  BY <1>0, <1>4, <1>6 DEF ReadEvents, Go, TypeOK, Worker
<1>7. ASSUME NEW w \in Worker,
             \/ BatchDone(w) \/ BumpRetries(w) \/ MarkRetrying(w) \/ Conclude(w)
             \/ \E e \in Event : Notify(w, e)
      PROVE  TakenOnce' /\ OnlyRetryMarks'
  BY <1>0, <1>7 DEF BatchDone, BumpRetries, MarkRetrying, Conclude, Notify, Go, At, TypeOK, Worker
<1>8. ASSUME NEW w \in Worker, Select(w)
      PROVE  TakenOnce' /\ OnlyRetryMarks'
  <2>1. current[w] = NoTx /\ NoTx \notin batch'[w]
    BY <1>0, <1>8, NotifyAssumption DEF Select, At, HandsMatchPhases, TypeOK, Visible
  <2> QED
    BY <1>0, <1>8, <2>1 DEF Select, Go, TypeOK
<1>9. CASE Restart
  BY <1>9 DEF Restart, Worker
<1> QED
  BY <1>2, <1>3, <1>5, <1>6, <1>7, <1>8, <1>9 DEF Next, WorkerStep

\* The inductive invariant of the workers and the table.
AllInv == ExclInv /\ Locals

LEMMA InitAllInv == Init => AllInv
BY InitTyped DEF Init, AllInv, ExclInv, Locals, HandsMatchPhases, UnsentIsCurrents,
  SuccessIsDelivery, DoneIsSuccess, TableInv, RowsAgree, Visible, UntouchedUntilFinal,
  HandsInv, HeldIsFinal, HeldIsClaimed, TakenOnce, OnlyRetryMarks, Hands, Worker

LEMMA NextAllInv == AllInv /\ [Next]_vars => AllInv'
<1> SUFFICES ASSUME AllInv, [Next]_vars
             PROVE  AllInv'
  OBVIOUS
<1>1. TypeOK' /\ Locals'
  BY NextTyped, LocalsStep DEF AllInv, ExclInv
<1>2. TableInv'
  BY TableInvStep DEF AllInv, ExclInv, HandsInv
<1>3. HandsInv'
  BY HeldStep, ChoiceStep DEF AllInv, HandsInv
<1> QED
  BY <1>1, <1>2, <1>3 DEF AllInv, ExclInv, Locals

LEMMA AlwaysAllInv == Spec => []AllInv
<1> QED
  BY InitAllInv, NextAllInv, PTL DEF Spec

\* Nothing but the status column keeps the two workers from sending the same
\* transaction, and as long as its rows are of one piece it does.
THEOREM HandsAreExclusive == Spec => []ExclusiveHands
<1>1. AllInv => ExclusiveHands
  <2> SUFFICES ASSUME AllInv, current["pending"] \notin disturbed \cup {NoTx},
                      current["pending"] = current["retry"]
               PROVE  FALSE
    BY DEF ExclusiveHands
  <2>1. current["pending"] \in Hands("pending") /\ current["pending"] \in Hands("retry")
    BY DEF Hands
  <2> QED
    BY <2>1, HandsDisjoint DEF AllInv, ExclInv, HandsInv
<1> QED
  BY <1>1, AlwaysAllInv, PTL

LEMMA NotifiedStays ==
  ASSUME AllInv, [Next]_vars, NEW e \in DOMAIN rows, rows[e].status = "notified",
         TxOf[e] \notin disturbed
  PROVE  rows'[e].status = "notified"
<1>0. TypeOK
  BY DEF AllInv, ExclInv
<1>1. ASSUME NEW w \in Worker
      PROVE  e \notin RowsOf(current[w])
  <2> SUFFICES ASSUME e \in RowsOf(current[w])
               PROVE  FALSE
    OBVIOUS
  <2>1. e \in Visible /\ TxOf[e] \in Hands(w)
    BY <1>0, CurrentIsHeld DEF RowsOf
  <2> QED
    BY <2>1 DEF AllInv, ExclInv, HandsInv, HeldIsClaimed, Claimed
<1>2. ASSUME NEW f \in Event, SaveEvent(f)
      PROVE  rows'[e].status = "notified"
  BY <1>0, <1>2, SaveEventRows
<1>3. ASSUME NEW t \in Tx, Finalize(t) \/ RollbackRows(t)
      PROVE  rows'[e].status = "notified"
  BY <1>0, <1>3, FinalizeRows, RollbackRowsRows
<1>4. ASSUME NEW w \in Worker, BumpRetries(w) \/ MarkRetrying(w) \/ MarkOutcome(w)
      PROVE  rows'[e].status = "notified"
  BY <1>0, <1>1, <1>4, CountRetryRows, SetStatusRows, OutcomeRows
     DEF BumpRetries, MarkRetrying, Status
<1> QED
  BY <1>2, <1>3, <1>4, RowSteps

\* What is notified stays notified while its transaction is undisturbed, so no worker
\* takes it up again.
THEOREM NotifiedForGood == Spec => NotifiedIsFinal
<1>1. AllInv /\ [Next]_vars =>
        [\A e \in DOMAIN rows :
            rows[e].status = "notified" /\ TxOf[e] \notin disturbed => rows'[e].status = "notified"]_vars
  BY NotifiedStays
<1> QED
  BY <1>1, AlwaysAllInv, PTL DEF Spec, NotifiedIsFinal

------------------------------------------------------------------------------
(* Every event of a notified transaction was handed to the notifier. *)

\* A step is a worker's own, or leaves its locals alone, or ends the process.
LEMMA OthersStay ==
  ASSUME TypeOK, [Next]_vars, NEW w \in Worker
  PROVE  \/ WorkerStep(w) \/ StatementFails(w) \/ Restart
         \/ /\ phase'[w] = phase[w] /\ batch'[w] = batch[w] /\ current'[w] = current[w]
            /\ unsent'[w] = unsent[w]
<1> DEFINE Same == /\ phase'[w] = phase[w] /\ batch'[w] = batch[w] /\ current'[w] = current[w]
                   /\ unsent'[w] = unsent[w]
<1>1. CASE TableStep \/ UNCHANGED vars
  BY <1>1 DEF TableStep, SaveEvent, Finalize, SendRollbackNotices, RollbackRows,
              RollbackFails, vars, work
<1>2. ASSUME NEW v \in Worker, v # w, Drop(v)
      PROVE  Same
  BY <1>2, DropTyped DEF TypeOK
<1>3. ASSUME NEW v \in Worker, v # w, NEW t \in Tx, TakeTx(v, t)
      PROVE  Same
  BY <1>3 DEF TakeTx, Go, TypeOK
<1>4. ASSUME NEW v \in Worker, v # w,
             \/ Select(v) \/ BatchDone(v) \/ BumpRetries(v) \/ MarkRetrying(v)
             \/ Conclude(v) \/ \E e \in Event : Notify(v, e)
      PROVE  Same
  BY <1>4 DEF Select, BatchDone, BumpRetries, MarkRetrying, Conclude, Notify, Go, TypeOK
<1>5. ASSUME NEW v \in Worker, v # w, ReadEvents(v)
      PROVE  Same
  BY <1>2, <1>5 DEF ReadEvents, Go, TypeOK
<1>6. ASSUME NEW v \in Worker, v # w, MarkOutcome(v) \/ StatementFails(v)
      PROVE  Same
  BY <1>2, <1>6 DEF MarkOutcome, StatementFails
<1> QED
  BY <1>1, <1>3, <1>4, <1>5, <1>6 DEF Next, WorkerStep

\* No row joins an undisturbed transaction while a worker has it in hand.
LEMMA HeldRowsShrink ==
  ASSUME AllInv, [Next]_vars, NEW w \in Worker, current'[w] = current[w],
         current[w] \notin disturbed'
  PROVE  RowsOf(current[w])' \subseteq RowsOf(current[w])
<1>0. TypeOK /\ HeldIsFinal
  BY DEF AllInv, ExclInv, HandsInv
<1> SUFFICES ASSUME NEW e \in RowsOf(current[w])', e \notin Visible
             PROVE  FALSE
  BY DEF RowsOf
<1>1. TxOf[e] = current[w] /\ e \in Visible'
  BY DEF RowsOf
<1>2. /\ e \in Event /\ TxOf[e] \notin disturbed
      /\ \A f \in RowsOf(TxOf[e]) : ~rows[f].final
  BY <1>0, <1>1, RowsStay
<1>3. TxOf[e] \in Hands(w)
  BY <1>1, <1>2, NotifyAssumption DEF Hands
<1> QED
  BY <1>0, <1>2, <1>3 DEF HeldIsFinal

\* A transaction in hand is only disturbed, never quietened.
LEMMA HeldStaysDisturbed ==
  ASSUME AllInv, [Next]_vars, NEW w \in Worker, current'[w] = current[w],
         current[w] \notin disturbed'
  PROVE  current[w] \notin disturbed
<1>0. TypeOK
  BY DEF AllInv, ExclInv
<1>1. ASSUME NEW t \in Tx, RollbackRows(t)
      PROVE  current[w] \notin disturbed
  <2>1. t # current[w]
    BY <1>0, <1>1, RollbackDisturbs, NotifyAssumption DEF Hands
  <2> QED
    BY <1>0, <1>1, <2>1, RollbackDisturbs
<1> QED
  BY <1>0, <1>1, DisturbedSteps, SaveEventRows

LEMMA SentStep ==
  ASSUME AllInv, SentWasTried, [Next]_vars
  PROVE  SentWasTried'
<1>0. TypeOK /\ UnsentIsCurrents
  BY DEF AllInv, ExclInv
<1> SUFFICES ASSUME NEW w \in Worker, phase'[w] \in SentPhases
             PROVE  /\ current'[w] \notin disturbed' => RowsOf(current[w])' \ unsent'[w] \subseteq tried'
                    /\ phase'[w] # "send" => unsent'[w] = {}
  BY DEF SentWasTried
<1> DEFINE Quiet == current'[w] \notin disturbed'
           Goal == /\ Quiet => RowsOf(current[w])' \ unsent'[w] \subseteq tried'
                   /\ phase'[w] # "send" => unsent'[w] = {}
<1>1. tried \subseteq tried'
  BY HistoryGrows
<1>2. current'[w] = current[w] /\ Quiet =>
        RowsOf(current[w])' \subseteq RowsOf(current[w]) /\ current[w] \notin disturbed
  BY HeldRowsShrink, HeldStaysDisturbed
<1>3. phase[w] \in SentPhases =>
        /\ current[w] \notin disturbed => RowsOf(current[w]) \ unsent[w] \subseteq tried
        /\ phase[w] # "send" => unsent[w] = {}
  BY DEF SentWasTried
<1>4. ASSUME phase'[w] = phase[w], current'[w] = current[w], unsent'[w] = unsent[w]
      PROVE  Goal
  BY <1>1, <1>2, <1>3, <1>4
<1>5. ASSUME Select(w) \/ BatchDone(w) \/ MarkRetrying(w) \/ (\E t \in Tx : TakeTx(w, t)) \/ Drop(w)
      PROVE  FALSE
  BY <1>0, <1>5, DropTyped DEF Select, BatchDone, MarkRetrying, TakeTx, Go, TypeOK, SentPhases
<1>6. CASE MarkOutcome(w) \/ StatementFails(w) \/ Restart
  BY <1>5, <1>6 DEF MarkOutcome, StatementFails, Restart, SentPhases
<1>7. CASE ReadEvents(w)
  <2>1. RowsOf(current[w]) # {}
    BY <1>5, <1>7 DEF ReadEvents
  <2>2. phase'[w] = "send" /\ unsent'[w] = RowsOf(current[w]) /\ current'[w] = current[w]
    BY <1>0, <1>7, <2>1 DEF ReadEvents, Go, TypeOK
  <2> QED
    BY <1>2, <2>2
<1>8. ASSUME NEW e \in Event, Notify(w, e)
      PROVE  Goal
  <2>1. /\ phase'[w] = "send" /\ phase[w] = "send" /\ current'[w] = current[w]
        /\ unsent'[w] = unsent[w] \ {e} /\ tried' = tried \cup {e}
    BY <1>0, <1>8 DEF Notify, At, TypeOK
  <2> QED
    BY <1>2, <1>3, <2>1 DEF SentPhases
<1>9. CASE Conclude(w) \/ BumpRetries(w)
  <2>1. /\ phase[w] \in SentPhases /\ current'[w] = current[w] /\ unsent'[w] = unsent[w]
        /\ unsent[w] = {}
    BY <1>0, <1>3, <1>9 DEF Conclude, BumpRetries, Go, At, TypeOK, SentPhases
  <2> QED
    BY <1>1, <1>2, <1>3, <2>1
<1> QED
  BY <1>0, <1>4, <1>5, <1>6, <1>7, <1>8, <1>9, OthersStay DEF WorkerStep

\* Every event of an undisturbed transaction that is marked notified was handed to the
\* notifier itself.
THEOREM NotifiedWereTried == Spec => []NotifiedWasTried
<1> DEFINE TInv == SentWasTried /\ NotifiedWasTried
<1>1. Init => TInv
  BY DEF Init, SentWasTried, NotifiedWasTried, Visible, SentPhases
<1>2. TInv /\ AllInv /\ [Next]_vars => TInv'
  <2> SUFFICES ASSUME TInv, AllInv, [Next]_vars
               PROVE  TInv'
    OBVIOUS
  <2>1. SentWasTried'
    BY SentStep
  <2>2. ASSUME NEW e \in Visible', rows'[e].status = "notified", TxOf[e] \notin disturbed'
        PROVE  e \in tried
    <3>0. TypeOK /\ e \in DOMAIN rows'
      BY DEF AllInv, ExclInv, Visible
    <3>1. e \in Visible /\ TxOf[e] \notin disturbed
      BY <2>2, <3>0, RowsStay
    <3>2. CASE e \in DOMAIN rows /\ rows[e].status = "notified"
      BY <3>1, <3>2 DEF NotifiedWasTried
    <3>3. CASE \E w \in Worker : phase[w] = "markDone" /\ e \in RowsOf(current[w])
      <4>1. PICK w \in Worker : phase[w] = "markDone" /\ e \in RowsOf(current[w])
        BY <3>3
      <4>2. current[w] = TxOf[e]
        BY <4>1 DEF RowsOf
      <4> QED
        BY <3>1, <4>1, <4>2 DEF SentWasTried, SentPhases
    <3> QED
      BY <2>2, <3>0, <3>2, <3>3, NotifiedOrigin
  <2> QED
    BY <2>1, <2>2, HistoryGrows DEF NotifiedWasTried
<1> QED
  BY <1>1, <1>2, AlwaysAllInv, PTL DEF Spec

------------------------------------------------------------------------------
(* The account of attempts and retries. *)

LEMMA LostGrows ==
  ASSUME TypeOK, [Next]_vars
  PROVE  Lost \in Nat /\ Lost' \in Nat /\ Lost <= Lost'
<1>1. TypeOK'
  BY NextTyped
<1>2. ASSUME NEW w \in Worker, WorkerStep(w)
      PROVE  faults' = faults /\ restarts' = restarts
  BY <1>2 DEF WorkerStep, Select, BatchDone, BumpRetries, MarkRetrying, MarkOutcome, ReadEvents,
              Conclude, TakeTx, Notify, NoFault
<1>3. ASSUME NEW w \in Worker, StatementFails(w)
      PROVE  faults' = faults + 1 /\ restarts' = restarts
  BY <1>3 DEF StatementFails, Fault
<1>4. CASE TableStep
  <2>1. restarts' = restarts /\ (Fault \/ NoFault)
    BY <1>4 DEF TableStep, SaveEvent, Finalize, SendRollbackNotices, RollbackRows, RollbackFails
  <2> QED
    BY <1>1, <2>1, FaultTyped, NotifyAssumption DEF TypeOK, Lost
<1>5. CASE Restart
  BY <1>1, <1>5, NotifyAssumption DEF Restart, NoFault, TypeOK, Lost
<1>6. CASE UNCHANGED vars
  BY <1>1, <1>6, NotifyAssumption DEF vars, TypeOK, Lost
<1> QED
  BY <1>1, <1>2, <1>3, <1>4, <1>5, <1>6, NotifyAssumption DEF Next, TypeOK, Lost

\* Only GetEventsByTxHash begins an attempt, and a rollback starts the count again.
LEMMA AttemptsSteps ==
  [Next]_vars =>
    \/ UNCHANGED attempts
    \/ \E w \in Worker : ReadEvents(w)
    \/ \E t \in Tx : RollbackRows(t)
<1>1. ASSUME NEW w \in Worker,
             \/ Select(w) \/ BatchDone(w) \/ BumpRetries(w) \/ MarkRetrying(w) \/ MarkOutcome(w)
             \/ Conclude(w) \/ StatementFails(w) \/ (\E t \in Tx : TakeTx(w, t))
             \/ \E e \in Event : Notify(w, e)
      PROVE  UNCHANGED attempts
  BY <1>1 DEF Select, BatchDone, BumpRetries, MarkRetrying, MarkOutcome, Conclude,
              StatementFails, TakeTx, Notify, world
<1>2. CASE \E e \in Event : SaveEvent(e)
  BY <1>2 DEF SaveEvent, world
<1>3. CASE \E t \in Tx : Finalize(t) \/ SendRollbackNotices(t) \/ RollbackFails(t)
  BY <1>3 DEF Finalize, SendRollbackNotices, RollbackFails, world
<1>4. CASE Restart \/ UNCHANGED vars
  BY <1>4 DEF Restart, world, vars
<1> QED
  BY <1>1, <1>2, <1>3, <1>4 DEF Next, TableStep, WorkerStep

\* What matters of a row's transaction to its account.
SameAccount(e) ==
  /\ rows'[e].status = rows[e].status /\ rows'[e].retries = rows[e].retries
  /\ attempts'[TxOf[e]] = attempts[TxOf[e]]
  /\ \A places \in {SentPhases, {"markFail"}} :
       On("pending", e, places)' <=> On("pending", e, places)
  /\ \A places \in {{"markRetry", "read"}, {"send", "bumpFail", "markDone"}, {"markFail"}} :
       On("retry", e, places)' <=> On("retry", e, places)
  /\ TxOf[e] \in Hands("retry")' => TxOf[e] \in Hands("retry")

LEMMA RowNumbers ==
  ASSUME TypeOK, NEW e \in Visible
  PROVE  /\ e \in DOMAIN rows /\ e \in Event /\ TxOf[e] \in Tx /\ TxOf[e] # NoTx
         /\ rows[e].retries \in Nat /\ attempts[TxOf[e]] \in Nat /\ rows[e].status \in Status
         /\ rows[e].live
BY NotifyAssumption DEF TypeOK, Visible, Row

\* A loss makes an account easier to keep.
LEMMA AccountFrame ==
  ASSUME TypeOK, [Next]_vars, NEW e \in Visible, AccountOf(e), SameAccount(e)
  PROVE  AccountOf(e)'
<1> DEFINE a == attempts[TxOf[e]]
           r == rows[e].retries
           l == Lost
           m == Lost'
<1>1. a \in Nat /\ r \in Nat /\ l \in Nat /\ m \in Nat /\ l <= m
  BY RowNumbers, LostGrows
<1>2. RetryLimit \in Nat
  BY NotifyAssumption
<1>3. FirstAccount(e) => FirstAccount(e)'
  <2>1. CASE On("pending", e, SentPhases)
    BY <1>1, <2>1 DEF FirstAccount, SameAccount
  <2>2. CASE ~On("pending", e, SentPhases)
    BY <1>1, <2>2 DEF FirstAccount, SameAccount
  <2> QED
    BY <2>1, <2>2
<1>4. RetryAccount(e) => RetryAccount(e)'
  <2>1. CASE On("retry", e, {"markRetry", "read"})
    BY <1>1, <1>2, <2>1 DEF RetryAccount, SameAccount
  <2>2. CASE ~On("retry", e, {"markRetry", "read"}) /\ On("retry", e, {"send", "bumpFail", "markDone"})
    BY <1>1, <1>2, <2>2 DEF RetryAccount, SameAccount
  <2>3. CASE ~On("retry", e, {"markRetry", "read"}) /\ ~On("retry", e, {"send", "bumpFail", "markDone"})
    BY <1>1, <1>2, <2>3 DEF RetryAccount, SameAccount
  <2> QED
    BY <2>1, <2>2, <2>3
<1> QED
  BY <1>3, <1>4 DEF AccountOf, SameAccount

\* The worker that has a transaction in hand knows its status.
LEMMA StatusInHand ==
  ASSUME AllInv, NEW e \in Visible, TxOf[e] \notin disturbed
  PROVE  /\ current["pending"] = TxOf[e] => rows[e].status = "pending"
         /\ TxOf[e] \in Hands("retry") => rows[e].status \in {"failed", "retrying"}
         /\ current["retry"] = TxOf[e] => TxOf[e] \in Hands("retry") /\ TxOf[e] \notin batch["retry"]
         /\ \A w \in Worker : e \in RowsOf(current[w]) <=> current[w] = TxOf[e]
<1>1. e \in DOMAIN rows /\ TxOf[e] # NoTx
  BY RowNumbers DEF AllInv, ExclInv
<1> QED
  BY <1>1 DEF AllInv, ExclInv, HandsInv, HeldIsClaimed, Claimed, Hands, TakenOnce, Worker, RowsOf

\* Leaving a transaction, or doing anything with another one, is no concern of e's account.
LEMMA DroppedElsewhere ==
  ASSUME AllInv, NEW e \in Visible, NEW w \in Worker, Drop(w), current[w] # TxOf[e],
         rows'[e] = rows[e], attempts'[TxOf[e]] = attempts[TxOf[e]]
  PROVE  SameAccount(e)
<1>1. TypeOK /\ TxOf[e] # NoTx
  BY RowNumbers DEF AllInv, ExclInv
<1>2. \A v \in Worker : \A places : On(v, e, places)' <=> On(v, e, places)
  BY <1>1, DropTyped DEF TypeOK, On
<1>3. Hands("retry")' \subseteq Hands("retry")
  BY <1>1, DropTyped DEF TypeOK, Hands, Worker
<1> QED
  BY <1>2, <1>3 DEF SameAccount, Worker

LEMMA GoneElsewhere ==
  ASSUME AllInv, NEW e \in Visible, NEW w \in Worker, NEW p, Go(w, p), current[w] # TxOf[e],
         UNCHANGED <<batch, current>>,
         rows'[e] = rows[e], attempts'[TxOf[e]] = attempts[TxOf[e]]
  PROVE  SameAccount(e)
<1>1. TypeOK
  BY DEF AllInv, ExclInv
<1>2. \A v \in Worker : \A places : On(v, e, places)' <=> On(v, e, places)
  BY <1>1 DEF TypeOK, Go, On
<1> QED
  BY <1>2 DEF SameAccount, Worker, Hands

LEMMA BumpAccount ==
  ASSUME AllInv, [Next]_vars, NEW e \in Visible, AccountOf(e),
         TxOf[e] \notin disturbed, NEW w \in Worker, BumpRetries(w)
  PROVE  AccountOf(e)'
<1> DEFINE a == attempts[TxOf[e]]
           r == rows[e].retries
           l == Lost
<1>0. TypeOK /\ OnlyRetryMarks
  BY DEF AllInv, ExclInv, HandsInv
<1>1. a \in Nat /\ r \in Nat /\ l \in Nat /\ RetryLimit \in Nat /\ e \in DOMAIN rows
  BY <1>0, RowNumbers, LostGrows, NotifyAssumption
<1>2. /\ UNCHANGED <<batch, current, attempts, faults, restarts>>
      /\ \E p : Go(w, p)
      /\ phase' = [phase EXCEPT ![w] = IF phase[w] = "bumpRetry" THEN "markRetry" ELSE "markFail"]
      /\ phase[w] \in {"bumpRetry", "bumpFail"}
  BY DEF BumpRetries, world, NoFault, Go, At
<1>3. CASE current[w] # TxOf[e]
  <2>1. rows'[e] = rows[e]
    BY <1>0, <1>1, <1>3, CountRetryRows, StatusInHand DEF BumpRetries
  <2> QED
    BY <1>0, <1>2, <1>3, <2>1, GoneElsewhere, AccountFrame
<1>4. CASE current[w] = TxOf[e]
  <2>1. rows'[e].status = rows[e].status /\ rows'[e].retries = r + 1
    BY <1>0, <1>1, <1>4, CountRetryRows, StatusInHand DEF BumpRetries
  <2>2. attempts'[TxOf[e]] = a /\ Lost' = l /\ Hands("retry")' = Hands("retry")
    BY <1>2 DEF Lost, Hands
  <2>3. CASE w = "pending"
    <3>1. phase["pending"] = "bumpFail" /\ phase'["pending"] = "markFail"
      BY <1>0, <1>2, <2>3 DEF OnlyRetryMarks, TypeOK
    <3>2. rows[e].status = "pending"
      BY <1>4, <2>3, StatusInHand
    <3>3. FirstAccount(e)
      BY <3>2 DEF AccountOf
    <3>4. a <= l + 1 /\ r + 2 <= 2 * (a + l)
      BY <1>4, <2>3, <3>1, <3>3 DEF FirstAccount, On, SentPhases
    <3>5. On("pending", e, SentPhases)' /\ On("pending", e, {"markFail"})'
      BY <1>2, <1>4, <2>3, <3>1 DEF On, SentPhases
    <3> QED
      BY <1>1, <2>1, <2>2, <3>2, <3>4, <3>5 DEF FirstAccount, AccountOf
  <2>4. CASE w = "retry"
    <3>1. rows[e].status \in {"failed", "retrying"} /\ TxOf[e] \in Hands("retry")
      BY <1>4, <2>4, StatusInHand
    <3>2. RetryAccount(e)
      BY <3>1 DEF AccountOf
    <3>3. CASE phase["retry"] = "bumpRetry"
      <4>1. 2 * a <= r + 1 + 2 * l /\ r + 1 <= 2 * (a + l) /\ r < RetryLimit
        BY <3>1, <3>2, <3>3 DEF RetryAccount, On
      <4>2. On("retry", e, {"markRetry", "read"})'
        BY <1>0, <1>2, <1>4, <2>4, <3>3 DEF On, TypeOK
      <4> QED
        BY <1>1, <2>1, <2>2, <3>1, <4>1, <4>2 DEF RetryAccount, AccountOf
    <3>4. CASE phase["retry"] = "bumpFail"
      <4>1. 2 * a <= r + 2 + 2 * l /\ r + 2 <= 2 * (a + l)
        BY <1>4, <2>4, <3>2, <3>4 DEF RetryAccount, On
      <4>2. /\ On("retry", e, {"markFail"})' /\ ~On("retry", e, {"markRetry", "read"})'
            /\ ~On("retry", e, {"send", "bumpFail", "markDone"})'
        BY <1>0, <1>2, <1>4, <2>4, <3>4 DEF On, TypeOK
      <4> QED
        BY <1>1, <2>1, <2>2, <3>1, <4>1, <4>2 DEF RetryAccount, AccountOf
    <3> QED
      BY <1>2, <2>4, <3>3, <3>4
  <2> QED
    BY <2>3, <2>4 DEF Worker
<1> QED
  BY <1>3, <1>4

LEMMA ReadAccount ==
  ASSUME AllInv, [Next]_vars, NEW e \in Visible, AccountOf(e),
         TxOf[e] \notin disturbed, NEW w \in Worker, ReadEvents(w)
  PROVE  AccountOf(e)'
<1> DEFINE a == attempts[TxOf[e]]
           r == rows[e].retries
           l == Lost
<1>0. TypeOK
  BY DEF AllInv, ExclInv
<1>1. a \in Nat /\ r \in Nat /\ l \in Nat /\ RetryLimit \in Nat /\ TxOf[e] \in Tx
  BY <1>0, RowNumbers, LostGrows, NotifyAssumption
<1>2. UNCHANGED <<rows, faults, restarts>> /\ phase[w] = "read"
  BY DEF ReadEvents, NoFault, At
<1>3. CASE current[w] # TxOf[e]
  <2>1. CASE RowsOf(current[w]) = {}
    BY <1>0, <1>2, <1>3, <2>1, DroppedElsewhere, AccountFrame DEF ReadEvents
  <2>2. CASE RowsOf(current[w]) # {}
    <3>1. /\ attempts'[TxOf[e]] = a /\ UNCHANGED <<batch, current>>
          /\ \E p : Go(w, p)
      BY <1>0, <1>1, <1>3, <2>2 DEF ReadEvents, TypeOK
    <3> QED
      BY <1>0, <1>2, <1>3, <3>1, GoneElsewhere, AccountFrame
  <2> QED
    BY <2>1, <2>2
<1>4. CASE current[w] = TxOf[e]
  <2>1. RowsOf(current[w]) # {}
    BY <1>4, StatusInHand
  <2>2. /\ attempts'[TxOf[e]] = a + 1 /\ UNCHANGED <<batch, current>>
        /\ phase' = [phase EXCEPT ![w] = "send"]
    BY <1>0, <1>1, <1>4, <2>1 DEF ReadEvents, TypeOK, Go
  <2>3. Lost' = l /\ phase'[w] = "send"
    BY <1>0, <1>2, <2>2 DEF Lost, TypeOK
  <2>4. CASE w = "pending"
    <3>1. rows[e].status = "pending" /\ FirstAccount(e)
      BY <1>4, <2>4, StatusInHand DEF AccountOf
    <3>2. a <= l /\ r <= 2 * (a + l)
      BY <1>2, <1>4, <2>4, <3>1 DEF FirstAccount, On, SentPhases
    <3>3. On("pending", e, SentPhases)' /\ ~On("pending", e, {"markFail"})'
      BY <1>4, <2>2, <2>3, <2>4 DEF On, SentPhases
    <3> QED
      BY <1>1, <1>2, <2>2, <2>3, <3>1, <3>2, <3>3 DEF FirstAccount, AccountOf
  <2>5. CASE w = "retry"
    <3>1. rows[e].status \in {"failed", "retrying"} /\ RetryAccount(e)
      BY <1>4, <2>5, StatusInHand DEF AccountOf
    <3>2. 2 * a <= r + 2 * l /\ r <= 2 * (a + l)
      BY <1>2, <1>4, <2>5, <3>1 DEF RetryAccount, On
    <3>3. On("retry", e, {"send", "bumpFail", "markDone"})' /\ ~On("retry", e, {"markRetry", "read"})'
      BY <1>4, <2>2, <2>3, <2>5 DEF On
    <3> QED
      BY <1>1, <1>2, <2>2, <2>3, <3>1, <3>2, <3>3 DEF RetryAccount, AccountOf
  <2> QED
    BY <2>4, <2>5 DEF Worker
<1> QED
  BY <1>3, <1>4

\* Setting a status moves the account along, with no count of its own.
LEMMA MarkRetryingAccount ==
  ASSUME AllInv, [Next]_vars, NEW e \in Visible, AccountOf(e),
         TxOf[e] \notin disturbed, NEW w \in Worker, MarkRetrying(w)
  PROVE  AccountOf(e)'
<1>0. TypeOK /\ OnlyRetryMarks
  BY DEF AllInv, ExclInv, HandsInv
<1>1. e \in DOMAIN rows
  BY <1>0, RowNumbers
<1>2. /\ UNCHANGED <<batch, current, attempts, faults, restarts>> /\ Go(w, "read")
      /\ phase' = [phase EXCEPT ![w] = "read"] /\ phase[w] = "markRetry"
  BY DEF MarkRetrying, world, NoFault, Go, At
<1>3. w = "retry"
  BY <1>0, <1>2 DEF OnlyRetryMarks, Worker
<1>4. CASE current[w] # TxOf[e]
  <2>1. rows'[e] = rows[e]
    BY <1>0, <1>1, <1>4, SetStatusRows, StatusInHand DEF MarkRetrying, Status
  <2> QED
    BY <1>0, <1>2, <1>4, <2>1, GoneElsewhere, AccountFrame
<1>5. CASE current[w] = TxOf[e]
  <2>1. rows'[e].status = "retrying" /\ rows'[e].retries = rows[e].retries
    BY <1>0, <1>1, <1>5, SetStatusRows, StatusInHand DEF MarkRetrying, Status
  <2>2. attempts' = attempts /\ Lost' = Lost
    BY <1>2 DEF Lost
  <2>3. RetryAccount(e)
    BY <1>3, <1>5, StatusInHand DEF AccountOf
  <2>4. On("retry", e, {"markRetry", "read"}) /\ On("retry", e, {"markRetry", "read"})'
    BY <1>0, <1>2, <1>3, <1>5 DEF On, TypeOK
  <2> QED
    BY <2>1, <2>2, <2>3, <2>4 DEF RetryAccount, AccountOf
<1> QED
  BY <1>4, <1>5

\* With its last outcome, or with a failure, a transaction is out of hand.
LEMMA OutOfHand ==
  ASSUME AllInv, NEW e \in Visible, TxOf[e] \notin disturbed,
         NEW w \in Worker, Drop(w), current[w] = TxOf[e]
  PROVE  /\ \A places : ~On(w, e, places)'
         /\ w = "retry" => TxOf[e] \notin Hands("retry")'
         /\ w = "pending" => /\ \A places : ~On("retry", e, places)'
                             /\ TxOf[e] \notin Hands("retry")'
<1>0. TypeOK
  BY DEF AllInv, ExclInv
<1>1. TxOf[e] # NoTx
  BY <1>0, RowNumbers
<1>2. w = "retry" => TxOf[e] \notin batch["retry"]
  BY StatusInHand
<1>3. w = "pending" => TxOf[e] \notin Hands("retry") /\ current["retry"] # TxOf[e]
  BY StatusInHand
<1> QED
  BY <1>0, <1>1, <1>2, <1>3, DropTyped DEF On, Hands, TypeOK, Worker

LEMMA OutcomeAccount ==
  ASSUME AllInv, [Next]_vars, NEW e \in Visible, AccountOf(e),
         TxOf[e] \notin disturbed, NEW w \in Worker, MarkOutcome(w)
  PROVE  AccountOf(e)'
<1> DEFINE a == attempts[TxOf[e]]
           r == rows[e].retries
           l == Lost
<1>0. TypeOK
  BY DEF AllInv, ExclInv
<1>1. a \in Nat /\ r \in Nat /\ l \in Nat /\ e \in DOMAIN rows
  BY <1>0, RowNumbers, LostGrows
<1>2. UNCHANGED <<attempts, faults, restarts>> /\ Drop(w) /\ phase[w] \in {"markFail", "markDone"}
  BY DEF MarkOutcome, world, NoFault
<1>3. CASE current[w] # TxOf[e]
  BY <1>0, <1>1, <1>2, <1>3, OutcomeRows, StatusInHand, DroppedElsewhere, AccountFrame
<1>4. CASE current[w] = TxOf[e]
  <2>1. /\ rows'[e].retries = r
        /\ rows'[e].status = IF phase[w] = "markFail" THEN "failed" ELSE "notified"
    BY <1>0, <1>1, <1>4, OutcomeRows, StatusInHand
  <2>2. attempts' = attempts /\ Lost' = l
    BY <1>2 DEF Lost
  <2>3. CASE phase[w] = "markDone"
    BY <2>1, <2>3 DEF AccountOf
  <2>4. CASE phase[w] = "markFail"
    <3>1. 2 * a <= r + 1 + 2 * l /\ r + 1 <= 2 * (a + l)
      <4>1. CASE w = "pending"
        <5>1. FirstAccount(e)
          BY <1>4, <4>1, StatusInHand DEF AccountOf
        <5> QED
          BY <1>1, <1>4, <2>4, <4>1, <5>1 DEF FirstAccount, On, SentPhases
      <4>2. CASE w = "retry"
        <5>1. RetryAccount(e) /\ TxOf[e] \in Hands("retry")
          BY <1>4, <4>2, StatusInHand DEF AccountOf
        <5> QED
          BY <1>4, <2>4, <4>2, <5>1 DEF RetryAccount, On
      <4> QED
        BY <4>1, <4>2 DEF Worker
    <3>2. /\ \A places : ~On("retry", e, places)'
          /\ TxOf[e] \notin Hands("retry")'
      BY <1>2, <1>4, OutOfHand DEF Worker
    <3> QED
      BY <2>1, <2>2, <2>4, <3>1, <3>2 DEF RetryAccount, AccountOf
  <2> QED
    BY <1>2, <2>3, <2>4
<1> QED
  BY <1>3, <1>4

\* A failed statement and a restart are losses, and a loss pays for what is left undone.
LEMMA LossAccount ==
  ASSUME AllInv, NEW e \in Visible, AccountOf(e), UNCHANGED <<rows, attempts>>,
         Lost' = Lost + 1, TxOf[e] \notin Hands("retry")',
         \A w \in Worker : \A places : ~On(w, e, places)'
  PROVE  AccountOf(e)'
<1> DEFINE a == attempts[TxOf[e]]
           r == rows[e].retries
           l == Lost
<1>1. a \in Nat /\ r \in Nat /\ l \in Nat /\ RetryLimit \in Nat
  BY RowNumbers, NotifyAssumption DEF AllInv, ExclInv, TypeOK, Lost
<1>2. FirstAccount(e) => FirstAccount(e)'
  <2>1. CASE On("pending", e, SentPhases)
    BY <1>1, <2>1 DEF FirstAccount, Worker
  <2>2. CASE ~On("pending", e, SentPhases)
    BY <1>1, <2>2 DEF FirstAccount, Worker
  <2> QED
    BY <2>1, <2>2
<1>3. RetryAccount(e) => RetryAccount(e)'
  <2>1. CASE On("retry", e, {"markRetry", "read"})
    BY <1>1, <2>1 DEF RetryAccount, Worker
  <2>2. CASE ~On("retry", e, {"markRetry", "read"}) /\ On("retry", e, {"send", "bumpFail", "markDone"})
    BY <1>1, <2>2 DEF RetryAccount, Worker
  <2>3. CASE ~On("retry", e, {"markRetry", "read"}) /\ ~On("retry", e, {"send", "bumpFail", "markDone"})
    BY <1>1, <2>3 DEF RetryAccount, Worker
  <2> QED
    BY <2>1, <2>2, <2>3
<1> QED
  BY <1>2, <1>3 DEF AccountOf

LEMMA FailureAccount ==
  ASSUME AllInv, [Next]_vars, NEW e \in Visible, AccountOf(e),
         TxOf[e] \notin disturbed, NEW w \in Worker, StatementFails(w)
  PROVE  AccountOf(e)'
<1>1. TypeOK /\ Lost' = Lost + 1
  BY NotifyAssumption DEF AllInv, ExclInv, StatementFails, Fault, Lost, TypeOK
<1>2. UNCHANGED <<rows, attempts>> /\ Drop(w)
  BY DEF StatementFails, world
<1>3. CASE current[w] # TxOf[e]
  BY <1>1, <1>2, <1>3, DroppedElsewhere, AccountFrame
<1>4. CASE current[w] = TxOf[e]
  <2>1. \A places : ~On(w, e, places)'
    BY <1>2, <1>4, OutOfHand
  <2>2. TxOf[e] \notin Hands("retry")'
    BY <1>2, <1>4, OutOfHand DEF Worker
  <2>3. ASSUME NEW v \in Worker, v # w
        PROVE  \A places : ~On(v, e, places)'
    <3>1. current[v] # TxOf[e]
      BY <1>4, <2>3, StatusInHand DEF Worker
    <3> QED
      BY <1>1, <1>2, <2>3, <3>1, DropTyped DEF On, TypeOK
  <2> QED
    BY <1>1, <1>2, <2>1, <2>2, <2>3, LossAccount
<1> QED
  BY <1>3, <1>4

LEMMA RestartAccount ==
  ASSUME AllInv, NEW e \in Visible, AccountOf(e), Restart
  PROVE  AccountOf(e)'
<1>1. TypeOK /\ TxOf[e] # NoTx
  BY RowNumbers DEF AllInv, ExclInv
<1>2. Lost' = Lost + 1 /\ UNCHANGED <<rows, attempts>>
  BY <1>1, NotifyAssumption DEF Restart, NoFault, Lost, world, TypeOK
<1>3. TxOf[e] \notin Hands("retry")' /\ \A w \in Worker : \A places : ~On(w, e, places)'
  BY <1>1 DEF Restart, Hands, On, Worker
<1> QED
  BY <1>2, <1>3, LossAccount

LEMMA NewAccount ==
  ASSUME NEW e, rows'[e].status = "pending", rows'[e].retries = 0, attempts'[TxOf[e]] = 0,
         NEW l \in Nat, Lost' = l, ~On("pending", e, SentPhases)'
  PROVE  AccountOf(e)'
<1>1. FirstAccount(e)'
  BY DEF FirstAccount
<1> QED
  BY <1>1 DEF AccountOf

\* The listener and the updater leave every account of a visible row alone, and open
\* one with nothing on it.
LEMMA TableAccount ==
  ASSUME AllInv, UntriedUntilFinal, [Next]_vars, TableStep, NEW e \in Visible',
         TxOf[e] \notin disturbed',
         e \in Visible /\ TxOf[e] \notin disturbed => AccountOf(e)
  PROVE  AccountOf(e)'
<1>0. TypeOK
  BY DEF AllInv, ExclInv
<1>1. UNCHANGED <<phase, batch, current, unsent, success>>
  BY DEF TableStep, SaveEvent, Finalize, SendRollbackNotices, RollbackRows, RollbackFails,
         work, world
<1>2. ASSUME e \in Visible, rows'[e].status = rows[e].status, rows'[e].retries = rows[e].retries
      PROVE  AccountOf(e)'
  <2>1. TxOf[e] \notin disturbed /\ \A t \in Tx : RollbackRows(t) => t # TxOf[e]
    BY <1>0, <1>2, RowsStay DEF Visible
  <2>2. TxOf[e] \in Tx
    BY <1>0, <1>2, RowNumbers
  <2>3. ASSUME NEW t \in Tx, RollbackRows(t)
        PROVE  attempts'[TxOf[e]] = attempts[TxOf[e]]
    <3>1. t # TxOf[e] /\ attempts' = [attempts EXCEPT ![t] = 0]
      BY <1>0, <2>1, <2>3, RollbackDisturbs
    <3> QED
      BY <1>0, <2>2, <3>1 DEF TypeOK
  <2>4. attempts'[TxOf[e]] = attempts[TxOf[e]]
    <3>1. CASE \E t \in Tx : Finalize(t) \/ SendRollbackNotices(t) \/ RollbackFails(t)
      BY <3>1 DEF Finalize, SendRollbackNotices, RollbackFails, world
    <3>2. CASE \E g \in Event : SaveEvent(g)
      BY <3>2 DEF SaveEvent, world
    <3> QED
      BY <2>3, <3>1, <3>2 DEF TableStep
  <2>5. SameAccount(e)
    BY <1>1, <1>2, <2>4 DEF SameAccount, On, Hands
  <2> QED
    BY <1>0, <1>2, <2>1, <2>5, AccountFrame
<1>3. CASE e \notin Visible
  <2>1. /\ SaveEvent(e) /\ e \in Event /\ TxOf[e] \notin disturbed
        /\ rows'[e].status = "pending" /\ rows'[e].retries = 0
        /\ \A f \in RowsOf(TxOf[e]) : ~rows[f].final
    BY <1>0, <1>3, RowsStay
  <2>2. TxOf[e] \in Tx
    BY <2>1, NotifyAssumption
  <2>3. attempts'[TxOf[e]] = 0
    <3>1. attempts[TxOf[e]] = 0
      BY <1>0, <2>1, <2>2 DEF UntriedUntilFinal, TypeOK
    <3> QED
      BY <2>1, <3>1 DEF SaveEvent, world
  <2>4. ~On("pending", e, SentPhases)'
    <3>1. current["pending"] # TxOf[e]
      BY <2>1, <2>2, NotifyAssumption DEF AllInv, ExclInv, HandsInv, HeldIsFinal, Hands, Worker
    <3> QED
      BY <1>1, <3>1 DEF On
  <2>5. Lost' \in Nat
    BY <1>0, LostGrows
  <2> QED
    BY <2>1, <2>3, <2>4, <2>5, NewAccount
<1>4. CASE e \in Visible
  <2>1. e \in DOMAIN rows
    BY <1>4 DEF Visible
  <2>2. ASSUME NEW g \in Event, SaveEvent(g)
        PROVE  rows'[e].status = rows[e].status /\ rows'[e].retries = rows[e].retries
    BY <1>0, <2>1, <2>2, SaveEventRows
  <2>3. ASSUME NEW t \in Tx, Finalize(t) \/ RollbackRows(t)
        PROVE  rows'[e].status = rows[e].status /\ rows'[e].retries = rows[e].retries
    BY <1>0, <2>1, <2>3, FinalizeRows, RollbackRowsRows
  <2>4. ASSUME NEW t \in Tx, SendRollbackNotices(t) \/ RollbackFails(t)
        PROVE  UNCHANGED rows
    BY <2>4 DEF SendRollbackNotices, RollbackFails
  <2> QED
    BY <1>2, <1>4, <2>2, <2>3, <2>4 DEF TableStep
<1> QED
  BY <1>3, <1>4

\* Choosing, sending and concluding move no number.
LEMMA QuietAccount ==
  ASSUME AllInv, [Next]_vars, NEW e \in Visible, AccountOf(e), NEW w \in Worker,
         \/ BatchDone(w) \/ Conclude(w) \/ (\E t \in Tx : TakeTx(w, t)) \/ \E f \in Event : Notify(w, f)
  PROVE  AccountOf(e)'
<1>0. TypeOK /\ HandsMatchPhases
  BY DEF AllInv, ExclInv
<1>1. UNCHANGED <<rows, attempts>> /\ TxOf[e] # NoTx
  BY <1>0, RowNumbers DEF BatchDone, Conclude, TakeTx, Notify, world
<1>2. CASE BatchDone(w) \/ Conclude(w) \/ \E f \in Event : Notify(w, f)
  <2>1. UNCHANGED <<batch, current>>
    BY <1>2 DEF BatchDone, Conclude, Notify
  <2>2. \A v \in Worker : \/ phase'[v] = phase[v]
                          \/ phase[v] = "next" /\ phase'[v] = "sleep"
                          \/ phase[v] = "send" /\ phase'[v] \in {"markDone", "bumpFail"}
    BY <1>0, <1>2 DEF BatchDone, Conclude, Notify, Go, At, TypeOK
  <2>3. SameAccount(e)
    BY <1>1, <2>1, <2>2 DEF SameAccount, On, SentPhases, Hands, Worker
  <2> QED
    BY <1>0, <2>3, AccountFrame
<1>3. ASSUME NEW t \in Tx, TakeTx(w, t)
      PROVE  AccountOf(e)'
  <2>1. /\ current[w] = NoTx /\ current' = [current EXCEPT ![w] = t] /\ t \in batch[w]
        /\ batch' = [batch EXCEPT ![w] = @ \ {t}]
        /\ phase' = [phase EXCEPT ![w] = IF w = "retry" THEN "bumpRetry" ELSE "read"]
    BY <1>0, <1>3 DEF TakeTx, Go, At, HandsMatchPhases
  <2>2. Hands("retry")' \subseteq Hands("retry")
    BY <1>0, <2>1 DEF Hands, TypeOK, Worker
  <2>3. SameAccount(e)
    BY <1>0, <1>1, <2>1, <2>2 DEF SameAccount, On, SentPhases, TypeOK, Worker
  <2> QED
    BY <1>0, <2>3, AccountFrame
<1> QED
  BY <1>2, <1>3

LEMMA SelectAccount ==
  ASSUME AllInv, [Next]_vars, NEW e \in Visible, AccountOf(e), TxOf[e] \notin disturbed,
         NEW w \in Worker, Select(w)
  PROVE  AccountOf(e)'
<1>0. TypeOK /\ HandsMatchPhases /\ RowsAgree
  BY DEF AllInv, ExclInv, TableInv
<1>1. UNCHANGED <<rows, attempts, current, faults, restarts>> /\ TxOf[e] # NoTx /\ e \in DOMAIN rows
  BY <1>0, RowNumbers DEF Select, world, NoFault
<1>2. current[w] = NoTx /\ \A v \in Worker : v # w => phase'[v] = phase[v] /\ batch'[v] = batch[v]
  BY <1>0 DEF Select, At, Go, HandsMatchPhases, TypeOK
<1>3. \A v \in Worker : \A places : On(v, e, places)' <=> On(v, e, places)
  BY <1>0, <1>1, <1>2 DEF On
<1>4. CASE TxOf[e] \in Hands("retry")' => TxOf[e] \in Hands("retry")
  <2>1. SameAccount(e)
    BY <1>1, <1>3, <1>4 DEF SameAccount, Worker
  <2> QED
    BY <1>0, <2>1, AccountFrame
<1>5. CASE TxOf[e] \in Hands("retry")' /\ TxOf[e] \notin Hands("retry")
  <2>1. w = "retry"
    BY <1>1, <1>2, <1>5 DEF Hands, Worker
  <2>2. PICK f \in Visible : TxOf[f] = TxOf[e] /\ Wanted(w, f)
    BY <1>0, <1>5, <2>1, SelectedHands
  <2>3. rows[e].status = "failed" /\ rows[e].retries < RetryLimit
    BY <1>0, <2>1, <2>2 DEF RowsAgree, Wanted
  <2>4. RetryAccount(e) /\ \A places : ~On("retry", e, places)
    BY <1>1, <1>2, <2>1, <2>3 DEF AccountOf, On
  <2>5. Lost' = Lost
    BY <1>1 DEF Lost
  <2> QED
    BY <1>1, <1>3, <2>3, <2>4, <2>5 DEF AccountOf, RetryAccount, Worker
<1> QED
  BY <1>4, <1>5

LEMMA AccountedStep ==
  ASSUME AllInv, Accounted, UntriedUntilFinal, [Next]_vars
  PROVE  Accounted'
<1> SUFFICES ASSUME NEW e \in Visible', TxOf[e] \notin disturbed'
             PROVE  AccountOf(e)'
  BY DEF Accounted
<1>0. TypeOK
  BY DEF AllInv, ExclInv
<1>1. CASE TableStep
  BY <1>1, TableAccount DEF Accounted
<1>2. CASE ~TableStep
  <2>0. e \in Visible /\ TxOf[e] \notin disturbed
    BY <1>0, <1>2, RowsStay DEF TableStep
  <2>1. AccountOf(e)
    BY <2>0 DEF Accounted
  <2>2. CASE Restart
    BY <2>0, <2>1, <2>2, RestartAccount
  <2>3. CASE UNCHANGED vars
    <3>1. SameAccount(e)
      BY <2>3 DEF vars, SameAccount, On, Hands
    <3> QED
      BY <1>0, <2>0, <2>1, <3>1, AccountFrame
  <2>4. ASSUME NEW w \in Worker, WorkerStep(w) \/ StatementFails(w)
        PROVE  AccountOf(e)'
    BY <2>0, <2>1, <2>4, SelectAccount, QuietAccount, BumpAccount, MarkRetryingAccount,
       OutcomeAccount, ReadAccount, FailureAccount DEF WorkerStep
  <2> QED
    BY <1>2, <2>2, <2>3, <2>4 DEF Next
<1> QED
  BY <1>1, <1>2

\* An attempt is made of a final row, by a worker whose account allows one more.
LEMMA AttemptStep ==
  ASSUME AllInv, Accounted, UntriedUntilFinal, AttemptsCapped, [Next]_vars
  PROVE  UntriedUntilFinal' /\ AttemptsCapped'
<1>0. TypeOK /\ TypeOK'
  BY NextTyped DEF AllInv, ExclInv
<1>1. Lost \in Nat /\ Lost' \in Nat /\ Lost <= Lost' /\ RetryLimit \in Nat
  BY <1>0, LostGrows, NotifyAssumption
<1>2. /\ RetryLimit \div 2 \in Nat /\ RetryLimit <= 2 * (RetryLimit \div 2) + 1
  BY <1>1
<1> SUFFICES ASSUME NEW t \in Tx, t \notin disturbed'
             PROVE  /\ attempts'[t] > 0 => \E e \in RowsOf(t)' : rows'[e].final
                    /\ attempts'[t] <= 1 + RetryLimit \div 2 + Lost'
  BY <1>1, <1>2 DEF UntriedUntilFinal, AttemptsCapped
<1>3. CASE RollbackRows(t)
  <2>1. attempts'[t] = 0
    BY <1>0, <1>3, RollbackDisturbs DEF TypeOK
  <2>2. ~(attempts'[t] > 0)
    BY <2>1
  <2>3. attempts'[t] <= 1 + RetryLimit \div 2 + Lost'
    <3>1. \A h, l \in Nat : 0 <= 1 + h + l
      OBVIOUS
    <3> QED
      BY <1>1, <1>2, <2>1, <3>1
  <2> QED
    BY <2>2, <2>3
<1>4. ASSUME ~RollbackRows(t)
      PROVE  /\ t \notin disturbed
             /\ (\E e \in RowsOf(t) : rows[e].final) => \E e \in RowsOf(t)' : rows'[e].final
  <2>1. t \notin disturbed
    BY <1>0, <1>4, DisturbedSteps, SaveEventRows, RollbackDisturbs
  <2>2. ASSUME NEW e \in RowsOf(t), rows[e].final
        PROVE  e \in RowsOf(t)' /\ rows'[e].final
    <3>1. e \in Visible /\ TxOf[e] = t
      BY <2>2 DEF RowsOf
    <3>2. e \in Visible' /\ rows'[e].final
      BY <1>0, <1>4, <2>2, <3>1, FinalStays
    <3> QED
      BY <3>1, <3>2 DEF RowsOf
  <2> QED
    BY <2>1, <2>2
<1>5. CASE ~RollbackRows(t) /\ attempts'[t] = attempts[t]
  <2>1. attempts[t] \in Nat
    BY <1>0 DEF TypeOK
  <2> QED
    BY <1>1, <1>2, <1>4, <1>5, <2>1 DEF UntriedUntilFinal, AttemptsCapped
<1>6. ASSUME NEW w \in Worker, ReadEvents(w), attempts'[t] # attempts[t], ~RollbackRows(t)
      PROVE  /\ \E e \in RowsOf(t)' : rows'[e].final
             /\ attempts'[t] <= 1 + RetryLimit \div 2 + Lost'
  <2>1. RowsOf(current[w]) # {} /\ t = current[w] /\ attempts'[t] = attempts[t] + 1
    BY <1>0, <1>6 DEF ReadEvents, TypeOK
  <2>2. PICK e \in RowsOf(current[w]) : TRUE
    BY <2>1
  <2>3. e \in Visible /\ TxOf[e] = t /\ TxOf[e] \notin disturbed /\ AccountOf(e)
    BY <1>4, <1>6, <2>1, <2>2 DEF RowsOf, Accounted
  <2>4. attempts[t] \in Nat /\ rows[e].retries \in Nat
    BY <1>0, <2>3, RowNumbers
  <2>5. On(w, e, {"read"}) /\ phase[w] = "read"
    BY <1>6, <2>1, <2>3 DEF On, ReadEvents, At
  <2>6. attempts[t] <= RetryLimit \div 2 + Lost
    <3>1. CASE w = "pending"
      <4>1. FirstAccount(e)
        BY <2>1, <2>3, <3>1, StatusInHand DEF AccountOf
      <4> QED
        BY <1>1, <1>2, <2>3, <2>4, <2>5, <3>1, <4>1 DEF FirstAccount, On, SentPhases
    <3>2. CASE w = "retry"
      <4>1. RetryAccount(e)
        BY <2>1, <2>3, <3>2, StatusInHand DEF AccountOf
      <4>2. 2 * attempts[t] <= rows[e].retries + 2 * Lost /\ rows[e].retries <= RetryLimit
        BY <2>3, <2>5, <3>2, <4>1 DEF RetryAccount, On
      <4> QED
        BY <1>1, <1>2, <2>4, <4>2
    <3> QED
      BY <3>1, <3>2 DEF Worker
  <2>7. \E f \in RowsOf(t) : rows[f].final
    <3>1. t \in Hands(w) \ disturbed
      BY <2>1, <2>3, NotifyAssumption DEF Hands
    <3> QED
      BY <3>1 DEF AllInv, ExclInv, HandsInv, HeldIsFinal
  <2> QED
    BY <1>1, <1>2, <1>4, <1>6, <2>1, <2>4, <2>6, <2>7
<1>7. ASSUME NEW u \in Tx, RollbackRows(u), u # t
      PROVE  attempts'[t] = attempts[t]
  BY <1>0, <1>7, RollbackDisturbs DEF TypeOK
<1> QED
  BY <1>3, <1>5, <1>6, <1>7, AttemptsSteps

\* Whatever is lost, an undisturbed transaction is sent at most as often as planned and
\* once more for each loss, and it is given up no earlier.
THEOREM AttemptsAreBounded == Spec => []AttemptsBounded
<1>1. Init => AccountInv
  <2>1. Init => Lost = 0 /\ RetryLimit \div 2 \in Nat
    BY NotifyAssumption DEF Init, Lost
  <2> QED
    BY <2>1 DEF Init, AccountInv, Accounted, Visible, UntriedUntilFinal, AttemptsCapped
<1>2. AccountInv /\ AllInv /\ [Next]_vars => AccountInv'
  BY AccountedStep, AttemptStep DEF AccountInv
<1>3. AccountInv /\ AllInv => AttemptsBounded
  <2> SUFFICES ASSUME AccountInv, AllInv
               PROVE  AttemptsBounded
    OBVIOUS
  <2>0. TypeOK /\ RetryLimit \in Nat
    BY NotifyAssumption DEF AllInv, ExclInv
  <2>1. /\ RetryLimit \div 2 \in Nat /\ 2 * (RetryLimit \div 2) <= RetryLimit
        /\ faults \in Nat /\ restarts \in Nat
    BY <2>0, NotifyAssumption DEF TypeOK
  <2>2. ASSUME NEW t \in Tx \ disturbed
        PROVE  attempts[t] <= (1 + RetryLimit \div 2) + faults + restarts
    BY <2>0, <2>1, <2>2 DEF AccountInv, AttemptsCapped, Lost, TypeOK
  <2>3. ASSUME NEW e \in Visible, TxOf[e] \notin disturbed, GivenUp(e),
               current["retry"] # TxOf[e]
        PROVE  attempts[TxOf[e]] + faults + restarts >= 1 + RetryLimit \div 2
    <3>1. RetryAccount(e) /\ \A places : ~On("retry", e, places)
      BY <2>3 DEF AccountInv, Accounted, AccountOf, GivenUp, On
    <3>2. rows[e].retries + 1 <= 2 * (attempts[TxOf[e]] + Lost)
      BY <2>3, <3>1 DEF RetryAccount, GivenUp
    <3>3. rows[e].retries \in Nat /\ attempts[TxOf[e]] \in Nat /\ rows[e].retries >= RetryLimit
      BY <2>0, <2>3, RowNumbers DEF GivenUp
    <3> QED
      BY <2>0, <2>1, <3>2, <3>3 DEF Lost
  <2> QED
    BY <2>2, <2>3 DEF AttemptsBounded, RowsOf
<1> QED
  BY <1>1, <1>2, <1>3, AlwaysAllInv, PTL DEF Spec
=================================================================================
