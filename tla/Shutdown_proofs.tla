---------------------------- MODULE Shutdown_proofs ----------------------------
(***************************************************************************)
(* For any set of listeners and of background goroutines: no channel and   *)
(* no database connection is closed while somebody may still use it.       *)
(***************************************************************************)
EXTENDS Shutdown, TLAPS

(* The invariant.  Nothing is stopped or closed before Manager.Start has returned.   *)
(* A listener is either still to be stopped, being stopped, or closed, and it was   *)
(* closed when its goroutine had ended, which is for good.                          *)
Accounted == \A l \in Listener : l \in left \/ l = inHand \/ ~errors[l]

InHand ==
  /\ stop \in {"none", "api", "each", "group", "returned"} => inHand = NoListener
  /\ stop \in {"lock", "wait"} => inHand \in Listener
  /\ stop \in {"group", "returned"} => left = {}

Starting == start # "running" => stop = "none" /\ storage /\ \A l \in Listener : errors[l]

ClosedHasEnded == \A l \in Listener : ~errors[l] => scanner[l] = "ended"

ClosedLast == ~storage => stop = "returned" /\ \A w \in Worker \cup Listener : ~worker[w]

IInv == TypeOK /\ Accounted /\ InHand /\ Starting /\ ClosedHasEnded /\ ClosedLast

\* A step of a listener's goroutine moves it from one place to another, and none
\* leaves the end.
LEMMA ScanStep ==
  ASSUME NEW l \in Listener, Scan(l)
  PROVE  /\ scanner[l] # "ended"
         /\ \E p \in ScanPlaces : scanner' = [scanner EXCEPT ![l] = p]
         /\ UNCHANGED <<start, live, worker, mu, running, errors, stopping, request, storage>>
<1>1. scanner[l] # "ended" /\ \E p \in ScanPlaces : Goto(l, p)
  <2>1. CASE Select(l)
    BY <2>1 DEF Select, ScanPlaces
  <2>2. CASE Begin(l)
    BY <2>2 DEF Begin, ScanPlaces
  <2>3. CASE ReadLatest(l) \/ ReadHeader(l) \/ ReadNatives(l) \/ ReadLogs(l) \/ SaveBlock(l)
    BY <2>3 DEF ReadLatest, ReadHeader, ReadNatives, ReadLogs, SaveBlock, Call, ScanPlaces
  <2>4. CASE CheckTransfer(l) \/ FetchLog(l) \/ CheckLog(l) \/ UpdateStatus(l)
    BY <2>4 DEF CheckTransfer, FetchLog, CheckLog, UpdateStatus, ScanPlaces
  <2>5. CASE Subscribe(l) \/ Wait(l) \/ Hear(l)
    BY <2>5 DEF Subscribe, Wait, Hear, Call, ScanPlaces
  <2> QED
    BY <2>1, <2>2, <2>3, <2>4, <2>5 DEF Scan
<1> QED
  BY <1>1 DEF Goto

LEMMA InitInvariant == Init => IInv
BY DEF Init, IInv, TypeOK, Accounted, InHand, Starting, ClosedHasEnded, ClosedLast, ScanPlaces, StopPlaces,
   HandlerPlaces, StartPlaces

LEMMA NextInvariant == IInv /\ [Next]_vars => IInv'
<1> SUFFICES ASSUME IInv, [Next]_vars
             PROVE  IInv'
  OBVIOUS
<1> USE ShutdownAssumption DEF IInv, TypeOK, Accounted, InHand, Starting, ClosedHasEnded, ClosedLast
<1>1. ASSUME NEW l \in Listener, Scan(l)
      PROVE  IInv'
  <2>1. PICK p \in ScanPlaces : scanner' = [scanner EXCEPT ![l] = p]
    BY <1>1, ScanStep
  <2>2. errors[l]
    BY <1>1, ScanStep
  <2>3. UNCHANGED <<start, live, worker, mu, running, errors, stop, inHand, left, handler, target, todo, storage>>
    BY <1>1, ScanStep DEF stopping, request
  <2> QED
    BY <2>1, <2>2, <2>3
<1>2. ASSUME NEW w \in Worker \cup Listener, WorkerEnds(w)
      PROVE  IInv'
  BY <1>2 DEF WorkerEnds, stopping, request
<1>3. CASE ReloadRequest
  BY <1>3 DEF ReloadRequest, scan, stopping, HandlerPlaces
<1>4. CASE Reload
  <2>1. ASSUME NEW l \in Listener, ReloadNext(l)
        PROVE  IInv'
    BY <2>1 DEF ReloadNext, scan, stopping, HandlerPlaces
  <2>2. CASE ReloadAnswers
    BY <2>2 DEF ReloadAnswers, scan, stopping, HandlerPlaces
  <2>3. CASE ReloadLocks
    BY <2>3 DEF ReloadLocks, scan, stopping, HandlerPlaces
  <2>4. CASE ReloadUnlocks
    BY <2>4 DEF ReloadUnlocks, scan, stopping, HandlerPlaces
  <2> QED
    BY <1>4, <2>1, <2>2, <2>3, <2>4 DEF Reload
<1>5. CASE StopBegins \/ StopApi
  BY <1>5 DEF StopBegins, StopApi, scan, request, StopPlaces
<1>6. ASSUME NEW l \in Listener, TakeListener(l)
      PROVE  IInv'
  BY <1>6 DEF TakeListener, scan, request, StopPlaces
<1>7. CASE LockListener
  BY <1>7 DEF LockListener, scan, request, StopPlaces
<1>8. CASE CloseListener
  <2>1. inHand \in Listener /\ scanner[inHand] = "ended"
    BY <1>8 DEF CloseListener
  <2> QED
    BY <1>8, <2>1 DEF CloseListener, scan, request, StopPlaces
<1>9. CASE AllTaken
  BY <1>9 DEF AllTaken, scan, request, StopPlaces
<1>10. CASE StopReturns
  BY <1>10 DEF StopReturns, scan, request, StopPlaces
<1>11. CASE StartWorkers \/ StartApi \/ AllStarted
  <2>1. CASE StartWorkers
    BY <2>1 DEF StartWorkers, stopping, request, StartPlaces
  <2>2. CASE StartApi \/ AllStarted
    BY <2>2 DEF StartApi, AllStarted, scan, stopping, request, StartPlaces
  <2> QED
    BY <1>11, <2>1, <2>2
<1>12. ASSUME NEW l \in Listener, LockToStart(l)
       PROVE  IInv'
  BY <1>12 DEF LockToStart, scan, stopping, request, StartPlaces
<1>13. ASSUME NEW l \in Listener, StartListener(l)
       PROVE  IInv'
  BY <1>13 DEF StartListener, stopping, request, StartPlaces, ScanPlaces
<1>14. CASE Exit
  BY <1>14 DEF Exit, stopping, StartPlaces, ScanPlaces, HandlerPlaces
<1>15. CASE UNCHANGED vars
  BY <1>15 DEF vars, scan, stopping, request
<1> QED
  BY <1>1, <1>2, <1>3, <1>4, <1>5, <1>6, <1>7, <1>8, <1>9, <1>10, <1>11, <1>12,
     <1>13, <1>14, <1>15 DEF Next, StopStep, StartStep

LEMMA Invariant == Spec => []IInv
<1> QED
  BY InitInvariant, NextInvariant, PTL DEF Spec

\* Every variable has its type.
THEOREM TypeCorrect == Spec => []TypeOK
<1>1. IInv => TypeOK
  BY DEF IInv
<1> QED
  BY <1>1, Invariant, PTL

\* The error channel of a listener is closed only when its goroutine has ended, and
\* the database only when every goroutine has.
THEOREM NothingClosedInUse == Spec => []ClosedAfterUse
<1>1. IInv => ClosedAfterUse
  <2> SUFFICES ASSUME IInv
               PROVE  ClosedAfterUse
    OBVIOUS
  <2>1. ~storage => \A l \in Listener : ~errors[l]
    BY ShutdownAssumption DEF IInv, ClosedLast, InHand, Accounted
  <2> QED
    BY <2>1 DEF IInv, TypeOK, ClosedHasEnded, ClosedLast, ClosedAfterUse
<1> QED
  BY <1>1, Invariant, PTL
================================================================================
