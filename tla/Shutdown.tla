------------------------------- MODULE Shutdown -------------------------------
(***************************************************************************)
(* How the process starts and stops: Manager.Start and Manager.Stop        *)
(* against the goroutines of the listeners, the background workers of the  *)
(* manager and a request of the API that reloads addresses.  What matters  *)
(* is who waits for whom: the context, the lock l.mu of each listener, and *)
(* the two wait groups.                                                    *)
(*                                                                         *)
(* Places of a listener's goroutine, by the next call that can block it or *)
(* see the context; unstarted and ended in both modes, when polling        *)
(*   begin   getStartBlock                  select  waiting for the ticker *)
(*   latest  BlockNumber                    header  header and detectReorg *)
(*   natives getBlockReceiptsAndTxs         transfer  a native transfer    *)
(*   filter  FilterLogs                     log     TransactionByHash      *)
(*   check   a log of the block             save    SaveBlock              *)
(*   status  updateStatus                                                  *)
(* and in WebSocket mode subscribe, wait (for a log) and heard (one).      *)
(* Places of Manager.Start: workers, api (Start of the server), next       *)
(* (listener), connect (l.mu held), running (it has returned), exited (the *)
(* process is gone).  Places of Manager.Stop: none, api (Shutdown of the   *)
(* server), each (next listener), lock (l.mu.Lock), wait (l.wg.Wait),      *)
(* group (m.wg.Wait), returned.                                            *)
(***************************************************************************)
EXTENDS Naturals

CONSTANTS
  Listener, Worker, NoListener,
  HasWebSocket    \* listeners configured with a WebSocket

ASSUME ShutdownAssumption ==
  NoListener \notin Listener /\ Worker \cap Listener = {} /\ HasWebSocket \subseteq Listener

VARIABLES
  start,     \* Manager.Start: its place
  live,      \* m.ctx is not cancelled; every other context derives from it
  scanner,   \* per listener: the place of its goroutine
  mu,        \* per listener: who holds l.mu beyond a single step
  running,   \* per listener: status.IsRunning
  errors,    \* per listener: errorChan is open
  worker,    \* the updater, the notification loops and each listener's processErrors:
             \* running?
  stop, inHand, left,  \* Manager.Stop: place, current listener, the others
  handler, target, todo,  \* the API request: place, listener it reloads, the rest
  storage    \* the database connection is open

scan == <<scanner, worker>>
stopping == <<stop, inHand, left>>
request == <<handler, target, todo>>
vars == <<start, live, scan, mu, running, errors, stopping, request, storage>>

ScanPlaces == {"unstarted", "subscribe", "wait", "heard", "begin", "select", "latest", "header", "natives", "transfer",
               "filter", "log", "check", "save", "status", "ended"}
StartPlaces == {"workers", "api", "next", "connect", "running", "exited"}
StopPlaces == {"none", "api", "each", "lock", "wait", "group", "returned"}
HandlerPlaces == {"none", "next", "flagged", "locked"}

Init ==
  /\ start = "workers" /\ live = TRUE
  /\ scanner = [l \in Listener |-> "unstarted"]
  /\ mu = [l \in Listener |-> "free"]
  /\ running = [l \in Listener |-> FALSE] /\ errors = [l \in Listener |-> TRUE]
  /\ worker = [w \in Worker \cup Listener |-> FALSE]
  /\ stop = "none" /\ inHand = NoListener /\ left = Listener
  /\ handler = "none" /\ target = NoListener /\ todo = {}
  /\ storage = TRUE

------------------------------------------------------------------------------
(* Manager.Start. *)

StartWorkers ==
  /\ start = "workers" /\ start' = "api"
  /\ worker' = [w \in DOMAIN worker |-> w \in Worker]
  /\ UNCHANGED <<live, scanner, mu, running, errors, stopping, request, storage>>

\* The server has not failed within 100 ms.
StartApi ==
  /\ start = "api" /\ start' = "next"
  /\ UNCHANGED <<live, scan, mu, running, errors, stopping, request, storage>>

\* EVMListener.Start, up to connect.
LockToStart(l) ==
  /\ start = "next" /\ scanner[l] = "unstarted" /\ mu[l] = "free"
  /\ mu' = [mu EXCEPT ![l] = "start"] /\ start' = "connect"
  /\ UNCHANGED <<live, scan, running, errors, stopping, request, storage>>

\* connect has succeeded.  A WebSocket that cannot be reached after the configured
\* attempts is no failure: the listener polls.
StartListener(l) ==
  /\ start = "connect" /\ mu[l] = "start"
  /\ \E p \in IF l \in HasWebSocket THEN {"begin", "subscribe"} ELSE {"begin"} :
       scanner' = [scanner EXCEPT ![l] = p]
  /\ running' = [running EXCEPT ![l] = TRUE]
  /\ mu' = [mu EXCEPT ![l] = "free"]
  /\ worker' = [worker EXCEPT ![l] = TRUE]
  /\ start' = "next"
  /\ UNCHANGED <<live, errors, stopping, request, storage>>

AllStarted ==
  /\ start = "next" /\ \A l \in Listener : scanner[l] # "unstarted"
  /\ start' = "running"
  /\ UNCHANGED <<live, scan, mu, running, errors, stopping, request, storage>>

\* The server or a listener does not start, which is fatal to the process, or it gets
\* a signal: main does not wait for signals yet.  Nothing is closed.
Exit ==
  /\ start \in {"workers", "api", "next", "connect"} /\ start' = "exited"
  /\ scanner' = [l \in Listener |-> "ended"]
  /\ worker' = [w \in DOMAIN worker |-> FALSE]
  /\ mu' = [l \in Listener |-> "free"]
  /\ handler' = "none" /\ target' = NoListener /\ todo' = {}
  /\ UNCHANGED <<live, running, errors, stopping, storage>>

StartStep ==
  \/ StartWorkers \/ StartApi \/ AllStarted
  \/ \E l \in Listener : LockToStart(l) \/ StartListener(l)

------------------------------------------------------------------------------
(* The goroutine of listener l. *)

Goto(l, p) ==
  /\ scanner' = [scanner EXCEPT ![l] = p]
  /\ UNCHANGED <<start, live, worker, mu, running, errors, stopping, request, storage>>

\* A call under the listener's context succeeds only while the context is live;
\* it may fail at any time.
Call(l, from, ok, failed) ==
  /\ scanner[l] = from
  /\ (live /\ \E p \in ok : Goto(l, p)) \/ Goto(l, failed)

\* The ticker and ctx.Done may both be ready: select takes either.
Select(l) == scanner[l] = "select" /\ (Goto(l, "latest") \/ (~live /\ Goto(l, "ended")))

\* getStartBlock: a configured number needs no call at all.
Begin(l) == scanner[l] = "begin" /\ \E p \in {"select", "ended"} : Goto(l, p)
ReadLatest(l) == Call(l, "latest", {"header", "select"}, "select")
ReadHeader(l) == Call(l, "header", {"natives", "select"}, "select")
ReadNatives(l) == Call(l, "natives", {"transfer", "filter"}, "filter")
ReadLogs(l) == Call(l, "filter", {"log", "save"}, "select")

\* isAddressMonitored takes l.mu.RLock; what it does next needs no context, and
\* the saving that follows only logs its errors.
CheckTransfer(l) ==
  /\ scanner[l] = "transfer" /\ mu[l] = "free"
  /\ \E p \in {"transfer", "filter"} : Goto(l, p)

\* The transaction of a log is fetched, or found in the block's cache, which needs
\* no context; a log whose transaction is not found is passed over.
FetchLog(l) == scanner[l] = "log" /\ \E p \in {"log", "check", "save"} : Goto(l, p)
CheckLog(l) ==
  /\ scanner[l] = "check" /\ mu[l] = "free"
  /\ \E p \in {"log", "save"} : Goto(l, p)

\* The error of SaveBlock is not returned: updateStatus is called in any case.
SaveBlock(l) == Call(l, "save", {"status"}, "status")
UpdateStatus(l) ==
  /\ scanner[l] = "status" /\ mu[l] = "free"
  /\ \E p \in {"header", "select"} : Goto(l, p)

\* listenWithWebSocket: it ends when the subscription does.
Subscribe(l) == Call(l, "subscribe", {"wait"}, "ended")
Wait(l) == scanner[l] = "wait" /\ \E p \in {"heard", "ended"} : Goto(l, p)

\* processLog asks isAddressMonitored.
Hear(l) == scanner[l] = "heard" /\ mu[l] = "free" /\ Goto(l, "wait")

Scan(l) ==
  \/ Subscribe(l) \/ Wait(l) \/ Hear(l)
  \/ Select(l) \/ Begin(l) \/ ReadLatest(l) \/ ReadHeader(l) \/ ReadNatives(l)
  \/ ReadLogs(l) \/ CheckTransfer(l) \/ FetchLog(l) \/ CheckLog(l)
  \/ SaveBlock(l) \/ UpdateStatus(l)

\* The updater, the two notification loops and processErrors return on ctx.Done.
WorkerEnds(w) ==
  /\ worker[w] /\ ~live
  /\ worker' = [worker EXCEPT ![w] = FALSE]
  /\ UNCHANGED <<start, live, scanner, mu, running, errors, stopping, request, storage>>

------------------------------------------------------------------------------
(* reloadMonitorAddresses of the API: every listener in turn. *)

\* The server takes requests before it is known to have started, and until it is
\* shut down.
ReloadRequest ==
  /\ handler = "none" /\ stop \in {"none", "api"}
  /\ start \in {"api", "next", "connect", "running"}
  /\ handler' = "next" /\ todo' = Listener
  /\ UNCHANGED <<start, live, scan, mu, running, errors, stopping, target, storage>>

ReloadNext(l) ==
  /\ handler = "next" /\ l \in todo
  /\ handler' = "flagged" /\ target' = l /\ todo' = todo \ {l}
  /\ UNCHANGED <<start, live, scan, mu, running, errors, stopping, storage>>

ReloadAnswers ==
  /\ handler = "next" /\ todo = {}
  /\ handler' = "none"
  /\ UNCHANGED <<start, live, scan, mu, running, errors, stopping, target, todo, storage>>

\* ReloadMonitorAddresses of one listener, as far as the lock goes.
ReloadLocks ==
  /\ handler = "flagged" /\ mu[target] = "free"
  /\ mu' = [mu EXCEPT ![target] = "reload"] /\ handler' = "locked"
  /\ UNCHANGED <<start, live, scan, running, errors, stopping, target, todo, storage>>

\* Mutant: the lock that is released is read after the target was reset.
ReloadUnlocksLate ==
  /\ handler = "locked"
  /\ handler' = "next" /\ target' = NoListener
  /\ mu' = [l \in DOMAIN mu \cup {target'} |-> IF l = target' THEN "free" ELSE mu[l]]
  /\ UNCHANGED <<start, live, scan, running, errors, stopping, todo, storage>>

\* Mutant: the lock is not released.
ReloadKeepsLock ==
  /\ handler = "locked"
  /\ handler' = "next" /\ target' = NoListener
  /\ UNCHANGED <<start, live, scan, mu, running, errors, stopping, todo, storage>>

\* The query runs under context.Background; it returns whether it fails or not.
ReloadUnlocks ==
  /\ handler = "locked"
  /\ mu' = [mu EXCEPT ![target] = "free"]
  /\ handler' = "next" /\ target' = NoListener
  /\ UNCHANGED <<start, live, scan, running, errors, stopping, todo, storage>>

------------------------------------------------------------------------------
(* Manager.Stop and, for each listener in turn, EVMListener.Stop. *)

\* Mutant: the context is not cancelled first.
StopBeginsLive ==
  /\ start = "running" /\ stop = "none" /\ stop' = "api"
  /\ UNCHANGED <<start, live, scan, mu, running, errors, inHand, left, request, storage>>

\* main waits for a signal only once Manager.Start has returned.
StopBegins ==
  /\ start = "running" /\ stop = "none" /\ stop' = "api"
  /\ live' = FALSE
  /\ UNCHANGED <<start, scan, mu, running, errors, inHand, left, request, storage>>

\* Shutdown waits for the handlers, but no longer than five seconds.
StopApi ==
  /\ stop = "api" /\ stop' = "each"
  /\ UNCHANGED <<start, live, scan, mu, running, errors, inHand, left, request, storage>>

TakeListener(l) ==
  /\ stop = "each" /\ l \in left
  /\ stop' = "lock" /\ inHand' = l /\ left' = left \ {l}
  /\ UNCHANGED <<start, live, scan, mu, running, errors, request, storage>>

LockListener ==
  /\ stop = "lock" /\ mu[inHand] = "free"
  /\ mu' = [mu EXCEPT ![inHand] = "stop"] /\ stop' = "wait"
  /\ UNCHANGED <<start, live, scan, running, errors, inHand, left, request, storage>>

\* Mutant: the wait for the goroutine is left out.
CloseListenerNoWait ==
  /\ stop = "wait"
  /\ errors' = [errors EXCEPT ![inHand] = FALSE]
  /\ running' = [running EXCEPT ![inHand] = FALSE]
  /\ mu' = [mu EXCEPT ![inHand] = "free"]
  /\ stop' = "each" /\ inHand' = NoListener
  /\ UNCHANGED <<start, live, scan, left, request, storage>>

\* wg.Wait with l.mu held; then the channel is closed and the lock released.
CloseListener ==
  /\ stop = "wait" /\ scanner[inHand] = "ended"
  /\ errors' = [errors EXCEPT ![inHand] = FALSE]
  /\ running' = [running EXCEPT ![inHand] = FALSE]
  /\ mu' = [mu EXCEPT ![inHand] = "free"]
  /\ stop' = "each" /\ inHand' = NoListener
  /\ UNCHANGED <<start, live, scan, left, request, storage>>

AllTaken ==
  /\ stop = "each" /\ left = {}
  /\ stop' = "group"
  /\ UNCHANGED <<start, live, scan, mu, running, errors, inHand, left, request, storage>>

\* m.wg.Wait, then storage.Close.
StopReturns ==
  /\ stop = "group" /\ \A w \in DOMAIN worker : ~worker[w]
  /\ stop' = "returned" /\ storage' = FALSE
  /\ UNCHANGED <<start, live, scan, mu, running, errors, inHand, left, request>>

StopStep ==
  \/ StopApi \/ LockListener \/ CloseListener \/ AllTaken \/ StopReturns
  \/ \E l \in Listener : TakeListener(l)

Reload == ReloadAnswers \/ ReloadLocks \/ ReloadUnlocks \/ \E l \in Listener : ReloadNext(l)

Next ==
  \/ StartStep \/ Exit \/ StopBegins \/ StopStep \/ ReloadRequest \/ Reload
  \/ \E l \in Listener : Scan(l)
  \/ \E w \in Worker \cup Listener : WorkerEnds(w)

Spec == Init /\ [][Next]_vars

\* Every goroutine runs on while it can; a connect comes to an end, and so does the
\* updater's eth_blockNumber.  That call is made under context.Background and without a
\* timeout (checker.go:25, 111): that the connection gives up is taken for granted.
\* select does not ignore a ready ctx.Done for ever, a block has finitely many transfers
\* and logs, and l.mu does not starve a writer: the strong fairness of those steps.
FairSpec ==
  /\ Spec
  /\ WF_vars(StartStep \/ Exit) /\ WF_vars(StopStep) /\ SF_vars(LockListener) /\ WF_vars(Reload)
  /\ \A w \in Worker \cup Listener : WF_vars(WorkerEnds(w))
  /\ \A l \in Listener :
       /\ WF_vars(Scan(l) /\ scanner[l] # "wait")
       /\ SF_vars(/\ ~live /\ scanner[l] \in {"select", "wait"}
                  /\ Scan(l) /\ scanner'[l] = "ended")
       /\ SF_vars(/\ scanner[l] \in {"transfer", "log", "check"}
                  /\ Scan(l) /\ scanner'[l] \in {"filter", "save"})

------------------------------------------------------------------------------
(* Properties. *)

\* Every variable has its type.
TypeOK ==
  /\ start \in StartPlaces /\ live \in BOOLEAN /\ storage \in BOOLEAN
  /\ scanner \in [Listener -> ScanPlaces]
  /\ mu \in [Listener -> {"free", "start", "stop", "reload"}]
  /\ running \in [Listener -> BOOLEAN] /\ errors \in [Listener -> BOOLEAN]
  /\ worker \in [Worker \cup Listener -> BOOLEAN]
  /\ stop \in StopPlaces /\ inHand \in Listener \cup {NoListener} /\ left \subseteq Listener
  /\ handler \in HandlerPlaces /\ target \in Listener \cup {NoListener} /\ todo \subseteq Listener

\* errorChan is closed only when the goroutine that sends on it has ended (a send
\* on a closed channel panics), and the database only when every goroutine that
\* writes to it has.
ClosedAfterUse ==
  /\ \A l \in Listener : ~errors[l] => scanner[l] = "ended"
  /\ ~storage => /\ \A l \in Listener : scanner[l] = "ended"
                 /\ \A w \in DOMAIN worker : ~worker[w]

\* The goroutine of the listener that is being stopped waits for the lock that
\* EVMListener.Stop holds while it waits for the goroutine.
Entangled ==
  /\ stop = "wait" /\ mu[inHand] = "stop"
  /\ scanner[inHand] \in {"transfer", "check", "status", "heard"}

\* Once a stop has begun it returns, or ends in exactly that deadlock: there is no
\* other wait that is never answered, with any number of listeners and requests.
StopReturnsOrEntangles == stop # "none" ~> (stop = "returned" \/ Entangled)

\* A request to reload is answered, also while the listeners are being started or
\* stopped one after the other, unless the stop ends in that deadlock.
ReloadsAreAnswered == handler # "none" ~> (handler = "none" \/ Entangled)
==============================================================================
