------------------------------- MODULE Failover -------------------------------
(***************************************************************************)
(* The RPC endpoints of one chain (internal/listener/evm/rpc_failover.go): *)
(* the listener's goroutine reports how its calls went, the health check   *)
(* goroutine brings failed endpoints back.  Endpoints are numbered as in   *)
(* the slice c.endpoints, the primary is 0.                                *)
(*                                                                         *)
(* Places of the listener: idle, stamp and switch (inside ReportError).    *)
(* The health check loop holds c.mu while it goes through `left', and      *)
(* nobody else needs it for longer than a step.                            *)
(***************************************************************************)
EXTENDS Naturals, FiniteSets

CONSTANTS N,            \* endpoints that could be dialled
          MaxFailCount  \* the literal 3 of NewFailoverRPCClient

ASSUME FailoverAssumption == N \in Nat \ {0} /\ MaxFailCount \in Nat \ {0}

Endpoint == 0 .. N - 1

VARIABLES
  up,         \* per endpoint: does the node behind it answer?
  healthy, failCount,  \* per endpoint: IsHealthy, FailCount
  recent,     \* per endpoint: LastFailTime is less than recoveryTime ago
  current,    \* currentIndex
  place, reported,     \* the listener: its place, the endpoint ReportError took
  streak,     \* history: errors in a row reported since the current endpoint was taken
  signal,     \* healthCheckCh holds a signal
  left        \* endpoints the running health check has still to look at

endpoints == <<healthy, failCount, recent, current>>
listener == <<place, reported, streak>>
health == <<signal, left>>
vars == <<up, endpoints, listener, health>>

\* connect takes l.client and l.rpcClient right after NewFailoverRPCClient, and no
\* switch replaces them.
Pinned == 0

Init ==
  /\ up \in [Endpoint -> BOOLEAN]
  /\ healthy = [e \in Endpoint |-> TRUE] /\ failCount = [e \in Endpoint |-> 0]
  /\ recent = [e \in Endpoint |-> FALSE]
  /\ current = Pinned
  /\ place = "idle" /\ reported = 0 /\ streak = 0
  /\ signal = FALSE /\ left = {}

Unlocked == left = {}

------------------------------------------------------------------------------
(* The environment: nodes come and go, and time passes. *)

Flap(e) ==
  /\ up' = [up EXCEPT ![e] = ~@]
  /\ UNCHANGED <<endpoints, listener, health>>

\* recoveryTime has passed since the last error.
Age(e) ==
  /\ recent[e] /\ recent' = [recent EXCEPT ![e] = FALSE]
  /\ UNCHANGED <<up, healthy, failCount, current, listener, health>>

------------------------------------------------------------------------------
(* getBlockReceiptsAndTxs: the call goes to the pinned client, the report to  *)
(* whatever is current.                                                       *)

ReportSuccess ==
  /\ place = "idle" /\ up[Pinned] /\ Unlocked
  /\ failCount' = [failCount EXCEPT ![current] = 0]
  /\ streak' = 0
  /\ UNCHANGED <<up, healthy, recent, current, place, reported, health>>

ReportError ==
  /\ place = "idle" /\ ~up[Pinned] /\ Unlocked
  /\ failCount' = [failCount EXCEPT ![current] = @ + 1]
  /\ reported' = current /\ place' = "stamp" /\ streak' = streak + 1
  /\ UNCHANGED <<up, healthy, recent, current, health>>

\* LastFailTime is set under the lock; too many errors lead to a switch.
StampError ==
  /\ place = "stamp" /\ Unlocked
  /\ recent' = [recent EXCEPT ![reported] = TRUE]
  /\ place' = IF failCount[reported] >= MaxFailCount THEN "switch" ELSE "idle"
  /\ UNCHANGED <<up, healthy, failCount, current, reported, streak, health>>

Ahead(i) == (current + i) % N

\* Mutant: the health of the next endpoint is not looked at.
NextHealthyAny(i) == i \in 1 .. N - 1 /\ \A j \in 1 .. i - 1 : FALSE

\* The first healthy endpoint behind the current one is i steps ahead.
NextHealthy(i) ==
  /\ i \in 1 .. N - 1 /\ healthy[Ahead(i)]
  /\ \A j \in 1 .. i - 1 : ~healthy[Ahead(j)]

SwitchToNextEndpoint ==
  /\ place = "switch" /\ Unlocked
  /\ \E i \in 1 .. N - 1 : NextHealthy(i) /\ current' = Ahead(i)
  /\ healthy' = [healthy EXCEPT ![current] = FALSE]
  /\ signal' = TRUE /\ place' = "idle" /\ streak' = 0
  /\ UNCHANGED <<up, failCount, recent, reported, left>>

\* Mutant: the fail count is kept.
StayWithCount ==
  /\ place = "switch" /\ Unlocked
  /\ \A i \in 1 .. N - 1 : ~NextHealthy(i)
  /\ place' = "idle" /\ streak' = 0
  /\ UNCHANGED <<up, endpoints, reported, health>>

\* No other healthy endpoint: the current one is kept, as good as new.
StayWithCurrent ==
  /\ place = "switch" /\ Unlocked
  /\ \A i \in 1 .. N - 1 : ~NextHealthy(i)
  /\ failCount' = [failCount EXCEPT ![current] = 0]
  /\ place' = "idle" /\ streak' = 0
  /\ UNCHANGED <<up, healthy, recent, current, reported, health>>

------------------------------------------------------------------------------
(* healthCheckLoop and checkUnhealthyEndpoints. *)

\* Mutant: only the signal starts a check.
StartCheckOnSignal ==
  /\ Unlocked /\ signal
  /\ left' = Endpoint /\ signal' = FALSE
  /\ UNCHANGED <<up, endpoints, listener>>

\* The ticker or the signal starts a check, which takes the lock.
StartCheck ==
  /\ Unlocked
  /\ left' = Endpoint
  /\ UNCHANGED signal \/ (signal /\ signal' = FALSE)
  /\ UNCHANGED <<up, endpoints, listener>>

Suspect(e) == ~healthy[e] /\ ~recent[e]

\* Mutant: the endpoint comes back with its old count.
CheckEndpointKeepsCount(e) ==
  /\ e \in left /\ \A f \in left : e <= f
  /\ left' = left \ {e}
  /\ healthy' = [healthy EXCEPT ![e] = @ \/ (Suspect(e) /\ up[e])]
  /\ UNCHANGED <<up, failCount, recent, current, listener, signal>>

\* An unhealthy endpoint whose last error is old is asked for its height.
CheckEndpoint(e) ==
  /\ e \in left /\ \A f \in left : e <= f
  /\ left' = left \ {e}
  /\ IF Suspect(e) /\ up[e]
     THEN /\ healthy' = [healthy EXCEPT ![e] = TRUE]
          /\ failCount' = [failCount EXCEPT ![e] = 0]
     ELSE UNCHANGED <<healthy, failCount>>
  /\ UNCHANGED <<up, recent, current, listener, signal>>

Listening == ReportSuccess \/ ReportError \/ StampError \/ SwitchToNextEndpoint \/ StayWithCurrent
Checking == StartCheck \/ \E e \in Endpoint : CheckEndpoint(e)

Next ==
  \/ Listening \/ Checking
  \/ \E e \in Endpoint : Flap(e) \/ Age(e)

Spec == Init /\ [][Next]_vars

\* The loop runs on its ticker, and time passes.
FairSpec == Spec /\ WF_vars(Checking) /\ \A e \in Endpoint : WF_vars(Age(e))

------------------------------------------------------------------------------
(* Properties. *)

\* Every variable has its type; no endpoint counts beyond the threshold.
TypeOK ==
  /\ up \in [Endpoint -> BOOLEAN] /\ healthy \in [Endpoint -> BOOLEAN]
  /\ failCount \in [Endpoint -> 0 .. MaxFailCount]
  /\ recent \in [Endpoint -> BOOLEAN]
  /\ current \in Endpoint
  /\ place \in {"idle", "stamp", "switch"} /\ reported \in Endpoint
  /\ streak \in 0 .. MaxFailCount
  /\ signal \in BOOLEAN /\ left \subseteq Endpoint

\* The current endpoint is one that counts as healthy, at every moment, although
\* the switch and the health check both write IsHealthy.
CurrentIsHealthy == healthy[current]

\* The current endpoint is given up only for MaxFailCount errors in a row reported
\* since it was taken: whatever count it had when it failed before, and whichever
\* check brought it back, it starts anew.  (They need not be errors of its own: all
\* calls are made by the client of endpoint 0.)
GivenUpForErrors ==
  [][current' # current => streak >= MaxFailCount]_vars

\* An endpoint whose node answers again for good does not stay unhealthy.
EndpointsRecover == \A e \in Endpoint : <>[]up[e] => []<>healthy[e]
==============================================================================
