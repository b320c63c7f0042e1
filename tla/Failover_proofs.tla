---------------------------- MODULE Failover_proofs ----------------------------
(***************************************************************************)
(* For any number of endpoints and any threshold: the current endpoint     *)
(* counts as healthy, and is given up for errors reported since it was     *)
(* taken.                                                                  *)
(***************************************************************************)
EXTENDS Failover, TLAPS

(* The invariant.  Only the current endpoint has a count: the others are given up, *)
(* or came back with none.  A report is about the current endpoint until it is     *)
(* over, since nobody but the listener switches; its count reaches the threshold   *)
(* only on the way to a switch, and it counts what was reported since the last one. *)
OthersAreClean == \A e \in Endpoint : e # current /\ healthy[e] => failCount[e] = 0

ReportIsCurrent == place = "stamp" => reported = current

CountBelowThreshold == place = "idle" => failCount[current] < MaxFailCount

CountIsStreak ==
  /\ failCount[current] = streak
  /\ place = "switch" => streak >= MaxFailCount

IInv == TypeOK /\ CurrentIsHealthy /\ OthersAreClean /\ ReportIsCurrent /\ CountBelowThreshold
        /\ CountIsStreak

\* The endpoints behind the current one are endpoints, and other ones.
LEMMA AheadIsAnother ==
  ASSUME NEW i \in 1 .. N - 1, current \in Endpoint
  PROVE  Ahead(i) \in Endpoint /\ Ahead(i) # current
<1>1. N \in Nat \ {0} /\ current \in 0 .. N - 1 /\ i \in Nat
  BY FailoverAssumption DEF Endpoint
<1>2. CASE current + i < N
  <2>1. (current + i) % N = current + i
    BY <1>1, <1>2
  <2> QED
    BY <1>1, <1>2, <2>1 DEF Ahead, Endpoint
<1>3. CASE current + i >= N
  <2>1. (current + i) % N = current + i - N
    BY <1>1, <1>3
  <2> QED
    BY <1>1, <1>3, <2>1 DEF Ahead, Endpoint
<1> QED
  BY <1>1, <1>2, <1>3

LEMMA InitInvariant == Init => IInv
<1> SUFFICES ASSUME Init
             PROVE  IInv
  OBVIOUS
<1>1. 0 \in Endpoint /\ 0 \in 0 .. MaxFailCount /\ 0 < MaxFailCount
  BY FailoverAssumption DEF Endpoint
<1>2. current = 0 /\ reported = 0 /\ streak = 0
  BY DEF Init, Pinned
<1>3. TypeOK
  BY <1>1, <1>2 DEF Init, TypeOK
<1>4. CurrentIsHealthy /\ OthersAreClean /\ ReportIsCurrent /\ CountBelowThreshold /\ CountIsStreak
  BY <1>1, <1>2 DEF Init, CurrentIsHealthy, OthersAreClean, ReportIsCurrent, CountBelowThreshold,
                    CountIsStreak
<1> QED
  BY <1>3, <1>4 DEF IInv

LEMMA NextInvariant == IInv /\ [Next]_vars => IInv'
<1> SUFFICES ASSUME IInv, [Next]_vars
             PROVE  IInv'
  OBVIOUS
<1> USE FailoverAssumption DEF IInv, TypeOK, CurrentIsHealthy, OthersAreClean, ReportIsCurrent,
    CountBelowThreshold, CountIsStreak
<1>1. CASE ReportSuccess
  BY <1>1 DEF ReportSuccess, listener, health
<1>2. CASE ReportError
  BY <1>2 DEF ReportError, health
<1>3. CASE StampError
  BY <1>3 DEF StampError, health
<1>4. CASE SwitchToNextEndpoint
  <2>1. PICK i \in 1 .. N - 1 : NextHealthy(i) /\ current' = Ahead(i)
    BY <1>4 DEF SwitchToNextEndpoint
  <2>2. current' \in Endpoint /\ current' # current /\ healthy[current']
    BY <2>1, AheadIsAnother DEF NextHealthy
  <2>3. failCount[current'] = 0
    BY <2>2
  <2> QED
    BY <1>4, <2>2, <2>3 DEF SwitchToNextEndpoint
<1>5. CASE StayWithCurrent
  BY <1>5 DEF StayWithCurrent, health
<1>6. CASE StartCheck
  BY <1>6 DEF StartCheck, endpoints, listener
<1>7. ASSUME NEW e \in Endpoint, CheckEndpoint(e)
      PROVE  IInv'
  <2> DEFINE back == Suspect(e) /\ up[e]
  <2>1. CASE back
    <3>1. /\ healthy' = [healthy EXCEPT ![e] = TRUE]
          /\ failCount' = [failCount EXCEPT ![e] = 0]
          /\ left' = left \ {e}
          /\ UNCHANGED <<up, recent, current, place, reported, streak, signal>>
      BY <1>7, <2>1 DEF CheckEndpoint, listener
    <3>2. TypeOK'
      BY <3>1
    <3>3. CurrentIsHealthy' /\ OthersAreClean'
      BY <3>1
    <3>4. e # current
      BY <2>1 DEF Suspect
    <3>5. failCount'[current] = failCount[current]
      BY <3>1, <3>4
    <3>6. ReportIsCurrent' /\ CountBelowThreshold'
      BY <3>1, <3>5
    <3>7. CountIsStreak'
      BY <3>1, <3>5
    <3> QED
      BY <3>2, <3>3, <3>6, <3>7
  <2>2. CASE ~back
    BY <1>7, <2>2 DEF CheckEndpoint, listener
  <2> QED
    BY <2>1, <2>2
<1>8. ASSUME NEW e \in Endpoint, Flap(e)
      PROVE  IInv'
  BY <1>8 DEF Flap, endpoints, listener, health
<1>9. ASSUME NEW e \in Endpoint, Age(e)
      PROVE  IInv'
  BY <1>9 DEF Age, listener, health
<1>10. CASE UNCHANGED vars
  BY <1>10 DEF vars, endpoints, listener, health
<1> QED
  BY <1>1, <1>2, <1>3, <1>4, <1>5, <1>6, <1>7, <1>8, <1>9, <1>10 DEF Next, Listening, Checking

LEMMA Invariant == Spec => []IInv
<1> QED
  BY InitInvariant, NextInvariant, PTL DEF Spec

\* Every variable has its type; no count is above the threshold.
THEOREM TypeCorrect == Spec => []TypeOK
<1>1. IInv => TypeOK
  BY DEF IInv
<1> QED
  BY <1>1, Invariant, PTL

\* The current endpoint counts as healthy, whatever the switch and the health check
\* write in which order.
THEOREM CurrentAlwaysHealthy == Spec => []CurrentIsHealthy
<1>1. IInv => CurrentIsHealthy
  BY DEF IInv
<1> QED
  BY <1>1, Invariant, PTL

\* The current endpoint is given up only for as many errors in a row, reported since it
\* was taken, as the threshold says.
THEOREM SwitchesAreEarned == Spec => GivenUpForErrors
<1>1. IInv /\ [Next]_vars => [current' # current => streak >= MaxFailCount]_vars
  <2> SUFFICES ASSUME IInv, [Next]_vars, current' # current
               PROVE  streak >= MaxFailCount
    OBVIOUS
  <2>1. SwitchToNextEndpoint
    BY DEF Next, Listening, Checking, ReportSuccess, ReportError, StampError, StayWithCurrent,
       StartCheck, CheckEndpoint, Flap, Age, vars, endpoints
  <2> QED
    BY <2>1 DEF SwitchToNextEndpoint, IInv, CountIsStreak
<1> QED
  BY <1>1, Invariant, PTL DEF Spec, GivenUpForErrors
================================================================================
