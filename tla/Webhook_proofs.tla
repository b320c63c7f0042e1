----------------------------- MODULE Webhook_proofs -----------------------------
(***************************************************************************)
(* For any number of endpoints: the retries, timeouts, late and lost       *)
(* answers of a call step by step implement a delivery, and every endpoint *)
(* is asked until it answers or its attempts are used up.  For every width *)
(* of the two number types: every endpoint is told the same amount, as     *)
(* near to the chain's as the types allow.                                 *)
(***************************************************************************)
EXTENDS Webhook, WellFoundedInduction, TLAPS

(* The invariant of the loop, in parts.  The amounts have one of their own, ToldInv. *)
Typed ==
  /\ loop \in LoopPlaces /\ cancelled \in BOOLEAN
  /\ attempt \in Nat /\ interval \in Nat
  /\ addressed \subseteq Endpoint /\ position \in 1..Len(Order) + 1 /\ lastErr \in BOOLEAN
  /\ outcome \in {"open", "ok", "failed"}
  /\ late \subseteq addressed /\ accepted \subseteq Endpoint /\ answered \subseteq Endpoint
  /\ asked \in [Endpoint -> Nat] /\ waited \in [Endpoint -> Nat]

\* Without an error, whoever the call is through with has the event.
ThroughHaveIt ==
  ~lastErr => \A i \in 1..position - 1 : Order[i] \in addressed => Order[i] \in accepted

\* A loop runs for an endpoint of the list only, and the call comes back after the last.
LoopHasEndpoint == loop # "off" => Sending
ReturnedIsThrough == outcome # "open" => position > Len(Order)

\* How far the loop has come with an endpoint that it goes on asking.
Waits == <<0, 1, 3, 7, 15>>
Intervals == <<1, 2, 4, 8, 16>>

Progressed ==
  loop # "off" =>
    LET e == Current IN
    /\ attempt \in 1..Config(e).MaxAttempts
    /\ loop = "wait" => attempt < Config(e).MaxAttempts
    /\ interval = Intervals[attempt] /\ waited[e] = Waits[attempt]
    /\ e \in addressed => asked[e] = IF loop = "check" THEN attempt - 1 ELSE attempt

NotYetAsked ==
  \A i \in DOMAIN Order :
    (i > position \/ (i = position /\ loop = "off")) =>
      asked[Order[i]] = 0 /\ waited[Order[i]] = 0

DInv == Typed /\ ThroughHaveIt /\ LoopHasEndpoint /\ ReturnedIsThrough

AInv == Progressed /\ NotYetAsked /\ AskedUntilAnswered

LEMMA ListFacts ==
  /\ Len(Order) \in Nat /\ DOMAIN Order = 1..Len(Order)
  /\ \A i \in 1..Len(Order) : Order[i] \in Endpoint
BY WebhookAssumption

LEMMA Distinct == \A i, j \in DOMAIN Order : Order[i] = Order[j] => i = j
BY WebhookAssumption

LEMMA ConfigFacts ==
  \A e \in Endpoint :
    /\ Config(e).InitialInterval = 1 /\ Config(e).MaxInterval = 30 /\ Config(e).Multiplier = 2
    /\ e \in Persistent => Config(e).MaxAttempts = 5 /\ Patience(e) = 15
    /\ e \notin Persistent => Config(e).MaxAttempts = 3 /\ Patience(e) = 3
BY DEF Config, Patience

\* What an attempt that fails, in one way or another, does to the loop and the list.
LEMMA FailedAttempt ==
  ASSUME DInv, Sending, AttemptFails
  PROVE  /\ loop = "call" /\ loop' \in {"off", "wait"} /\ attempt' \in Nat /\ interval' \in Nat
         /\ \/ loop' = "off" /\ position' = position + 1 /\ lastErr' = TRUE
            \/ loop' = "wait" /\ position' = position /\ lastErr' = lastErr
<1>1. CASE LastAttempt(Config(Current))
  BY <1>1 DEF DInv, Typed, AttemptFails, Fails, Leave, NextEndpoint
<1>2. CASE ~LastAttempt(Config(Current))
  BY <1>2 DEF DInv, Typed, AttemptFails, Fails, SameEndpoint
<1> QED
  BY <1>1, <1>2

LEMMA InitDInv == Init => DInv
<1> SUFFICES ASSUME Init
             PROVE  DInv
  OBVIOUS
<1>1. position = 1 /\ outcome = "open" /\ loop = "off"
  BY DEF Init, RetryInit
<1>2. Typed
  <2>1. /\ loop \in LoopPlaces /\ cancelled \in BOOLEAN /\ attempt \in Nat /\ interval \in Nat
        /\ lastErr \in BOOLEAN /\ outcome \in {"open", "ok", "failed"}
    BY DEF Init, RetryInit, LoopPlaces
  <2>2. addressed \subseteq Endpoint
    BY DEF Init
  <2>3. late \subseteq addressed /\ accepted \subseteq Endpoint /\ answered \subseteq Endpoint
    BY DEF Init
  <2>4. asked \in [Endpoint -> Nat] /\ waited \in [Endpoint -> Nat]
    BY DEF Init
  <2> QED
    BY <1>1, <2>1, <2>2, <2>3, <2>4, ListFacts DEF Typed
<1>3. ThroughHaveIt /\ LoopHasEndpoint /\ ReturnedIsThrough
  BY <1>1 DEF ThroughHaveIt, LoopHasEndpoint, ReturnedIsThrough
<1> QED
  BY <1>2, <1>3 DEF DInv

LEMMA NextDInv == DInv /\ [Next]_vars => DInv'
<1> SUFFICES ASSUME DInv, [Next]_vars
             PROVE  DInv'
  OBVIOUS
<1> USE ListFacts DEF DInv, Typed, ThroughHaveIt, LoopHasEndpoint, ReturnedIsThrough
<1>1. CASE BeginEndpoint
  BY <1>1, ConfigFacts DEF BeginEndpoint, Begin, Sending, Current, LoopPlaces, event, history
<1>2. CASE TryAgain
  <2>1. Current \in Endpoint
    BY <1>2 DEF TryAgain, Sending, Current
  <2> QED
    BY <1>2, <2>1 DEF TryAgain, Attempt, Sending, LoopPlaces, event
<1>3. CASE Skip
  BY <1>3 DEF Skip, Succeeds, Leave, NextEndpoint, Sending, Current, LoopPlaces, event, history
<1>4. CASE AnswerOK
  BY <1>4 DEF AnswerOK, Succeeds, Leave, Process, NextEndpoint, Sending, Current, LoopPlaces, event
<1>5. CASE AnswerError \/ LoseAnswer \/ TimeOut
  <2>1. Sending /\ AttemptFails /\ Current \in addressed
    BY <1>5 DEF AnswerError, LoseAnswer, TimeOut
  <2>2. UNCHANGED <<cancelled, event, outcome, answered, asked, waited>>
    BY <1>5 DEF AnswerError, LoseAnswer, TimeOut, history
  <2>3. /\ accepted \subseteq accepted' /\ accepted' \subseteq Endpoint
        /\ late' \subseteq addressed
    BY <1>5, <2>1 DEF AnswerError, LoseAnswer, TimeOut, Process
  <2>4. CASE loop' = "off" /\ position' = position + 1 /\ lastErr' = TRUE
    BY <2>1, <2>2, <2>3, <2>4, FailedAttempt DEF Sending, LoopPlaces, event
  <2>5. CASE loop' = "wait" /\ position' = position /\ lastErr' = lastErr
    BY <2>1, <2>2, <2>3, <2>5, FailedAttempt DEF Sending, LoopPlaces, event
  <2> QED
    BY <2>1, <2>4, <2>5, FailedAttempt
<1>6. CASE WaitOver
  <2>1. Current \in Endpoint
    BY <1>6 DEF WaitOver, Sending, Current
  <2>2. Grown(Config(Current)) \in Nat
    BY <2>1, ConfigFacts DEF Grown
  <2>3. loop = "wait" /\ loop' = "check" /\ attempt' \in Nat /\ interval' \in Nat
    BY <1>6, <2>2 DEF WaitOver, WaitEnds
  <2>4. waited' \in [Endpoint -> Nat]
    BY <1>6, <2>1 DEF WaitOver
  <2> QED
    BY <1>6, <2>3, <2>4 DEF WaitOver, Sending, LoopPlaces, event
<1>7. CASE CancelledEndpoint
  BY <1>7 DEF CancelledEndpoint, GiveWay, Leave, NextEndpoint, Sending, LoopPlaces, event, history
<1>8. CASE Return
  BY <1>8 DEF Return, Sending, event, retry, history
<1>9. CASE CancelCall
  BY <1>9 DEF CancelCall, Cancel, Sending, event, retry, history
<1>10. ASSUME NEW e \in Endpoint, ProcessLate(e)
       PROVE  DInv'
  BY <1>10 DEF ProcessLate, Process, Sending, event, retry, history
<1>11. CASE UNCHANGED vars
  BY <1>11 DEF vars, Sending, event, retry, history
<1> QED
  BY <1>1, <1>2, <1>3, <1>4, <1>5, <1>6, <1>7, <1>8, <1>9, <1>10, <1>11 DEF Next, Step, Answer

LEMMA DInvariant == Spec => []DInv
<1> QED
  BY InitDInv, NextDInv, PTL DEF Spec

\* A step of the call is a step of the delivery, or none.
LEMMA StepDelivers == DInv /\ [Next]_vars => [Promise!Next]_(Promise!vars)
<1> SUFFICES ASSUME DInv, [Next]_vars
             PROVE  [Promise!Next]_(Promise!vars)
  OBVIOUS
<1> USE ListFacts DEF Promise!Next, Promise!Return, Promise!Accept, Promise!vars
<1>1. CASE BeginEndpoint \/ TryAgain \/ Skip \/ AnswerError \/ TimeOut \/ WaitOver
           \/ CancelledEndpoint \/ CancelCall
  BY <1>1 DEF BeginEndpoint, TryAgain, Skip, AnswerError, TimeOut, WaitOver, CancelledEndpoint,
     CancelCall, event
<1>2. CASE AnswerOK \/ LoseAnswer
  <2>1. Current \in addressed /\ Current \in Endpoint
    BY <1>2 DEF AnswerOK, LoseAnswer, Sending, Current, DInv, Typed
  <2> QED
    BY <1>2, <2>1 DEF AnswerOK, LoseAnswer, Process, event
<1>3. ASSUME NEW e \in Endpoint, ProcessLate(e)
      PROVE  [Promise!Next]_(Promise!vars)
  BY <1>3 DEF ProcessLate, Process, event, DInv, Typed
<1>4. CASE Return
  <2>1. ~lastErr => addressed \subseteq accepted
    <3> SUFFICES ASSUME ~lastErr, NEW e \in addressed
                 PROVE  e \in accepted
      OBVIOUS
    <3>1. PICK i \in DOMAIN Order : e = Order[i]
      BY WebhookAssumption DEF DInv, Typed
    <3> QED
      BY <1>4, <3>1 DEF Return, DInv, Typed, ThroughHaveIt
  <2> QED
    BY <1>4, <2>1 DEF Return, event, DInv, Typed
<1>5. CASE UNCHANGED vars
  BY <1>5 DEF vars, event
<1> QED
  BY <1>1, <1>2, <1>3, <1>4, <1>5 DEF Next, Step, Answer

\* One call implements a delivery but for its end: what the endpoints process and what
\* the call says is what Delivery allows, whatever is retried, lost or late.
THEOREM CallDelivers == Spec => Promise!Init /\ [][Promise!Next]_(Promise!vars)
<1>1. Init => Promise!Init
  BY DEF Init, Promise!Init
<1> QED
  BY <1>1, DInvariant, StepDelivers, PTL DEF Spec

------------------------------------------------------------------------------
(* Attempts and waits. *)

LEMMA Growth ==
  /\ \A n \in 1..4 : /\ Waits[n + 1] = Waits[n] + Intervals[n]
                    /\ Intervals[n + 1] = 2 * Intervals[n] /\ Intervals[n + 1] <= 30
  /\ Waits[1] = 0 /\ Intervals[1] = 1 /\ Waits[3] = 3 /\ Waits[5] = 15
<1>1. ASSUME NEW n \in 1..4
      PROVE  /\ Waits[n + 1] = Waits[n] + Intervals[n]
             /\ Intervals[n + 1] = 2 * Intervals[n] /\ Intervals[n + 1] <= 30
  <2>1. n = 1 \/ n = 2 \/ n = 3 \/ n = 4
    OBVIOUS
  <2> QED
    BY <2>1 DEF Waits, Intervals
<1> QED
  BY <1>1 DEF Waits, Intervals

\* After its last attempt an endpoint was asked to the end of its patience.
LEMMA Exhausted ==
  ASSUME DInv, AInv, Sending, loop = "call", Current \in addressed, LastAttempt(Config(Current))
  PROVE  asked[Current] = Config(Current).MaxAttempts /\ waited[Current] = Patience(Current)
<1>1. Current \in Endpoint
  BY ListFacts DEF Sending, Current, DInv, Typed
<1>2. /\ attempt = Config(Current).MaxAttempts /\ waited[Current] = Waits[attempt]
      /\ asked[Current] = attempt
  BY <1>1, ConfigFacts DEF AInv, Progressed, LastAttempt, DInv, Typed
<1> QED
  BY <1>1, <1>2, ConfigFacts, Growth

LEMMA InitAInv == Init => AInv
<1> SUFFICES ASSUME Init
             PROVE  AInv
  OBVIOUS
<1>1. position = 1 /\ loop = "off"
  BY DEF Init, RetryInit
<1>2. asked = [e \in Endpoint |-> 0] /\ waited = [e \in Endpoint |-> 0]
  BY DEF Init
<1>3. Progressed /\ AskedUntilAnswered
  BY <1>1 DEF Progressed, AskedUntilAnswered
<1>4. NotYetAsked
  BY <1>2, ListFacts DEF NotYetAsked
<1> QED
  BY <1>3, <1>4 DEF AInv

LEMMA NextAInv == DInv /\ AInv /\ [Next]_vars => AInv'
<1> SUFFICES ASSUME DInv, AInv, [Next]_vars
             PROVE  AInv'
  OBVIOUS
<1> USE ListFacts
<1>a. Sending => position \in DOMAIN Order /\ Current \in Endpoint
  BY DEF Sending, Current, DInv, Typed
<1>b. Sending => \A i \in DOMAIN Order : Order[i] \in Endpoint /\ (i # position => Order[i] # Current)
  BY <1>a, Distinct DEF Current
<1>1. CASE BeginEndpoint
  <2>1. Current \in Endpoint /\ asked[Current] = 0 /\ waited[Current] = 0
    BY <1>1, <1>a DEF BeginEndpoint, Begin, AInv, NotYetAsked, Current
  <2>2. Progressed'
    BY <1>1, <2>1, ConfigFacts, Growth DEF BeginEndpoint, Begin, Progressed, Current, event, history
  <2>3. NotYetAsked' /\ AskedUntilAnswered'
    BY <1>1 DEF BeginEndpoint, Begin, AInv, NotYetAsked, AskedUntilAnswered, event, history
  <2> QED
    BY <2>2, <2>3 DEF AInv
<1>2. CASE TryAgain
  <2>1. Progressed'
    BY <1>2, <1>a DEF TryAgain, Attempt, AInv, Progressed, Current, event, DInv, Typed
  <2>2. NotYetAsked'
    BY <1>2, <1>a, <1>b DEF TryAgain, Attempt, AInv, NotYetAsked, DInv, Typed
  <2>3. AskedUntilAnswered'
    <3> SUFFICES ASSUME NEW i \in 1..position - 1
                 PROVE  \/ Order[i] \in answered \/ cancelled \/ Order[i] \notin addressed
                        \/ /\ asked'[Order[i]] = Config(Order[i]).MaxAttempts
                           /\ waited[Order[i]] = Patience(Order[i])
      BY <1>2 DEF TryAgain, AskedUntilAnswered, event
    <3>1. Order[i] # Current
      <4>1. Sending
        BY <1>2 DEF TryAgain
      <4> QED
        BY <1>b, <4>1 DEF DInv, Typed
    <3> QED
      BY <1>2, <1>a, <3>1 DEF TryAgain, AInv, AskedUntilAnswered, DInv, Typed
  <2> QED
    BY <2>1, <2>2, <2>3 DEF AInv
<1>3. CASE Skip
  BY <1>3 DEF Skip, Succeeds, Leave, NextEndpoint, Current, AInv, Progressed, NotYetAsked,
     AskedUntilAnswered, event, history, DInv, Typed
<1>4. CASE AnswerOK
  BY <1>4 DEF AnswerOK, Succeeds, Leave, NextEndpoint, Current, AInv, Progressed, NotYetAsked,
     AskedUntilAnswered, event, DInv, Typed
<1>5. CASE AnswerError \/ LoseAnswer \/ TimeOut
  <2>1. Sending /\ AttemptFails /\ Current \in addressed /\ loop = "call"
    BY <1>5 DEF AnswerError, LoseAnswer, TimeOut, AttemptFails, Fails
  <2>2. UNCHANGED <<cancelled, event, answered, asked, waited>>
    BY <1>5 DEF AnswerError, LoseAnswer, TimeOut, history
  <2>3. CASE LastAttempt(Config(Current))
    <3>1. loop' = "off" /\ position' = position + 1
      BY <2>1, <2>3 DEF AttemptFails, Fails, Leave, NextEndpoint
    <3>2. Progressed' /\ NotYetAsked'
      BY <2>2, <3>1 DEF AInv, Progressed, NotYetAsked, DInv, Typed
    <3>3. AskedUntilAnswered'
      BY <2>1, <2>2, <2>3, <3>1, Exhausted DEF AInv, AskedUntilAnswered, Current, event, DInv, Typed
    <3> QED
      BY <3>2, <3>3 DEF AInv
  <2>4. CASE ~LastAttempt(Config(Current))
    <3>1. loop' = "wait" /\ UNCHANGED <<attempt, interval, position>>
      BY <2>1, <2>4 DEF AttemptFails, Fails, SameEndpoint
    <3>2. attempt < Config(Current).MaxAttempts
      BY <1>a, <2>1, <2>4, ConfigFacts DEF LastAttempt, AInv, Progressed
    <3>3. Progressed'
      BY <2>1, <2>2, <3>1, <3>2 DEF AInv, Progressed, Current, event
    <3>4. NotYetAsked' /\ AskedUntilAnswered'
      BY <2>1, <2>2, <3>1 DEF AInv, NotYetAsked, AskedUntilAnswered, event
    <3> QED
      BY <3>3, <3>4 DEF AInv
  <2> QED
    BY <2>3, <2>4
<1>6. CASE WaitOver
  <2>1. Sending /\ loop = "wait" /\ loop' = "check" /\ attempt' = attempt + 1
    BY <1>6 DEF WaitOver, WaitEnds
  <2>2. /\ attempt \in 1..4 /\ attempt' \in 1..Config(Current).MaxAttempts
        /\ interval = Intervals[attempt] /\ waited[Current] = Waits[attempt]
    BY <1>a, <2>1, ConfigFacts DEF AInv, Progressed
  <2>3. interval' = Intervals[attempt']
    <3>1. Intervals[attempt + 1] = 2 * Intervals[attempt] /\ Intervals[attempt + 1] <= 30
      BY <2>2, Growth
    <3>2. interval \in Nat
      BY DEF DInv, Typed
    <3>3. Intervals[attempt'] = interval * 2 /\ interval * 2 <= 30
      BY <2>1, <2>2, <3>1, <3>2
    <3>4. interval' = Grown(Config(Current))
      BY <1>6 DEF WaitOver, WaitEnds
    <3> QED
      BY <1>a, <2>1, <3>3, <3>2, <3>4, ConfigFacts DEF Grown
  <2>4. waited'[Current] = Waits[attempt'] /\ \A e \in Endpoint : e # Current => waited'[e] = waited[e]
    BY <1>6, <1>a, <2>1, <2>2, Growth DEF WaitOver, DInv, Typed
  <2>5. UNCHANGED <<cancelled, event, position, answered, asked>>
    BY <1>6 DEF WaitOver
  <2>6. Progressed'
    BY <1>a, <2>1, <2>2, <2>3, <2>4, <2>5, ConfigFacts DEF AInv, Progressed, Current, event
  <2>7. NotYetAsked'
    BY <1>a, <1>b, <2>1, <2>4, <2>5 DEF AInv, NotYetAsked, DInv, Typed
  <2>8. AskedUntilAnswered'
    <3> SUFFICES ASSUME NEW i \in 1..position - 1
                 PROVE  \/ Order[i] \in answered \/ cancelled \/ Order[i] \notin addressed
                        \/ /\ asked[Order[i]] = Config(Order[i]).MaxAttempts
                           /\ waited'[Order[i]] = Patience(Order[i])
      BY <2>5 DEF AskedUntilAnswered, event
    <3>1. Order[i] # Current /\ Order[i] \in Endpoint
      BY <1>b, <2>1 DEF DInv, Typed
    <3> QED
      BY <2>4, <3>1 DEF AInv, AskedUntilAnswered
  <2> QED
    BY <2>6, <2>7, <2>8 DEF AInv
<1>7. CASE CancelledEndpoint
  BY <1>7 DEF CancelledEndpoint, GiveWay, Leave, NextEndpoint, AInv, Progressed, NotYetAsked,
     AskedUntilAnswered, event, history, DInv, Typed
<1>8. CASE Return \/ CancelCall \/ \E e \in Endpoint : ProcessLate(e)
  <2>1. UNCHANGED <<retry, event, position, answered, asked, waited>> /\ (cancelled => cancelled')
    BY <1>8 DEF Return, CancelCall, Cancel, ProcessLate, history
  <2> QED
    BY <2>1 DEF AInv, Progressed, NotYetAsked, AskedUntilAnswered, Current, retry, event
<1>9. CASE UNCHANGED vars
  BY <1>9 DEF vars, AInv, Progressed, NotYetAsked, AskedUntilAnswered, Current, retry, event, history
<1> QED
  BY <1>1, <1>2, <1>3, <1>4, <1>5, <1>6, <1>7, <1>8, <1>9 DEF Next, Step, Answer

\* An endpoint the call is through with has answered, or was asked to its last attempt
\* over the whole of its patience, unless the process is ending.
THEOREM AlwaysAskedUntilAnswered == Spec => []AskedUntilAnswered
<1>1. AInv => AskedUntilAnswered
  BY DEF AInv
<1> QED
  BY <1>1, DInvariant, InitAInv, NextAInv, PTL DEF Spec

------------------------------------------------------------------------------
(* Powers of two.  What is recursive is proved of the least number for which it     *)
(* would be false.                                                                  *)

\* Every set of numbers with an element has a least one.
Less == OpToRel(<, Nat)

LEMMA LeastElement ==
  ASSUME NEW S, S \subseteq Nat, S # {}
  PROVE  \E x \in S : \A y \in S : x <= y
<1>1. IsWellFoundedOn(Less, Nat)
  BY NatLessThanWellFounded DEF Less
<1>2. \A x, y \in Nat : x < y => <<x, y>> \in Less
  <2> SUFFICES ASSUME NEW x \in Nat, NEW y \in Nat, x < y
               PROVE  <<x, y>> \in Less
    OBVIOUS
  <2>1. <<x, y>> \in Nat \X Nat /\ <<x, y>>[1] = x /\ <<x, y>>[2] = y
    OBVIOUS
  <2> QED
    BY <2>1 DEF Less, OpToRel
<1>3. PICK x \in S : \A y \in S : ~(<<y, x>> \in Less)
  BY <1>1, WFMin
<1>4. ASSUME NEW y \in S
      PROVE  x <= y
  <2>1. x \in Nat /\ y \in Nat
    OBVIOUS
  <2>2. ~(y < x)
    BY <1>2, <1>3, <2>1
  <2> QED
    BY <2>1, <2>2
<1> QED
  BY <1>4

\* The powers up to the n-th.
Doubles(p, n) ==
  /\ p \in [0..n -> Nat \ {0}] /\ p[0] = 1
  /\ \A i \in 0..n : i > 0 => p[i] = 2 * p[i - 1]

LEMMA DoublesExist == \A n \in Nat : \E p : Doubles(p, n)
<1> DEFINE S == {n \in Nat : ~\E p : Doubles(p, n)}
<1> SUFFICES ASSUME S # {}
             PROVE  FALSE
  OBVIOUS
<1>1. PICK n \in S : \A m \in S : n <= m
  BY LeastElement
<1>2. n # 0
  <2> DEFINE p == [i \in 0..0 |-> 1]
  <2>1. Doubles(p, 0)
    BY DEF Doubles
  <2> QED
    BY <2>1
<1>3. n \in Nat /\ n - 1 \in Nat /\ n - 1 \notin S
  BY <1>1, <1>2
<1>4. PICK p : Doubles(p, n - 1)
  BY <1>3
<1> DEFINE q == [i \in 0..n |-> IF i = n THEN 2 * p[n - 1] ELSE p[i]]
<1>5. Doubles(q, n)
  <2>1. p \in [0..(n - 1) -> Nat \ {0}] /\ p[0] = 1 /\ \A i \in 0..(n - 1) : i > 0 => p[i] = 2 * p[i - 1]
    BY <1>4 DEF Doubles
  <2>2. \A i \in 0..n : i # n => i \in 0..(n - 1)
    BY <1>3
  <2>3. q \in [0..n -> Nat \ {0}]
    BY <1>3, <2>1, <2>2
  <2>4. q[0] = 1
    BY <1>3, <1>2, <2>1
  <2>5. ASSUME NEW i \in 0..n, i > 0
        PROVE  q[i] = 2 * q[i - 1]
    BY <1>3, <2>1, <2>2, <2>5
  <2> QED
    BY <2>3, <2>4, <2>5 DEF Doubles
<1> QED
  BY <1>1, <1>5

LEMMA DoublesAgree ==
  ASSUME NEW m \in Nat, NEW n \in Nat, NEW p, NEW q, Doubles(p, m), Doubles(q, n),
         NEW i \in Nat, i <= m, i <= n
  PROVE  p[i] = q[i]
<1> DEFINE S == {j \in Nat : j <= m /\ j <= n /\ p[j] # q[j]}
<1> SUFFICES ASSUME S # {}
             PROVE  FALSE
  OBVIOUS
<1>1. PICK j \in S : \A k \in S : j <= k
  BY LeastElement
<1>2. j # 0
  BY <1>1 DEF Doubles
<1>3. j \in Nat /\ j - 1 \in Nat /\ j - 1 \notin S /\ j <= m /\ j <= n
  BY <1>1, <1>2
<1>4. p[j - 1] = q[j - 1]
  BY <1>3
<1>5. p[j] = 2 * p[j - 1] /\ q[j] = 2 * q[j - 1]
  BY <1>2, <1>3 DEF Doubles
<1> QED
  BY <1>1, <1>4, <1>5

LEMMA TwoToFacts ==
  /\ \A n \in Nat : TwoTo[n] \in Nat /\ TwoTo[n] > 0 /\ TwoTo[n + 1] = 2 * TwoTo[n]
  /\ TwoTo[0] = 1
<1> DEFINE Upto(n) == CHOOSE p : Doubles(p, n)
           g == [n \in Nat |-> Upto(n)[n]]
<1>1. \A n \in Nat : Doubles(Upto(n), n)
  BY DoublesExist
<1> HIDE DEF Upto
<1>2. \A n \in Nat : g[n] \in Nat \ {0}
  BY <1>1 DEF Doubles
<1>3. g[0] = 1
  BY <1>1 DEF Doubles
<1>4. ASSUME NEW n \in Nat, n # 0
      PROVE  g[n] = 2 * g[n - 1]
  <2>1. n - 1 \in Nat /\ n \in 0..n /\ n > 0 /\ n - 1 <= n /\ n - 1 <= n - 1
    BY <1>4
  <2>2. Upto(n)[n] = 2 * Upto(n)[n - 1]
    BY <1>1, <2>1 DEF Doubles
  <2>3. Upto(n)[n - 1] = Upto(n - 1)[n - 1]
    BY <1>1, <2>1, DoublesAgree
  <2> QED
    BY <2>1, <2>2, <2>3
<1>5. g = [n \in Nat |-> IF n = 0 THEN 1 ELSE 2 * g[n - 1]]
  BY <1>3, <1>4
<1> HIDE DEF g
<1>6. TwoTo = [n \in Nat |-> IF n = 0 THEN 1 ELSE 2 * TwoTo[n - 1]]
  BY <1>5 DEF TwoTo
<1>7. TwoTo[0] = 1
  BY <1>6
<1>8. ASSUME NEW n \in Nat
      PROVE  TwoTo[n + 1] = 2 * TwoTo[n]
  <2>1. n + 1 \in Nat /\ n + 1 # 0 /\ (n + 1) - 1 = n
    OBVIOUS
  <2>2. TwoTo[n + 1] = IF n + 1 = 0 THEN 1 ELSE 2 * TwoTo[(n + 1) - 1]
    BY <1>6, <2>1
  <2> QED
    BY <2>1, <2>2
<1>9. \A n \in Nat : TwoTo[n] \in Nat /\ TwoTo[n] > 0
  <2> DEFINE S == {n \in Nat : ~(TwoTo[n] \in Nat /\ TwoTo[n] > 0)}
  <2> SUFFICES ASSUME S # {}
               PROVE  FALSE
    OBVIOUS
  <2>1. PICK n \in S : \A m \in S : n <= m
    BY LeastElement
  <2>2. n # 0
    BY <1>7, <2>1
  <2>3. n - 1 \in Nat /\ n - 1 \notin S /\ (n - 1) + 1 = n
    BY <2>1, <2>2
  <2>4. TwoTo[n - 1] \in Nat /\ TwoTo[n - 1] > 0 /\ TwoTo[n] = 2 * TwoTo[n - 1]
    BY <1>8, <2>3
  <2>5. TwoTo[n] \in Nat /\ TwoTo[n] > 0
    BY <2>4
  <2> QED
    BY <2>1, <2>5
<1> QED
  BY <1>7, <1>8, <1>9

LEMMA TwoToGrows ==
  /\ \A n \in Nat : n < TwoTo[n]
  /\ \A n \in Nat : \A k \in Nat : TwoTo[n + k] = TwoTo[n] * TwoTo[k]
<1>1. \A n \in Nat : n < TwoTo[n]
  <2> DEFINE S == {n \in Nat : ~(n < TwoTo[n])}
  <2> SUFFICES ASSUME S # {}
               PROVE  FALSE
    OBVIOUS
  <2>1. PICK n \in S : \A m \in S : n <= m
    BY LeastElement
  <2>2. n # 0
    BY TwoToFacts, <2>1
  <2>3. n - 1 \in Nat /\ n - 1 \notin S /\ (n - 1) + 1 = n
    BY <2>1, <2>2
  <2>4. n - 1 < TwoTo[n - 1] /\ TwoTo[n] = 2 * TwoTo[n - 1] /\ TwoTo[n - 1] \in Nat
    BY TwoToFacts, <2>3
  <2> QED
    BY <2>1, <2>3, <2>4
<1>2. ASSUME NEW n \in Nat
      PROVE  \A k \in Nat : TwoTo[n + k] = TwoTo[n] * TwoTo[k]
  <2> DEFINE S == {k \in Nat : TwoTo[n + k] # TwoTo[n] * TwoTo[k]}
  <2> SUFFICES ASSUME S # {}
               PROVE  FALSE
    OBVIOUS
  <2>1. PICK k \in S : \A m \in S : k <= m
    BY LeastElement
  <2>2. k # 0
    BY TwoToFacts, <2>1
  <2>3. k - 1 \in Nat /\ k - 1 \notin S /\ (k - 1) + 1 = k /\ (n + (k - 1)) + 1 = n + k /\ n + (k - 1) \in Nat
    BY <2>1, <2>2
  <2>4. TwoTo[k] = 2 * TwoTo[k - 1] /\ TwoTo[n + k] = 2 * TwoTo[n + (k - 1)]
    BY TwoToFacts, <2>3
  <2>5. TwoTo[n + (k - 1)] = TwoTo[n] * TwoTo[k - 1]
    BY <2>3
  <2>6. TwoTo[n] \in Nat /\ TwoTo[k - 1] \in Nat
    BY TwoToFacts, <2>3
  <2>7. \A x, y \in Nat : 2 * (x * y) = x * (2 * y)
    OBVIOUS
  <2> QED
    BY <2>1, <2>4, <2>5, <2>6, <2>7
<1> QED
  BY <1>1, <1>2

LEMMA TwoToOrder ==
  ASSUME NEW m \in Nat, NEW n \in Nat
  PROVE  m <= n <=> TwoTo[m] <= TwoTo[n]
<1>1. \A i, j \in Nat : i <= j => TwoTo[i] <= TwoTo[j]
  <2> SUFFICES ASSUME NEW i \in Nat, NEW j \in Nat, i <= j
               PROVE  TwoTo[i] <= TwoTo[j]
    OBVIOUS
  <2>1. j - i \in Nat /\ i + (j - i) = j
    OBVIOUS
  <2>2. TwoTo[j] = TwoTo[i] * TwoTo[j - i]
    BY <2>1, TwoToGrows
  <2>3. TwoTo[i] \in Nat /\ TwoTo[j - i] \in Nat /\ TwoTo[j - i] > 0
    BY <2>1, TwoToFacts
  <2>4. \A x, y \in Nat : y > 0 => x <= x * y
    OBVIOUS
  <2> QED
    BY <2>2, <2>3, <2>4
<1>2. ASSUME n < m
      PROVE  TwoTo[n] < TwoTo[m]
  <2>1. TwoTo[n + 1] <= TwoTo[m] /\ TwoTo[n + 1] = 2 * TwoTo[n]
    BY <1>1, <1>2, TwoToFacts
  <2>2. TwoTo[n] \in Nat /\ TwoTo[n] > 0 /\ TwoTo[m] \in Nat
    BY TwoToFacts
  <2> QED
    BY <2>1, <2>2
<1>3. TwoTo[n] \in Nat /\ TwoTo[m] \in Nat
  BY TwoToFacts
<1> QED
  BY <1>1, <1>2, <1>3

------------------------------------------------------------------------------
(* The amount that is sent. *)

LEMMA DigitsFacts ==
  ASSUME NEW a \in Nat, a > 0
  PROVE  Digits(a) \in 1..a /\ TwoTo[Digits(a) - 1] <= a /\ a < TwoTo[Digits(a)]
<1> DEFINE S == {n \in Nat : a < TwoTo[n]}
<1>1. a \in S
  BY TwoToGrows
<1>2. PICK n \in S : \A m \in S : n <= m
  BY <1>1, LeastElement
<1>3. n # 0
  BY <1>2, TwoToFacts
<1>4. n \in 1..a /\ n - 1 \in Nat /\ n - 1 \notin S
  BY <1>1, <1>2, <1>3
<1>5. TwoTo[n - 1] <= a /\ a < TwoTo[n]
  <2>1. TwoTo[n - 1] \in Nat
    BY <1>4, TwoToFacts
  <2> QED
    BY <1>2, <1>4, <2>1
<1> QED
  BY <1>4, <1>5 DEF Digits

\* A number of whole units is within half a unit of what is rounded to it.
LEMMA RoundFacts ==
  ASSUME NEW a \in Nat, NEW half \in Nat, half > 0, NEW unit, unit = 2 * half
  PROVE  LET low == a \div unit
             rest == a % unit
         IN /\ low \in Nat /\ rest \in Nat /\ a = unit * low + rest
            /\ rest <= half => (unit * low \in Nat /\ unit * low <= a /\ a - unit * low <= half)
            /\ rest >= half => (unit * (low + 1) \in Nat /\ unit * (low + 1) >= a
                                /\ unit * (low + 1) - a <= half)
<1> DEFINE low == a \div unit
           rest == a % unit
<1>1. unit \in Nat /\ unit > 0
  OBVIOUS
<1>2. low \in Nat /\ rest \in Nat /\ rest < unit /\ a = unit * low + rest
  BY <1>1
<1>3. unit * low \in Nat
  BY <1>1, <1>2
<1>4. unit * (low + 1) = unit * low + unit
  BY <1>1, <1>2
<1> HIDE DEF low, rest
<1>5. rest <= half => (unit * low \in Nat /\ unit * low <= a /\ a - unit * low <= half)
  BY <1>2, <1>3
<1>6. rest >= half => (unit * (low + 1) \in Nat /\ unit * (low + 1) >= a /\ unit * (low + 1) - a <= half)
  BY <1>1, <1>2, <1>3, <1>4
<1> QED
  BY <1>2, <1>5, <1>6 DEF low, rest

\* A float64 is a number, the amount itself up to the width of the significand, and
\* within half a unit of it in any case.
LEMMA FloatFacts ==
  ASSUME NEW a \in Nat
  PROVE  /\ Float(a) \in Nat
         /\ a <= TwoTo[FloatBits] => Float(a) = a
         /\ \E half \in Nat :
              /\ half * TwoTo[FloatBits] <= a
              /\ Float(a) <= a + half /\ a <= Float(a) + half
<1>1. FloatBits \in Nat /\ FloatBits > 0
  BY WebhookAssumption
<1>2. TwoTo[FloatBits] \in Nat /\ TwoTo[FloatBits] > 0
  BY <1>1, TwoToFacts
<1>3. CASE a < TwoTo[FloatBits]
  <2>1. Float(a) = a
    BY <1>3 DEF Float
  <2>2. 0 * TwoTo[FloatBits] <= a
    BY <1>2
  <2> QED
    BY <1>2, <1>3, <2>1, <2>2
<1>4. CASE ~(a < TwoTo[FloatBits])
  <2> DEFINE d == Digits(a)
             e == d - FloatBits
             half == TwoTo[e - 1]
             unit == TwoTo[e]
  <2>1. a > 0 /\ TwoTo[FloatBits] <= a
    BY <1>2, <1>4
  <2>2. d \in Nat /\ d > 0 /\ TwoTo[d - 1] <= a /\ a < TwoTo[d]
    BY <2>1, DigitsFacts
  <2> HIDE DEF d
  <2>3. FloatBits < d
    <3>1. TwoTo[d] \in Nat
      BY <2>2, TwoToFacts
    <3>2. ~(TwoTo[d] <= TwoTo[FloatBits])
      BY <1>2, <2>1, <2>2, <3>1
    <3> QED
      BY <1>1, <2>2, <3>2, TwoToOrder
  <2>4. e \in Nat /\ e - 1 \in Nat /\ (e - 1) + 1 = e /\ (e - 1) + FloatBits = d - 1 /\ d - 1 \in Nat
    BY <1>1, <2>2, <2>3
  <2>5. half \in Nat /\ half > 0 /\ unit = 2 * half
    BY <2>4, TwoToFacts
  <2>6. half * TwoTo[FloatBits] <= a
    <3>1. TwoTo[(e - 1) + FloatBits] = TwoTo[e - 1] * TwoTo[FloatBits]
      BY <1>1, <2>4, TwoToGrows
    <3>2. TwoTo[(e - 1) + FloatBits] <= a
      BY <2>2, <2>4
    <3> QED
      BY <3>1, <3>2
  <2> DEFINE low == a \div unit
             rest == a % unit
             up == 2 * rest > unit \/ (2 * rest = unit /\ low % 2 = 1)
  <2>7. Float(a) = unit * (IF up THEN low + 1 ELSE low)
    BY <1>4 DEF Float, d
  <2> HIDE DEF e, half, unit
  <2>8. /\ low \in Nat /\ rest \in Nat /\ a = unit * low + rest
        /\ rest <= half => (unit * low \in Nat /\ unit * low <= a /\ a - unit * low <= half)
        /\ rest >= half => (unit * (low + 1) \in Nat /\ unit * (low + 1) >= a
                            /\ unit * (low + 1) - a <= half)
    BY <2>5, RoundFacts
  <2> HIDE DEF low, rest
  <2>9. /\ up => rest >= half
        /\ ~up => rest <= half
    BY <2>5, <2>8
  <2>10. Float(a) \in Nat /\ Float(a) <= a + half /\ a <= Float(a) + half
    <3>1. CASE up
      <4> DEFINE f == unit * (low + 1)
      <4>1. f \in Nat /\ f >= a /\ f - a <= half
        BY <2>8, <2>9, <3>1
      <4>2. Float(a) = f
        BY <2>7, <3>1
      <4> HIDE DEF f, up
      <4> QED
        BY <2>5, <4>1, <4>2
    <3>2. CASE ~up
      <4> DEFINE f == unit * low
      <4>1. f \in Nat /\ f <= a /\ a - f <= half
        BY <2>8, <2>9, <3>2
      <4>2. Float(a) = f
        BY <2>7, <3>2
      <4> HIDE DEF f, up
      <4> QED
        BY <2>5, <4>1, <4>2
    <3> QED
      BY <3>1, <3>2
  <2>11. a = TwoTo[FloatBits] => Float(a) = a
    <3> SUFFICES ASSUME a = TwoTo[FloatBits]
                 PROVE  Float(a) = a
      OBVIOUS
    <3>1. d - 1 <= FloatBits
      BY <1>1, <2>2, <2>4, TwoToOrder
    <3>2. e = 1
      BY <1>1, <2>2, <2>3, <3>1 DEF e
    <3>3. half = 1 /\ unit = 2
      BY <2>5, <3>2, TwoToFacts DEF half
    <3>4. PICK h \in Nat : a = 2 * h
      <4>1. FloatBits - 1 \in Nat /\ (FloatBits - 1) + 1 = FloatBits
        BY <1>1
      <4> QED
        BY <4>1, TwoToFacts
    <3>5. low = h /\ rest = 0
      BY <3>3, <3>4 DEF low, rest
    <3>6. ~up
      BY <3>3, <3>5
    <3> HIDE DEF up
    <3> QED
      BY <2>7, <3>3, <3>4, <3>5, <3>6
  <2> QED
    BY <1>2, <1>4, <2>5, <2>6, <2>10, <2>11
<1> QED
  BY <1>3, <1>4

\* What is sent is an int64, the amount itself up to the width of the significand, and
\* within half a unit of it as long as the type can hold it.
LEMMA SentFacts ==
  ASSUME amount \in Nat
  PROVE  /\ AmountSent \in MinInt..MaxInt
         /\ amount <= TwoTo[FloatBits] => AmountSent = amount
         /\ amount + amount \div TwoTo[FloatBits] <= MaxInt =>
              (IF AmountSent > amount THEN AmountSent - amount ELSE amount - AmountSent)
                * TwoTo[FloatBits] <= amount
<1>1. /\ FloatBits \in Nat /\ IntBits - 1 \in Nat /\ FloatBits + 1 <= IntBits - 1
      /\ ~(IntBits - 1 <= FloatBits)
  BY WebhookAssumption
<1>2. /\ TwoTo[FloatBits] \in Nat /\ TwoTo[FloatBits] > 0
      /\ TwoTo[IntBits - 1] \in Nat /\ TwoTo[IntBits - 1] > 0
  BY <1>1, TwoToFacts
<1>3. TwoTo[FloatBits] < TwoTo[IntBits - 1]
  BY <1>1, <1>2, TwoToOrder
<1>4. /\ MinInt \in Int /\ MaxInt \in Nat /\ MinInt <= 0 /\ TwoTo[FloatBits] <= MaxInt
  BY <1>2, <1>3 DEF MinInt, MaxInt
<1>5. PICK half \in Nat :
        /\ Float(amount) \in Nat /\ (amount <= TwoTo[FloatBits] => Float(amount) = amount)
        /\ half * TwoTo[FloatBits] <= amount
        /\ Float(amount) <= amount + half /\ amount <= Float(amount) + half
  BY FloatFacts
<1>6. AmountSent = ToInt(Float(amount))
  BY DEF AmountSent
<1> DEFINE limit == TwoTo[FloatBits]
           quotient == amount \div limit
<1>7. quotient \in Nat /\ half <= quotient
  <2>1. quotient \in Nat /\ amount = limit * quotient + (amount % limit) /\ amount % limit < limit
    BY <1>2
  <2>2. half < quotient + 1
    <3>1. half * limit < limit * quotient + limit
      <4>1. half * limit \in Nat /\ limit * quotient \in Nat /\ half * limit <= amount
        BY <1>2, <1>5, <2>1
      <4> QED
        BY <1>2, <2>1, <4>1
    <3>2. \A x, y, z \in Nat : x * z < z * y + z => x < y + 1
      OBVIOUS
    <3> QED
      BY <1>2, <2>1, <3>1, <3>2
  <2> QED
    BY <2>1, <2>2
<1> HIDE DEF limit, quotient
<1>8. AmountSent \in MinInt..MaxInt
  BY <1>4, <1>5, <1>6 DEF ToInt
<1>9. amount <= limit => AmountSent = amount
  <2> SUFFICES ASSUME amount <= limit
               PROVE  AmountSent = amount
    OBVIOUS
  <2>1. Float(amount) = amount /\ amount <= MaxInt
    BY <1>2, <1>4, <1>5 DEF limit
  <2> QED
    BY <1>6, <2>1 DEF ToInt
<1>10. amount + quotient <= MaxInt => AmountSent = Float(amount)
  BY <1>4, <1>5, <1>6, <1>7 DEF ToInt
<1>11. ASSUME AmountSent = Float(amount)
       PROVE  (IF AmountSent > amount THEN AmountSent - amount ELSE amount - AmountSent) * limit <= amount
  <2> DEFINE error == IF AmountSent > amount THEN AmountSent - amount ELSE amount - AmountSent
  <2>1. error \in Nat /\ error <= half
    BY <1>5, <1>11
  <2>2. \A x, y, z \in Nat : x <= y => x * z <= y * z
    OBVIOUS
  <2>3. limit \in Nat /\ half * limit <= amount
    BY <1>2, <1>5 DEF limit
  <2> HIDE DEF error
  <2>4. error * limit <= half * limit /\ error * limit \in Nat /\ half * limit \in Nat
    BY <2>1, <2>2, <2>3
  <2>5. error * limit <= amount
    BY <2>3, <2>4
  <2> QED
    BY <2>5 DEF error
<1> QED
  BY <1>8, <1>9, <1>10, <1>11 DEF limit, quotient

\* Whoever has processed the event was told the amount that is sent.
ToldInv == amount \in Amounts /\ saturates \in BOOLEAN /\ received \subseteq {AmountSent}

LEMMA ToldStep == ToldInv /\ [Next]_vars => ToldInv'
<1> SUFFICES ASSUME ToldInv, [Next]_vars
             PROVE  ToldInv'
  OBVIOUS
<1>1. amount' = amount /\ saturates' = saturates
  BY DEF Next, Step, Answer, BeginEndpoint, TryAgain, Skip, AnswerOK, AnswerError, LoseAnswer, TimeOut,
     WaitOver, CancelledEndpoint, Return, CancelCall, ProcessLate, vars, event
<1>2. AmountSent' = AmountSent
  BY <1>1 DEF AmountSent, ToInt, Float
<1>3. received' \subseteq received \cup {AmountSent}
  BY DEF Next, Step, Answer, BeginEndpoint, TryAgain, Skip, AnswerOK, AnswerError, LoseAnswer, TimeOut,
     WaitOver, CancelledEndpoint, Return, CancelCall, ProcessLate, Process, vars
<1> QED
  BY <1>1, <1>2, <1>3 DEF ToldInv

LEMMA ToldInvariant == Spec => []ToldInv
<1>1. Init => ToldInv
  BY DEF Init, ToldInv
<1> QED
  BY <1>1, ToldStep, PTL DEF Spec

\* Every endpoint is told the same amount, the one on the chain as long as a float64 can
\* tell it from its neighbours, and within half of the last digit of one as long as an
\* int64 can hold it, for all widths and amounts (sendToEndpoint, dbEventToAppEvent).
THEOREM AmountsAlwaysArrive == Spec => []AmountsArrive
<1>1. ToldInv => AmountsArrive
  <2> SUFFICES ASSUME ToldInv, NEW s \in received
               PROVE  /\ received = {s}
                      /\ amount <= TwoTo[FloatBits] => s = amount
                      /\ amount + amount \div TwoTo[FloatBits] <= MaxInt =>
                           (IF s > amount THEN s - amount ELSE amount - s) * TwoTo[FloatBits] <= amount
    BY DEF AmountsArrive
  <2>1. s = AmountSent /\ received = {s} /\ amount \in Nat
    BY WebhookAssumption DEF ToldInv
  <2> QED
    BY <2>1, SentFacts
<1> QED
  BY <1>1, ToldInvariant, PTL

------------------------------------------------------------------------------
\* The bounds of what is counted.
BInv ==
  /\ attempt \in 0..5 /\ interval \in 0..30 /\ answered \subseteq accepted
  /\ asked \in [Endpoint -> 0..5]

LEMMA BStep == DInv /\ AInv /\ BInv /\ [Next]_vars => BInv'
<1> SUFFICES ASSUME DInv, AInv, BInv, [Next]_vars
             PROVE  BInv'
  OBVIOUS
<1> USE DEF BInv
<1>a. Sending => Current \in Endpoint
  BY ListFacts DEF Sending, Current, DInv, Typed
<1>1. CASE BeginEndpoint
  BY <1>1, <1>a, ConfigFacts DEF BeginEndpoint, Begin, history
<1>2. CASE TryAgain
  <2>1. /\ Sending /\ loop = "check" /\ UNCHANGED <<attempt, interval, accepted, answered>>
        /\ asked' = [asked EXCEPT ![Current] = IF Current \in addressed THEN @ + 1 ELSE @]
    BY <1>2 DEF TryAgain, Attempt
  <2>2. Current \in Endpoint /\ attempt \in 1..5
        /\ (Current \in addressed => asked[Current] = attempt - 1)
    BY <1>a, <2>1, ConfigFacts DEF AInv, Progressed
  <2> QED
    BY <2>1, <2>2
<1>3. CASE Skip \/ AnswerOK \/ CancelledEndpoint
  <2>1. attempt' = 0 /\ interval' = 0 /\ asked' = asked
    BY <1>3 DEF Skip, AnswerOK, CancelledEndpoint, Succeeds, GiveWay, Leave, history
  <2>2. answered' \subseteq accepted'
    BY <1>3 DEF Skip, AnswerOK, CancelledEndpoint, Process, history
  <2> QED
    BY <2>1, <2>2
<1>4. CASE AnswerError \/ LoseAnswer \/ TimeOut
  <2>1. AttemptFails /\ accepted \subseteq accepted' /\ UNCHANGED <<answered, asked>>
    BY <1>4 DEF AnswerError, LoseAnswer, TimeOut, Process, history
  <2> QED
    BY <2>1 DEF AttemptFails, Fails, Leave
<1>5. CASE WaitOver
  <2>1. /\ Sending /\ loop = "wait" /\ attempt' = attempt + 1 /\ interval' = Grown(Config(Current))
        /\ UNCHANGED <<accepted, answered, asked>>
    BY <1>5 DEF WaitOver, WaitEnds
  <2>2. attempt < 5 /\ Current \in Endpoint
    BY <1>a, <2>1, ConfigFacts DEF AInv, Progressed
  <2>3. Grown(Config(Current)) \in 0..30
    BY <2>2, ConfigFacts DEF Grown
  <2> QED
    BY <2>1, <2>2, <2>3
<1>6. CASE Return \/ CancelCall \/ \E e \in Endpoint : ProcessLate(e)
  BY <1>6 DEF Return, CancelCall, ProcessLate, Process, history, retry
<1>7. CASE UNCHANGED vars
  BY <1>7 DEF vars, history, retry
<1> QED
  BY <1>1, <1>2, <1>3, <1>4, <1>5, <1>6, <1>7 DEF Next, Step, Answer

\* Every variable has its type, whatever the widths: the amounts sent are int64s.
THEOREM TypeCorrect == Spec => []TypeOK
<1>1. Init => BInv
  BY DEF Init, RetryInit, BInv
<1>2. DInv /\ BInv /\ ToldInv => TypeOK
  <2> SUFFICES ASSUME DInv, BInv, ToldInv
               PROVE  TypeOK
    OBVIOUS
  <2>1. amount \in Nat
    BY WebhookAssumption DEF ToldInv
  <2>2. received \subseteq MinInt..MaxInt
    BY <2>1, SentFacts DEF ToldInv
  <2> QED
    <3>1. /\ loop \in LoopPlaces /\ attempt \in 0..5 /\ interval \in 0..30 /\ cancelled \in BOOLEAN
          /\ addressed \subseteq Endpoint /\ amount \in Amounts
          /\ position \in 1..Len(Order) + 1 /\ lastErr \in BOOLEAN
          /\ outcome \in {"open", "ok", "failed"} /\ late \subseteq Endpoint
      BY DEF DInv, Typed, BInv, ToldInv
    <3>2. /\ accepted \subseteq Endpoint /\ answered \subseteq accepted
          /\ asked \in [Endpoint -> 0..5] /\ waited \in [Endpoint -> Nat] /\ saturates \in BOOLEAN
      BY DEF DInv, Typed, BInv, ToldInv
    <3> QED
      BY <2>2, <3>1, <3>2 DEF TypeOK
<1> QED
  BY <1>1, <1>2, DInvariant, InitAInv, NextAInv, BStep, ToldInvariant, PTL DEF Spec
=================================================================================
