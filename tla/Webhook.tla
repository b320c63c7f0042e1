-------------------------------- MODULE Webhook --------------------------------
(***************************************************************************)
(* One call of WebhookNotifier.Notify for one event: the endpoints in the  *)
(* order of the configuration, each with its own retry loop, each attempt  *)
(* one HTTP request with a timeout of the client.  The endpoint may refuse *)
(* the request, process it and answer, process it and the answer gets lost,*)
(* or process it after the client has given up on it.  In module           *)
(* EventNotify the whole call is one step; Delivery is what it relies on.  *)
(***************************************************************************)
EXTENDS Retry, Integers, Sequences

CONSTANTS
  Endpoint,       \* configured endpoints ...
  Order,          \* ... and their order
  Persistent,     \* endpoints configured with retry
  Amounts,        \* amounts on the chain, of which the event has one
  FloatBits,      \* width of the significand of float64 (53)
  IntBits         \* width of int64 (64)

ASSUME WebhookAssumption ==
  /\ Order \in Seq(Endpoint) /\ {Order[i] : i \in DOMAIN Order} = Endpoint
  /\ \A i, j \in DOMAIN Order : Order[i] = Order[j] => i = j
  /\ Order # <<>> /\ Persistent \subseteq Endpoint
  /\ Amounts \subseteq Nat /\ FloatBits \in Nat \ {0}
  /\ IntBits \in Nat /\ FloatBits < IntBits - 1

VARIABLES
  addressed,  \* endpoints the event is for: none if sendToEndpoint does not know its name
  amount,     \* the event's amount on the chain
  saturates,  \* does the processor saturate a float that is too large for an int64?
  position,   \* in Order; beyond it once the loop is through
  lastErr,    \* has an endpoint failed?
  outcome,    \* what Notify has returned
  late,       \* endpoints with a request that the client no longer waits for
  accepted,   \* endpoints that have processed the event
  received,   \* amounts they were told
  answered,   \* endpoints whose 200 was read (history)
  asked,      \* asked[e]: requests made to e (history)
  waited      \* waited[e]: time spent between them (history)

event == <<addressed, amount, saturates>>
history == <<answered, asked, waited>>
vars == <<retry, cancelled, event, position, lastErr, outcome, late, accepted, received, history>>

Init ==
  /\ RetryInit
  /\ addressed \in {{}, Endpoint} /\ amount \in Amounts /\ saturates \in BOOLEAN
  /\ position = 1 /\ lastErr = FALSE /\ outcome = "open"
  /\ late = {} /\ accepted = {} /\ received = {} /\ answered = {}
  /\ asked = [e \in Endpoint |-> 0] /\ waited = [e \in Endpoint |-> 0]

------------------------------------------------------------------------------
(* The amount that is sent. *)

TwoTo[n \in Nat] == IF n = 0 THEN 1 ELSE 2 * TwoTo[n - 1]

\* The number of binary digits of a > 0.
Digits(a) == CHOOSE n \in 1..a : TwoTo[n - 1] <= a /\ a < TwoTo[n]

\* encoding/json reads a number as the nearest float64, of two the even one.
Float(a) ==
  IF a < TwoTo[FloatBits] THEN a
  ELSE LET unit == TwoTo[Digits(a) - FloatBits]
           low == a \div unit
           rest == a % unit
           up == 2 * rest > unit \/ (2 * rest = unit /\ low % 2 = 1)
       IN unit * (IF up THEN low + 1 ELSE low)

MaxInt == TwoTo[IntBits - 1] - 1
MinInt == -TwoTo[IntBits - 1]

\* Mutant: the amount goes through a 32-bit integer.
ToIntNarrow(a) == ((a + TwoTo[IntBits \div 2 - 1]) % TwoTo[IntBits \div 2]) - TwoTo[IntBits \div 2 - 1]

\* int64(amt): beyond the range the result is the processor's.
ToInt(a) == IF a <= MaxInt THEN a ELSE IF saturates THEN MaxInt ELSE MinInt

AmountSent == ToInt(Float(amount))

------------------------------------------------------------------------------
(* The call. *)

\* sendToEndpointWithRetry.
Config(e) ==
  [MaxAttempts |-> IF e \in Persistent THEN 5 ELSE 3,
   InitialInterval |-> 1, MaxInterval |-> 30, Multiplier |-> 2]

Current == Order[position]
Sending == outcome = "open" /\ position <= Len(Order)

BeginEndpoint ==
  /\ Sending /\ Begin(Config(Current))
  /\ UNCHANGED <<cancelled, event, position, lastErr, outcome, late, accepted, received, history>>

\* The endpoint is through: the next one, with the error kept.
NextEndpoint(failed) ==
  position' = position + 1 /\ lastErr' = IF failed THEN TRUE ELSE lastErr
SameEndpoint == UNCHANGED <<position, lastErr>>

TryAgain ==
  /\ Sending /\ Attempt
  /\ asked' = [asked EXCEPT ![Current] = IF Current \in addressed THEN @ + 1 ELSE @]
  /\ UNCHANGED <<cancelled, event, position, lastErr, outcome, late, accepted, received,
                 answered, waited>>

Skip ==
  /\ Sending /\ Current \notin addressed
  /\ Succeeds /\ NextEndpoint(FALSE)
  /\ UNCHANGED <<cancelled, event, outcome, late, accepted, received, history>>

Process(e) == accepted' = accepted \cup {e} /\ received' = received \cup {AmountSent}

\* The request is processed and its 200 read.
AnswerOK ==
  /\ Sending /\ Current \in addressed
  /\ Succeeds /\ Process(Current) /\ NextEndpoint(FALSE)
  /\ answered' = answered \cup {Current}
  /\ UNCHANGED <<cancelled, event, outcome, late, asked, waited>>

\* Any error of an attempt.
AttemptFails ==
  /\ Fails(Config(Current))
  /\ IF LastAttempt(Config(Current)) THEN NextEndpoint(TRUE) ELSE SameEndpoint

\* Refused, or answered with another status: the endpoint has not processed it.
AnswerError ==
  /\ Sending /\ Current \in addressed /\ AttemptFails
  /\ UNCHANGED <<cancelled, event, outcome, late, accepted, received, history>>

\* Processed, but the answer is lost.
LoseAnswer ==
  /\ Sending /\ Current \in addressed /\ AttemptFails /\ Process(Current)
  /\ UNCHANGED <<cancelled, event, outcome, late, history>>

\* The client gives up on the request, which is still under way.
TimeOut ==
  /\ Sending /\ Current \in addressed /\ AttemptFails
  /\ late' = late \cup {Current}
  /\ UNCHANGED <<cancelled, event, outcome, accepted, received, history>>

WaitOver ==
  /\ Sending /\ WaitEnds(Config(Current))
  /\ waited' = [waited EXCEPT ![Current] = @ + interval]
  /\ UNCHANGED <<cancelled, event, position, lastErr, outcome, late, accepted, received,
                 answered, asked>>

\* The context is cancelled: ctx.Err() for this endpoint; the next one is still begun.
CancelledEndpoint ==
  /\ Sending /\ GiveWay /\ NextEndpoint(TRUE)
  /\ UNCHANGED <<cancelled, event, outcome, late, accepted, received, history>>

\* Mutant: an endpoint that answers makes up for those that failed.
ReturnFirstSuccess ==
  /\ outcome = "open" /\ position > Len(Order)
  /\ outcome' = IF lastErr /\ answered = {} THEN "failed" ELSE "ok"
  /\ UNCHANGED <<retry, cancelled, event, position, lastErr, late, accepted, received, history>>

Return ==
  /\ outcome = "open" /\ position > Len(Order)
  /\ outcome' = IF lastErr THEN "failed" ELSE "ok"
  /\ UNCHANGED <<retry, cancelled, event, position, lastErr, late, accepted, received, history>>

\* A request the client no longer waits for is processed after all.
ProcessLate(e) ==
  /\ e \in late /\ late' = late \ {e}
  /\ Process(e)
  /\ UNCHANGED <<retry, cancelled, event, position, lastErr, outcome, history>>

\* Manager.Stop cancels the context.
CancelCall ==
  /\ Cancel
  /\ UNCHANGED <<retry, event, position, lastErr, outcome, late, accepted, received, history>>

Answer == AnswerOK \/ AnswerError \/ LoseAnswer \/ TimeOut

Step == BeginEndpoint \/ TryAgain \/ Skip \/ Answer \/ WaitOver \/ CancelledEndpoint \/ Return

Next == Step \/ CancelCall \/ \E e \in Endpoint : ProcessLate(e)

\* The goroutine runs, a request ends (the client has a timeout) and so does a wait.
Spec == Init /\ [][Next]_vars /\ WF_vars(Step)

------------------------------------------------------------------------------
(* Properties. *)

\* Every variable has its type, and nobody is told an amount that is not an int64.
TypeOK ==
  /\ loop \in LoopPlaces /\ attempt \in 0..5 /\ interval \in 0..30 /\ cancelled \in BOOLEAN
  /\ addressed \subseteq Endpoint /\ amount \in Amounts /\ saturates \in BOOLEAN
  /\ position \in 1..Len(Order) + 1 /\ lastErr \in BOOLEAN
  /\ outcome \in {"open", "ok", "failed"}
  /\ late \subseteq Endpoint /\ accepted \subseteq Endpoint /\ received \subseteq MinInt..MaxInt
  /\ answered \subseteq accepted
  /\ asked \in [Endpoint -> 0..5] /\ waited \in [Endpoint -> Nat]

Promise == INSTANCE Delivery

\* The retries, timeouts, late and lost answers implement one delivery: the call comes
\* back, whatever the endpoints do, and says ok only if all of them have the event.
ImplementsDelivery == Promise!Spec

\* How long an endpoint must be out of order to miss the event: the waits between
\* all of its attempts.
Patience(e) == IF e \in Persistent THEN 1 + 2 + 4 + 8 ELSE 1 + 2

\* An endpoint the call is through with has answered 200, or it was asked to the last
\* attempt over the whole of its patience; one endpoint's failures take nothing from
\* the next one, and only the end of the process cuts it short.
AskedUntilAnswered ==
  \A i \in 1..position - 1 :
    LET e == Order[i] IN
      \/ e \in answered \/ cancelled \/ e \notin addressed
      \/ asked[e] = Config(e).MaxAttempts /\ waited[e] = Patience(e)

\* Every endpoint is told the same amount; it is the one on the chain as long as a
\* float64 can tell it from its neighbours, and within half of the last digit of one
\* as long as an int64 can hold it.
AmountsArrive ==
  \A s \in received :
    /\ received = {s}
    /\ amount <= TwoTo[FloatBits] => s = amount
    /\ amount + amount \div TwoTo[FloatBits] <= MaxInt =>
         (IF s > amount THEN s - amount ELSE amount - s) * TwoTo[FloatBits] <= amount
===============================================================================
