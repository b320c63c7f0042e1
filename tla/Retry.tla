--------------------------------- MODULE Retry ---------------------------------
(***************************************************************************)
(* The retry loop of pkg/utils, the same in RetryWithBackoff,              *)
(* RetryWithResult and Retry: up to MaxAttempts calls with waits between   *)
(* them that grow by a factor up to a limit, given up early when the       *)
(* context is cancelled.  Its caller composes Begin, Succeeds and Fails    *)
(* with what it calls.                                                     *)
(***************************************************************************)
EXTENDS Naturals

VARIABLES
  loop,       \* place: "off", "check" (before an attempt), "call", "wait"
  attempt,    \* the attempt the loop is at
  interval,   \* the wait that comes next
  cancelled   \* the context

retry == <<loop, attempt, interval>>

LoopPlaces == {"off", "check", "call", "wait"}

RetryInit == loop = "off" /\ attempt = 0 /\ interval = 0 /\ cancelled = FALSE

Leave == loop' = "off" /\ attempt' = 0 /\ interval' = 0

\* The loop is entered.  (With MaxAttempts 0, which the configuration may have, it is
\* over at once with an error, and nothing was called.)
Begin(config) ==
  /\ loop = "off" /\ config.MaxAttempts > 0
  /\ loop' = "check" /\ attempt' = 1 /\ interval' = config.InitialInterval

\* The select before an attempt.
Attempt ==
  /\ loop = "check" /\ ~cancelled
  /\ loop' = "call" /\ UNCHANGED <<attempt, interval>>

\* A cancelled context is seen before an attempt and during a wait.
GiveWay == loop \in {"check", "wait"} /\ cancelled /\ Leave

Succeeds == loop = "call" /\ Leave

\* Mutant: one attempt too many.
LastAttemptMissed(config) == attempt > config.MaxAttempts

LastAttempt(config) == attempt >= config.MaxAttempts

Fails(config) ==
  /\ loop = "call"
  /\ IF LastAttempt(config) THEN Leave
     ELSE loop' = "wait" /\ UNCHANGED <<attempt, interval>>

\* Mutant: the interval is never made longer.
GrownNot(config) == interval

Grown(config) ==
  LET next == interval * config.Multiplier
  IN IF next > config.MaxInterval THEN config.MaxInterval ELSE next

\* time.After; select may choose it although the context is cancelled as well.
WaitEnds(config) ==
  /\ loop = "wait"
  /\ loop' = "check" /\ attempt' = attempt + 1 /\ interval' = Grown(config)

Cancel == ~cancelled /\ cancelled' = TRUE
===============================================================================
