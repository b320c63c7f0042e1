-------------------------------- MODULE Delivery --------------------------------
(***************************************************************************)
(* What one call of the webhook notifier promises about one event, whatever*)
(* it retries and however long it waits: endpoints process the event at    *)
(* times of their own, once or several times and even after the call has   *)
(* come back; the call comes back; and if it says that all went well, then *)
(* every endpoint the event is for has processed it.  An error says nothing*)
(* about who has and who has not.                                          *)
(***************************************************************************)
CONSTANT Endpoint

VARIABLES
  addressed,  \* endpoints the event is for
  accepted,   \* endpoints that have processed it
  outcome     \* of the call: "open", "ok" or "failed"

vars == <<addressed, accepted, outcome>>

Init == addressed \subseteq Endpoint /\ accepted = {} /\ outcome = "open"

Accept(e) ==
  /\ e \in addressed
  /\ accepted' = accepted \cup {e} /\ UNCHANGED <<addressed, outcome>>

Return ==
  /\ outcome = "open"
  /\ outcome' \in {"ok", "failed"}
  /\ outcome' = "ok" => addressed \subseteq accepted
  /\ UNCHANGED <<addressed, accepted>>

Next == Return \/ \E e \in Endpoint : Accept(e)

Spec == Init /\ [][Next]_vars /\ WF_vars(Return)
===============================================================================
