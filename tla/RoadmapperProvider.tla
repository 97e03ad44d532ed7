------------------------- MODULE RoadmapperProvider -------------------------
(***************************************************************************)
(* One call of the Roadmapper provider: a request to a model's API, raced  *)
(* with a deadline that the timeout and the caller's signal share.  The    *)
(* loser of the race goes on, but nobody hears it.                         *)
(***************************************************************************)
EXTENDS Naturals

CONSTANTS
  MaxOutput,   \* chunks of a response within the limit
  Answer, None

\* What the proofs and the runs assume of the constants.
Limits == MaxOutput \in Nat

Failures == {"cancelled", "timeout", "invalid_input", "upstream_failed", "invalid_response",
             "output_limit", "network_failed"}

VARIABLES
  outcome,   \* of the promise
  aborted,   \* the caller's signal
  told,      \* the request was aborted
  timer,     \* the call's timer is armed
  stage,     \* of work: "none", "fetching", "reading", "gone"
  bytes      \* of the response

vars == <<outcome, aborted, told, timer, stage, bytes>>

Init ==
  /\ outcome = None /\ aborted \in BOOLEAN /\ told = FALSE
  /\ timer = FALSE /\ stage = "none" /\ bytes = 0

\* Faulty variant: whoever comes last has the say.
RaceLast(o) == outcome' = o /\ timer' = FALSE /\ told' = (o # Answer \/ told)

\* Promise.race, and the catch and finally blocks behind it: the first to
\* settle it has the say, and a failure aborts the request.
Race(o) ==
  IF outcome = None
  THEN outcome' = o /\ timer' = FALSE /\ told' = (o # Answer)
  ELSE UNCHANGED <<outcome, timer, told>>

\* generate, up to its first await.
Generate ==
  /\ stage = "none" /\ outcome = None
  /\ IF aborted
     THEN outcome' = "cancelled" /\ UNCHANGED <<stage, timer>>
     ELSE \/ outcome' = "invalid_input" /\ UNCHANGED <<stage, timer>>
          \/ stage' = "fetching" /\ timer' = TRUE /\ UNCHANGED outcome
  /\ UNCHANGED <<aborted, told, bytes>>

Working == stage \in {"fetching", "reading"}

\* work fails: the network, or a response with a bad status, type or length.
WorkFails ==
  /\ Working /\ stage' = "gone"
  /\ \E o \in (IF stage = "fetching" THEN {"upstream_failed", "invalid_response", "output_limit"} ELSE {})
              \cup {"network_failed"} : Race(o)
  /\ UNCHANGED <<aborted, bytes>>

OnResponse ==
  /\ stage = "fetching" /\ stage' = "reading"
  /\ UNCHANGED <<outcome, aborted, told, timer, bytes>>

OnChunk ==
  /\ stage = "reading" /\ bytes' = bytes + 1
  /\ IF bytes' > MaxOutput
     THEN Race("output_limit") /\ stage' = "gone"
     ELSE UNCHANGED <<outcome, told, timer, stage>>
  /\ UNCHANGED aborted

\* The response is complete, or its reader was cancelled.
OnEnd ==
  /\ stage = "reading" /\ stage' = "gone"
  /\ \E o \in {Answer, "invalid_response"} : Race(o)
  /\ UNCHANGED <<aborted, bytes>>

OnTimeout ==
  /\ timer /\ Race("timeout")
  /\ UNCHANGED <<aborted, stage, bytes>>

\* The listener is there as long as the timer.
OnAbort ==
  /\ ~ aborted /\ aborted' = TRUE
  /\ IF timer THEN Race("cancelled") ELSE UNCHANGED <<outcome, told, timer>>
  /\ UNCHANGED <<stage, bytes>>

Next ==
  \/ Generate \/ OnResponse \/ OnChunk \/ OnEnd \/ WorkFails \/ OnTimeout \/ OnAbort

\* The call is made, and its timer fires.
Fairness == WF_vars(Generate) /\ WF_vars(OnTimeout)

Spec == Init /\ [][Next]_vars /\ Fairness

-----------------------------------------------------------------------------

TypeOK ==
  /\ outcome \in Failures \cup {Answer, None}
  /\ aborted \in BOOLEAN /\ told \in BOOLEAN /\ timer \in BOOLEAN
  /\ stage \in {"none", "fetching", "reading", "gone"} /\ bytes \in 0 .. MaxOutput + 1

\* The call as its caller sees it.
Work ==
  CASE stage = "none" -> "none"
    [] Working        -> "running"
    [] stage = "gone" -> "gone"

Call == INSTANCE ProviderCall WITH work <- Work

\* The call settles once whoever wins the race, answers only with what its
\* request brought, and never fails with a request nobody aborted (generate).
CallSettles == Call!Spec
=============================================================================
