---------------------------- MODULE ProviderCall ----------------------------
(***************************************************************************)
(* What a call of a provider promises the handler that waits for it.       *)
(*                                                                         *)
(* The provider has something work for the call: a child process (Zhihu,   *)
(* Zhida) or a request over the network (Roadmapper).  The call settles    *)
(* once.  It answers only when the work has ended by itself; it fails      *)
(* while work is running only after the work was told to stop.             *)
(***************************************************************************)
CONSTANTS
  Answer,     \* the outcome of a call that was answered
  Failures,   \* the outcomes of calls that were not
  None        \* the outcome of a call nobody has settled

OutcomesDiffer == Answer \notin Failures \cup {None} /\ None \notin Failures

VARIABLES
  outcome,   \* what the caller's promise was settled with
  work,      \* "none", "running" or "gone"
  told       \* the work was told to stop

vars == <<outcome, work, told>>

Init == outcome = None /\ work = "none" /\ told = FALSE

\* The work goes on: it starts, ends or is told to stop.
Later ==
  /\ <<work, work'>> \in {<<"none", "running">>, <<"none", "gone">>, <<"running", "gone">>}
                         \cup {<<w, w>> : w \in {"none", "running", "gone"}}
  /\ told => told'

Proceed ==
  /\ Later
  /\ outcome # None /\ work' = "running" => work = "running" /\ told
  /\ UNCHANGED outcome

Respond ==
  /\ outcome = None /\ outcome' = Answer
  /\ ~ told /\ work # "none" /\ work' = "gone"
  /\ UNCHANGED told

Fail ==
  /\ outcome = None /\ outcome' \in Failures
  /\ Later /\ (work' = "running" => told')

Next == Proceed \/ Respond \/ Fail

Settled == outcome # None

\* Every call is settled in the end.
Spec == Init /\ [][Next]_vars /\ <>Settled
=============================================================================
