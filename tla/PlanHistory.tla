----------------------------- MODULE PlanHistory -----------------------------
(***************************************************************************)
(* What the project store promises of a plan and its history: the plan     *)
(* grows by one change at a time, every change at most once, and the       *)
(* history holds snapshots of plans that were current when recorded.       *)
(***************************************************************************)
EXTENDS Naturals

CONSTANT Changes    \* the changes that may ever be confirmed

VARIABLES
  plan,       \* the current plan: its version and the changes it contains
  history     \* the snapshots recorded so far

Extend(s, c) == [version |-> s.version + 1, changes |-> s.changes \cup {c}]

Init ==
  /\ plan = [version |-> 1, changes |-> {}]
  /\ history = {plan}

\* A change is confirmed.  It may never be recorded: the process may die first.
Publish ==
  /\ \E c \in Changes \ plan.changes : plan' = Extend(plan, c)
  /\ UNCHANGED history

Record ==
  /\ history' = history \cup {plan}
  /\ UNCHANGED plan

Next == Publish \/ Record

Spec == Init /\ [][Next]_<<plan, history>>

=============================================================================
