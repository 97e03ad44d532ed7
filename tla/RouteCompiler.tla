---------------------------- MODULE RouteCompiler ----------------------------
(***************************************************************************)
(* What a route the model proposes has to look like, and the nodes of the  *)
(* plan it becomes: parseRoute, planningWeeks and                          *)
(* compileRoadmapperBaseline of packages/agent-runtime/src/roadmapper.ts.  *)
(*                                                                         *)
(* A draft is a record of its milestones, its tasks in the model's order,  *)
(* the cards of evidence it claims and how each of them was applied.  Days *)
(* are counted from the day of the research; hours are in hundredths, as   *)
(* the program rounds them.  Texts and the user's own facts, which need    *)
(* no application, are left out, and of two routes each is one draft.      *)
(***************************************************************************)
EXTENDS Totals, Sequences, FiniteSets, SequencesExt

CONSTANTS
  Evidence,       \* cards of evidence the model was given
  WeekDays,       \* days of a week (7)
  WeeklyHours,    \* hours of a full week the user has
  Tolerance,      \* hours a full week may exceed them by
  MinMilestones,  \* milestones of a route, at least (3)
  MaxPerWeek      \* tasks of a week, at most (4)

ASSUME RouteBounds ==
  /\ WeekDays \in Nat \ {0} /\ WeeklyHours \in Nat /\ Tolerance \in Nat
  /\ MinMilestones \in Nat /\ MaxPerWeek \in Nat

Least(S)    == CHOOSE m \in S : \A n \in S : m <= n
Greatest(S) == CHOOSE m \in S : \A n \in S : n <= m

\* What object, text, list, references and weekNumber leave of a route: weeks
\* are counted from 1, hours are not negative.
IsRoute(draft) ==
  /\ draft.tasks \in Seq(ToSet(draft.tasks))
  /\ \A t \in ToSet(draft.tasks) : t.week \in Nat \ {0} /\ t.hours \in Nat
  /\ \A m \in DOMAIN draft.milestones :
       {draft.milestones[m].start, draft.milestones[m].end} \subseteq Nat \ {0}

-----------------------------------------------------------------------------
(***************************************************************************)
(* planningWeeks: the weeks until the target day; the last may be short.   *)
(***************************************************************************)

WeekCount(days) == (days + WeekDays - 1) \div WeekDays
WeekStart(w)    == (w - 1) * WeekDays
DaysOf(days, w) == Least({WeekDays, days - WeekStart(w)})
WeekEnd(days, w)  == WeekStart(w) + DaysOf(days, w) - 1
Capacity(days, w) == (WeeklyHours * DaysOf(days, w)) \div WeekDays
Elastic(days, w)  == (Tolerance * DaysOf(days, w)) \div WeekDays

-----------------------------------------------------------------------------

Places(draft)     == DOMAIN draft.tasks
TasksOf(draft)    == {draft.tasks[i].id : i \in Places(draft)}
TaskNamed(draft, t) == draft.tasks[CHOOSE i \in Places(draft) : draft.tasks[i].id = t]
InWeek(draft, w)  == {i \in Places(draft) : draft.tasks[i].week = w}

\* The hours a draft plans for a week.
Planned(draft, w) == Total([i \in Places(draft) |-> draft.tasks[i].hours], InWeek(draft, w))

WithinWeek(draft, days, w) == Planned(draft, w) <= Capacity(days, w) + Elastic(days, w)

\* Faulty variant: any known task may come first.
PriorTasksAnyWeek(draft, t) == t.dependsOn \subseteq TasksOf(draft) \ {t.id}

\* What a task depends on: other tasks of the route, in its week or earlier.
PriorTasks(draft, t) ==
  t.dependsOn \subseteq {p \in TasksOf(draft) \ {t.id} : TaskNamed(draft, p).week <= t.week}

\* The places of the tasks that are next: all they depend on is done.
Ready(draft, done) ==
  {i \in Places(draft) : draft.tasks[i].id \notin done /\ draft.tasks[i].dependsOn \subseteq done}

\* Of those the one of the earliest week, the first of them in the draft.
NextPlace(draft, ready) ==
  CHOOSE i \in ready : \A j \in ready :
    \/ draft.tasks[i].week < draft.tasks[j].week
    \/ draft.tasks[i].week = draft.tasks[j].week /\ i <= j

\* The tasks in the order of their nodes, as far as their dependencies allow one.
Order(draft) ==
  LET ordered[n \in 0 .. Len(draft.tasks)] ==
        IF n = 0 THEN <<>>
        ELSE LET ready == Ready(draft, ToSet(ordered[n - 1]))
             IN IF ready = {} THEN ordered[n - 1]
                ELSE Append(ordered[n - 1], draft.tasks[NextPlace(draft, ready)].id)
  IN ordered[Len(draft.tasks)]

-----------------------------------------------------------------------------

MilestonesFit(draft, days) ==
  /\ Cardinality(DOMAIN draft.milestones) >= MinMilestones
  /\ \A m \in DOMAIN draft.milestones :
       LET s == draft.milestones[m]
       IN /\ s.start <= s.end /\ s.end <= WeekCount(days)
          /\ \E i \in Places(draft) : draft.tasks[i].milestone = m

TasksFit(draft, days) ==
  /\ Cardinality(TasksOf(draft)) = Len(draft.tasks)
  /\ TasksOf(draft) \cap DOMAIN draft.milestones = {}
  /\ \A i \in Places(draft) :
       LET t == draft.tasks[i]
       IN /\ t.week <= WeekCount(days) /\ t.hours > 0
          /\ t.milestone \in DOMAIN draft.milestones
          /\ t.week >= draft.milestones[t.milestone].start
          /\ t.week <= draft.milestones[t.milestone].end
          /\ PriorTasks(draft, t)
  /\ \E i \in Places(draft) : draft.tasks[i].dependsOn # {}
  /\ \A w \in 1 .. WeekCount(days) :
       Cardinality(InWeek(draft, w)) \in 1 .. MaxPerWeek /\ WithinWeek(draft, days, w)
  /\ Len(Order(draft)) = Len(draft.tasks)

\* Every card the route claims serves a task, every card a task uses is claimed,
\* and the applications tell exactly which tasks use which card.
EvidenceFits(draft) ==
  LET used(e) == {draft.tasks[i].id : i \in {j \in Places(draft) : e \in draft.tasks[j].evidence}}
  IN /\ draft.evidence \subseteq Evidence
     /\ Evidence # {} => draft.evidence # {}
     /\ \A e \in draft.evidence : used(e) # {}
     /\ \A i \in Places(draft) : draft.tasks[i].evidence \subseteq draft.evidence
     /\ \A m \in DOMAIN draft.milestones : draft.milestones[m].evidence \subseteq draft.evidence
     /\ DOMAIN draft.applications = draft.evidence
     /\ \A e \in draft.evidence : draft.applications[e] = used(e)

Acceptable(draft, days) == MilestonesFit(draft, days) /\ TasksFit(draft, days) /\ EvidenceFits(draft)

-----------------------------------------------------------------------------
(***************************************************************************)
(* The plan of an acceptable draft.                                        *)
(***************************************************************************)

NodesOf(draft, days) ==
  [n \in DOMAIN draft.milestones \cup TasksOf(draft) |->
     IF n \in DOMAIN draft.milestones
     THEN LET m == draft.milestones[n]
          IN [type |-> "milestone", status |-> "todo", milestone |-> n, hours |-> 0,
              start |-> WeekStart(m.start), end |-> WeekEnd(days, m.end), manual |-> {}]
     ELSE LET t == TaskNamed(draft, n)
          IN [type |-> "task", status |-> "todo", milestone |-> t.milestone, hours |-> t.hours,
              start |-> WeekStart(t.week), end |-> WeekEnd(days, t.week), manual |-> {}]]

\* The dependencies, all of them hard: <<dependent, prerequisite>>.
DepsOf(draft) ==
  UNION {{<<draft.tasks[i].id, p>> : p \in draft.tasks[i].dependsOn} : i \in Places(draft)}

\* The weeks the user is told to have more work than hours.
Overruns(draft, days) == {w \in 1 .. WeekCount(days) : Planned(draft, w) > Capacity(days, w)}
=============================================================================
