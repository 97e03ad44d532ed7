----------------------------- MODULE EventReplan -----------------------------
(***************************************************************************)
(* The schedule of a plan, from the confirmed route through the user's     *)
(* edits to the replans after a change of weekly hours                     *)
(* (prepareEventReplanInput and compileEventReplan of                      *)
(* packages/agent-runtime/src/event-replan.ts).                            *)
(*                                                                         *)
(* A replan is an event, with the day it takes effect and the new weekly   *)
(* hours, and the moves the model proposes; all open tasks are affected    *)
(* (calculateImpact).  A replan that is compiled is confirmed in one step: *)
(* ProjectServer has the steps between, and refuses a proposal whose plan  *)
(* has changed meanwhile.  Plans made from routes have no checkpoints.     *)
(***************************************************************************)
EXTENDS RouteCompiler

CONSTANTS
  Drafts,      \* the routes the model may propose, each with the days to the target
  Confirmed,   \* those of them the user may confirm
  Spans,       \* the spans of days the model chooses from
  Edits,       \* those a user chooses from
  Effective,   \* the days events may take effect
  Budgets,     \* the weekly hours they may set
  LimitWeeks,  \* the weeks a schedule may reach over (52)
  Scale,       \* hours are divided by days: a multiple of every length of a task
  MaxVersion   \* bound: a plan of this version is not changed

ASSUME ScheduleBounds ==
  /\ \A d \in Drafts : IsRoute(d.route) /\ d.days \in Nat \ {0}
  /\ \A span \in Spans \cup Edits : span.start \in Int /\ span.end \in Int
  /\ Effective \subseteq Int /\ Budgets \subseteq Nat
  /\ LimitWeeks \in Nat /\ MaxVersion \in Nat
  /\ Scale \in Nat /\ \A k \in 1 .. LimitWeeks * WeekDays : Scale % k = 0

VARIABLES
  draft,     \* the route of the plan, with its days
  order,     \* its tasks in the order of the plan's nodes
  nodes,     \* the plan's nodes
  weekly,    \* the plan's weekly hours
  version,   \* the plan's version
  last       \* history: the last replan, its event's day and the plan's version

vars == <<draft, order, nodes, weekly, version, last>>

Deps == IF version = 1 THEN {} ELSE DepsOf(draft.route)

Scheduled(ns) == {n \in DOMAIN ns : ns[n].type = "task"}
Open(ns)      == {n \in Scheduled(ns) : ns[n].status # "done"}
Children(ns, m) == {n \in Scheduled(ns) : ns[n].milestone = m}
Parents(ns, S)  == {ns[n].milestone : n \in S}

ScheduleStart == Least({nodes[n].start : n \in Scheduled(nodes)})
ScheduleLimit == ScheduleStart + LimitWeeks * WeekDays - 1

-----------------------------------------------------------------------------

\* The first day whose work is still counted: the past of open work is not.
FirstDay(n, effective) ==
  IF n.status = "done" THEN n.start ELSE Greatest({n.start, effective})

\* The days that first .. last_ and start .. end have in common.
Overlap(first, last_, start, end) ==
  LET from == Greatest({start, first}) to == Least({end, last_})
  IN IF to >= from THEN to - from + 1 ELSE 0

\* The hours (times Scale) that fall between two days.
Occupied(ns, start, end, effective) ==
  LET tasks == Scheduled(ns)
      share(n) ==
        LET first == FirstDay(n, effective)
        IN (n.hours * Scale * Overlap(first, n.end, start, end)) \div (n.end - first + 1)
  IN Total([n \in tasks |-> share(ns[n])], tasks)

\* Open work that ended before the event has to be planned anew.
NotOverdue(ns, effective) == \A n \in Open(ns) : ns[n].end >= effective

Weeks == {ScheduleStart + k * WeekDays : k \in 0 .. LimitWeeks - 1}

\* Two tasks with one span of a week at most (isSharedWeekWindow).
SharedWindow(ns, d, p) ==
  /\ ns[d].type = "task" /\ ns[p].type = "task"
  /\ ns[d].start = ns[p].start /\ ns[d].end = ns[p].end
  /\ ns[d].end - ns[d].start < WeekDays

\* Faulty variant: the proposal itself may put two tasks into one week.
InTurnAnyWindow(ns, d, p) == ns[d].start > ns[p].end \/ SharedWindow(ns, d, p)

\* A prerequisite ends before, or the two share their week as they did before.
InTurn(ns, d, p) ==
  ns[d].start > ns[p].end \/ (SharedWindow(nodes, d, p) /\ SharedWindow(ns, d, p))

-----------------------------------------------------------------------------

\* prepareEventReplanInput: what of the plan an event may change, and whether
\* the plan is in a state to be replanned.
Prepared(effective) ==
  /\ version > 1
  /\ \A dep \in Deps : nodes[dep[1]].status = "done" => nodes[dep[2]].status = "done"
  /\ effective <= ScheduleLimit
  /\ \A n \in Scheduled(nodes) : nodes[n].end <= ScheduleLimit
  /\ \A m \in Parents(nodes, Open(nodes)) : nodes[m].type = "milestone" /\ nodes[m].status # "done"

\* Faulty variant: a task keeps its start only if that is not in the past.
MayStartFresh(n, span, effective) == span.start >= effective

\* A task is not given a new start in the past.
MayStart(n, span, effective) == span.start = nodes[n].start \/ span.start >= effective

Moved(n, span) == nodes[n].start # span.start \/ nodes[n].end # span.end

Unlocked(n, span) ==
  /\ nodes[n].start # span.start => "start" \notin nodes[n].manual
  /\ nodes[n].end # span.end => "end" \notin nodes[n].manual

\* One proposed change.
MoveFits(n, span, effective) ==
  /\ n \in Open(nodes)
  /\ span.start <= span.end /\ span.start >= ScheduleStart /\ span.end <= ScheduleLimit
  /\ MayStart(n, span, effective)
  /\ Moved(n, span) => Unlocked(n, span) /\ span.end >= effective

TasksMoved(moves) ==
  [n \in DOMAIN nodes |->
     IF n \in DOMAIN moves
     THEN [nodes[n] EXCEPT !.start = moves[n].start, !.end = moves[n].end] ELSE nodes[n]]

ChangedParents(moves) == Parents(nodes, {n \in DOMAIN moves : Moved(n, moves[n])})

\* The span of a milestone's tasks.
Hull(ns, m) == [start |-> Least({ns[n].start : n \in Children(ns, m)}),
                end   |-> Greatest({ns[n].end : n \in Children(ns, m)})]

\* The plan's nodes with the moves made and the milestones' bounds after them.
Replanned(moves) ==
  LET ns == TasksMoved(moves)
  IN [n \in DOMAIN nodes |->
        IF n \in ChangedParents(moves)
        THEN [nodes[n] EXCEPT !.start = Hull(ns, n).start, !.end = Hull(ns, n).end] ELSE ns[n]]

\* compileEventReplan accepts the moves.
Compiles(effective, budget, moves) ==
  /\ \A n \in DOMAIN moves : MoveFits(n, moves[n], effective)
  /\ LET ns == Replanned(moves)
     IN /\ \A m \in ChangedParents(moves) : Unlocked(m, ns[m])
        /\ NotOverdue(ns, effective)
        /\ \A dep \in Deps :
             (dep[1] \in Open(nodes) \/ dep[2] \in Open(nodes)) => InTurn(ns, dep[1], dep[2])
        /\ \A w \in Weeks : w + WeekDays - 1 >= effective =>
             Occupied(ns, w, w + WeekDays - 1, effective) <= budget * Scale

-----------------------------------------------------------------------------

Init ==
  /\ draft \in Drafts
  /\ order = <<>> /\ nodes = [n \in {} |-> {}]
  /\ weekly = WeeklyHours /\ version = 1
  /\ last = [effective |-> 0, version |-> 0]

\* The route is compiled, and the user confirms the plan it becomes.
ConfirmRoute ==
  /\ version = 1 /\ draft \in Confirmed
  /\ Acceptable(draft.route, draft.days)
  /\ order' = Order(draft.route)
  /\ nodes' = NodesOf(draft.route, draft.days)
  /\ version' = 2
  /\ UNCHANGED <<draft, weekly, last>>

\* The user edits a task or milestone's dates, which locks those that change.
Edit(n, span) ==
  /\ version \in 2 .. MaxVersion - 1
  /\ Moved(n, span) /\ span.start <= span.end
  /\ nodes' = [nodes EXCEPT ![n].start = span.start, ![n].end = span.end,
                 ![n].manual = @ \cup {f \in {"start", "end"} : nodes[n][f] # span[f]}]
  /\ version' = version + 1
  /\ UNCHANGED <<draft, order, weekly, last>>

\* The user ticks a task or milestone off; the plan engine wants what it
\* depends on done.
Complete(n) ==
  /\ version \in 2 .. MaxVersion - 1
  /\ nodes[n].status # "done"
  /\ \A dep \in Deps : dep[1] = n => nodes[dep[2]].status = "done"
  /\ nodes' = [nodes EXCEPT ![n].status = "done"]
  /\ version' = version + 1
  /\ UNCHANGED <<draft, order, weekly, last>>

Replan(effective, budget, moves) ==
  /\ version < MaxVersion
  /\ Prepared(effective)
  /\ Compiles(effective, budget, moves)
  /\ nodes' = Replanned(moves)
  /\ weekly' = budget
  /\ nodes' # nodes \/ weekly' # weekly
  /\ version' = version + 1
  /\ last' = [effective |-> effective, version |-> version]
  /\ UNCHANGED <<draft, order>>

Moves == UNION {[S -> Spans] : S \in SUBSET Open(nodes)}

Next ==
  \/ ConfirmRoute
  \/ \E n \in DOMAIN nodes, span \in Edits : Edit(n, span)
  \/ \E n \in DOMAIN nodes : Complete(n)
  \/ \E effective \in Effective, budget \in Budgets, moves \in Moves :
       Replan(effective, budget, moves)

Spec == Init /\ [][Next]_vars

-----------------------------------------------------------------------------
(***************************************************************************)
(* What is always so of the plan: its nodes are those of the route, and    *)
(* keep its shape; every span is a span.                                   *)
(***************************************************************************)

IsSpan(n) == n.start \in Int /\ n.end \in Int /\ n.start <= n.end

Node(route) ==
  [type : {"milestone", "task"}, status : {"todo", "done"}, hours : Nat, start : Int, end : Int,
   milestone : DOMAIN route.milestones, manual : SUBSET {"start", "end"}]

TypeOK ==
  /\ IsRoute(draft.route) /\ draft.days \in Nat \ {0} /\ version \in Nat
  /\ version > 1 =>
       LET route == draft.route
       IN /\ Acceptable(route, draft.days)
          /\ nodes \in [DOMAIN route.milestones \cup TasksOf(route) -> Node(route)]
          /\ \A n \in DOMAIN nodes : /\ IsSpan(nodes[n])
                                     /\ nodes[n].type = "task" <=> n \in TasksOf(route)

-----------------------------------------------------------------------------

\* An acceptable route orders its tasks as they can be done: each after what it
\* depends on and week by week; no week has more work than its own days' hours
\* and elastic hours, and what exceeds the hours is told; a task lies in its
\* milestone's span (parseRoute, planningWeeks).
RouteIsSound ==
  LET route == draft.route
      days  == draft.days
      ns    == NodesOf(route, days)
      tasks == Order(route)
      hours(w) == Total([t \in TasksOf(route) |-> ns[t].hours],
                        {t \in TasksOf(route) : ns[t].start = WeekStart(w)})
      share(w, h) == h * Cardinality({d \in 0 .. days - 1 : d \div WeekDays = w - 1})
  IN Acceptable(route, days) =>
       /\ ToSet(tasks) = TasksOf(route) /\ Len(tasks) = Cardinality(TasksOf(route))
       /\ \A i \in DOMAIN tasks, j \in DOMAIN tasks :
            /\ <<tasks[i], tasks[j]>> \in DepsOf(route) => j < i
            /\ j < i => ns[tasks[j]].start <= ns[tasks[i]].start
       /\ \A w \in 1 .. WeekCount(days) :
            /\ hours(w) * WeekDays <= share(w, WeeklyHours) + share(w, Tolerance)
            /\ hours(w) * WeekDays > share(w, WeeklyHours) => w \in Overruns(route, days)
       /\ \A n \in Scheduled(ns) : /\ ns[n].start >= ns[ns[n].milestone].start
                                   /\ ns[n].end <= ns[ns[n].milestone].end
                                   /\ ns[n].end < days

-----------------------------------------------------------------------------
(***************************************************************************)
(* What a replan promises, counted day by day.                             *)
(***************************************************************************)

\* The work (times Scale) of a task on a day.
OnDay(n, effective, d) ==
  LET days == {k \in n.start .. n.end : n.status = "done" \/ k >= effective}
  IN IF d \in days THEN (n.hours * Scale) \div Cardinality(days) ELSE 0

WeekWork(ns, effective, w) ==
  LET tasks   == Scheduled(ns)
      days    == w .. w + WeekDays - 1
      work(d) == Total([n \in tasks |-> OnDay(ns[n], effective, d)], tasks)
  IN Total([d \in days |-> work(d)], days)

\* Nothing but dates changes, none that the user has set, none of finished
\* work, and none of a milestone but with its tasks.
KeepsWhatIsFixed(after) ==
  \A n \in DOMAIN nodes :
    /\ after[n].hours = nodes[n].hours /\ after[n].status = nodes[n].status
    /\ after[n].manual = nodes[n].manual /\ after[n].milestone = nodes[n].milestone
    /\ \A f \in {"start", "end"} : after[n][f] # nodes[n][f] =>
         /\ f \notin nodes[n].manual /\ nodes[n].status # "done"
         /\ nodes[n].type = "milestone" =>
              \E c \in Children(nodes, n) : after[c] # nodes[c]

Sound(after, effective, budget) ==
  /\ KeepsWhatIsFixed(after)
  /\ \A n \in Open(after) :
       /\ after[n].start <= after[n].end /\ after[n].end >= effective
       /\ after[n].start < effective => after[n].start = nodes[n].start
       /\ after[n] # nodes[n] =>
            /\ after[n].start >= ScheduleStart /\ after[n].end <= ScheduleLimit
            /\ LET m == after[after[n].milestone]
                   days == UNION {after[c].start .. after[c].end : c \in Children(after, after[n].milestone)}
               IN m.start = Least(days) /\ m.end = Greatest(days)
  /\ \A dep \in Deps : {dep[1], dep[2]} \cap Open(nodes) # {} =>
       \/ \A d \in after[dep[1]].start .. after[dep[1]].end : d > after[dep[2]].end
       \/ /\ \A f \in {"start", "end"} : after[dep[1]][f] = after[dep[2]][f] /\ nodes[dep[1]][f] = nodes[dep[2]][f]
          /\ Cardinality(after[dep[1]].start .. after[dep[1]].end) <= WeekDays
          /\ Cardinality(nodes[dep[1]].start .. nodes[dep[1]].end) <= WeekDays
  /\ \A w \in Weeks : (\E d \in w .. w + WeekDays - 1 : d >= effective) =>
       WeekWork(after, effective, w) <= budget * Scale

\* After any history of edits, ticked off tasks and earlier replans, a replan
\* keeps locked and finished dates, puts no work into the past, every task
\* after what it depends on or in the week they shared already, no more work
\* into a week than the new hours, and a moved task's milestone right around
\* its tasks (compileEventReplan).
ReplanIsSound == [][last' # last => Sound(nodes', last'.effective, weekly')]_vars

\* And no such schedule is refused: what compileEventReplan rejects breaks one
\* of these rules, none of which may be stricter than the model is told.
NoSoundReplanRefused ==
  version \in 2 .. MaxVersion - 1 =>
    \A effective \in Effective, budget \in Budgets, moves \in Moves :
      Prepared(effective) /\ Sound(Replanned(moves), effective, budget)
        => Compiles(effective, budget, moves)
=============================================================================
